--------------------------- MODULE WorkspaceReadsProofs ---------------------------
(***************************************************************************)
(* What a client is shown of its files is what was there, by the numbers   *)
(* that a patch will use; a tree is whole or said not to be, and a search  *)
(* that is not full lacks only lines at or behind one that is too long for *)
(* the scanner (WorkspaceReads): for any texts, queries, folders and       *)
(* limits, and whatever lower case makes of a symbol.                      *)
(*                                                                         *)
(* A search is a list at its limit or all of what was scanned; an excerpt  *)
(* is a slice of its text, whose lines have the numbers they have there;   *)
(* the best candidates are a fold over a sorted list; a tree ends with     *)
(* nothing left, or at its limit.  The lines of a text, and loops, are     *)
(* those of HostProofs.                                                    *)
(***************************************************************************)
EXTENDS HostProofs, WorkspaceReads

-------------------------------------------------------------------------------
(* The smallest of some numbers.                                           *)
LEMMA HasMin ==
  ASSUME NEW n \in Nat, NEW T \in SUBSET (0 .. n), T # {}
  PROVE  Min(T) \in T /\ \A y \in T : Min(T) <= y
<1> DEFINE R == {n - x : x \in T}
<1>1. R \in SUBSET (0 .. n) /\ R # {}
  <2>1. \A x \in T : n - x \in 0 .. n  OBVIOUS
  <2> QED  BY <2>1
<1>2. Max(R) \in R /\ \A y \in R : Max(R) >= y
  <2> HIDE DEF R
  <2> QED  BY <1>1, HasMax
<1>3. PICK x \in T : Max(R) = n - x  BY <1>2
<1>4. \A y \in T : n - x >= n - y  BY <1>2, <1>3
<1>5. \A y \in T : x <= y
  <2> HIDE DEF R
  <2> QED  BY <1>4
<1> QED  BY <1>3, <1>5, Zenon DEF Min

-------------------------------------------------------------------------------
(* Search: a list of hits that is either whole or at its limit.            *)
Hit == [file : File, line : Nat]

Listed(hits, all) ==
  /\ IsFiniteSet(all) /\ hits \in Seq(Hit) /\ Len(hits) <= MaxSearchHits
  /\ \A i \in 1 .. Len(hits) : hits[i] \in all
  /\ \A i, j \in 1 .. Len(hits) : hits[i] = hits[j] => i = j
  /\ Len(hits) < MaxSearchHits => \A h \in all : \E i \in 1 .. Len(hits) : hits[i] = h

(* One more hit, if there is room.                                         *)
LEMMA ListsOneMore ==
  ASSUME NEW hits, NEW all, Listed(hits, all), NEW h \in Hit, h \notin all
  PROVE  Listed(IF Len(hits) < MaxSearchHits THEN Append(hits, h) ELSE hits, all \cup {h})
<1>1. IsFiniteSet(all \cup {h})  BY FS_AddElement DEF Listed
<1>2. CASE ~(Len(hits) < MaxSearchHits)  BY <1>1, <1>2 DEF Listed
<1>3. CASE Len(hits) < MaxSearchHits
  <2> DEFINE new == Append(hits, h)
  <2>0. MaxSearchHits \in Nat  BY ReadsAssumption
  <2>1. hits \in Seq(Hit) /\ Len(hits) \in Nat /\ \A i \in 1 .. Len(hits) : hits[i] \in all
    BY DEF Listed
  <2>2. new \in Seq(Hit) /\ Len(new) = Len(hits) + 1 /\ new[Len(hits) + 1] = h
        /\ \A i \in 1 .. Len(hits) : new[i] = hits[i]
    BY <2>1, AppendProperties
  <2>3. Len(new) <= MaxSearchHits  BY <1>3, <2>0, <2>1, <2>2
  <2> HIDE DEF new
  <2>4. \A i \in 1 .. Len(new) : i \in 1 .. Len(hits) \/ i = Len(hits) + 1  BY <2>1, <2>2
  <2>5. \A i \in 1 .. Len(new) : new[i] \in all \cup {h}  BY <2>1, <2>2, <2>4
  <2>6. \A i, j \in 1 .. Len(new) : new[i] = new[j] => i = j
    BY <2>1, <2>2, <2>4 DEF Listed
  <2>7. \A g \in all \cup {h} : \E i \in 1 .. Len(new) : new[i] = g
    <3>1. Len(hits) + 1 \in 1 .. Len(new) /\ \A i \in 1 .. Len(hits) : i \in 1 .. Len(new)  BY <2>1, <2>2
    <3> QED  BY <1>3, <2>2, <3>1 DEF Listed
  <2>8. Listed(new, all \cup {h})  BY <1>1, <2>2, <2>3, <2>5, <2>6, <2>7 DEF Listed
  <2> QED  BY <1>3, <2>8 DEF new
<1> QED  BY <1>2, <1>3

(* The loop of scanFile.                                                   *)
ScanOf(more, hits, f, lines, words) ==
  more = [i \in 0 .. Len(lines) |->
            IF i = 0 THEN hits
            ELSE IF Len(more[i - 1]) < MaxSearchHits /\ Has(ToLower(lines[i]), words)
            THEN Append(more[i - 1], [file |-> f, line |-> i])
            ELSE more[i - 1]]

(* scanFile is that loop.                                                  *)
LEMMA ScanHasRun ==
  ASSUME NEW hits \in Seq(Hit), NEW f \in File, NEW words, Scanned(disk[f]) \in Seq(Seq(Symbol))
  PROVE  \E more : ScanOf(more, hits, f, Scanned(disk[f]), words)
                   /\ ScanFile(hits, f, words) = more[Len(Scanned(disk[f]))]
<1> DEFINE lines == Scanned(disk[f])
           n == Len(lines)
           step == [z \in (1 .. n) \X Seq(Hit) |->
                      IF Len(z[2]) < MaxSearchHits /\ Has(ToLower(lines[z[1]]), words)
                      THEN Append(z[2], [file |-> f, line |-> z[1]]) ELSE z[2]]
<1>1. n \in Nat  OBVIOUS
<1>2. step \in [(1 .. n) \X Seq(Hit) -> Seq(Hit)]
  <2>1. ASSUME NEW z \in (1 .. n) \X Seq(Hit)
        PROVE  (IF Len(z[2]) < MaxSearchHits /\ Has(ToLower(lines[z[1]]), words)
                THEN Append(z[2], [file |-> f, line |-> z[1]]) ELSE z[2]) \in Seq(Hit)
    <3>1. z[1] \in Nat /\ z[2] \in Seq(Hit)  BY <1>1
    <3>2. [file |-> f, line |-> z[1]] \in Hit  BY <3>1 DEF Hit
    <3>3. Append(z[2], [file |-> f, line |-> z[1]]) \in Seq(Hit)  BY <3>1, <3>2, AppendProperties
    <3> QED  BY <3>1, <3>3
  <2> QED  BY <2>1
<1> HIDE DEF step, n, lines
<1>0. PICK g : Loops(g, n, Seq(Hit), hits, step)  BY <1>1, <1>2, LoopExists
<1>4. /\ g \in [0 .. n -> Seq(Hit)] /\ g[0] = hits
      /\ \A p \in 1 .. n : g[p] = step[<<p, g[p - 1]>>]
  BY <1>0 DEF Loops
<1>5. ScanOf(g, hits, f, lines, words)
  <2>1. ASSUME NEW p \in 0 .. n
        PROVE  g[p] = IF p = 0 THEN hits
                      ELSE IF Len(g[p - 1]) < MaxSearchHits /\ Has(ToLower(lines[p]), words)
                           THEN Append(g[p - 1], [file |-> f, line |-> p]) ELSE g[p - 1]
    <3>1. CASE p = 0  BY <1>4, <3>1
    <3>2. CASE p # 0
      <4>1. p \in 1 .. n /\ p - 1 \in 0 .. n  BY <1>1, <3>2
      <4>2. <<p, g[p - 1]>> \in (1 .. n) \X Seq(Hit)  BY <1>4, <4>1
      <4> QED  BY <1>4, <3>2, <4>1, <4>2 DEF step
    <3> QED  BY <3>1, <3>2
  <2> QED  BY <1>4, <2>1 DEF ScanOf, n
<1> DEFINE more == CHOOSE h : ScanOf(h, hits, f, lines, words)
<1>6. ScanOf(more, hits, f, lines, words)  BY <1>5
<1>7. ScanFile(hits, f, words) = more[n]  BY DEF ScanFile, ScanOf, lines, n
<1> HIDE DEF more
<1> QED  BY <1>6, <1>7 DEF lines, n

(* Lines up to one that is too long.                                       *)
LEMMA ScannedTyped ==
  ASSUME NEW text \in Seq(Symbol)
  PROVE  Scanned(text) \in Seq(Seq(Symbol))
<1> DEFINE lines == LineSeq(text)
           long == {i \in DOMAIN lines : Len(lines[i]) > MaxScan}
<1>1. lines \in Seq(Seq(Symbol)) /\ Len(lines) \in Nat /\ DOMAIN lines = 1 .. Len(lines)  BY LinesTyped
<1>2. CASE long = {}  BY <1>1, <1>2 DEF Scanned
<1>3. CASE long # {}
  <2>1. Min(long) \in long
    <3>1. long \in SUBSET (1 .. Len(lines))  BY <1>1
    <3>2. long \in SUBSET (0 .. Len(lines))  BY <1>1, <3>1
    <3> HIDE DEF long, lines
    <3> QED  BY <1>1, <1>3, <3>2, HasMin
  <2>2. Scanned(text) = SubSeq(lines, 1, Min(long) - 1)  BY <1>3 DEF Scanned
  <2>3. Min(long) \in 1 .. Len(lines)  BY <1>1, <2>1
  <2> HIDE DEF long, lines
  <2>4. \A i \in 1 .. (Min(long) - 1) : lines[i] \in Seq(Symbol)  BY <1>1, <2>3
  <2> QED  BY <1>1, <2>2, <2>3, <2>4, SubSeqProperties
<1> QED  BY <1>2, <1>3

(* The lines of a text from one on that is too long are not scanned; those *)
(* before it are.                                                          *)
LEMMA ScannedPart ==
  ASSUME NEW text \in Seq(Symbol)
  PROVE  LET lines == LineSeq(text) IN
         \A i \in Nat :
           /\ i \in DOMAIN Scanned(text) => i \in DOMAIN lines /\ Scanned(text)[i] = lines[i]
           /\ i \in DOMAIN lines \ DOMAIN Scanned(text) =>
                \E j \in DOMAIN lines : j <= i /\ Len(lines[j]) > MaxScan
<1> DEFINE lines == LineSeq(text)
           long == {i \in DOMAIN lines : Len(lines[i]) > MaxScan}
<1>1. lines \in Seq(Seq(Symbol)) /\ Len(lines) \in Nat /\ DOMAIN lines = 1 .. Len(lines)  BY LinesTyped
<1>2. CASE long = {}
  <2>1. Scanned(text) = lines  BY <1>2 DEF Scanned
  <2> QED  BY <2>1
<1>3. CASE long # {}
  <2>1. Min(long) \in long
    <3>1. long \in SUBSET (1 .. Len(lines))  BY <1>1
    <3>2. long \in SUBSET (0 .. Len(lines))  BY <1>1, <3>1
    <3> HIDE DEF long, lines
    <3> QED  BY <1>1, <1>3, <3>2, HasMin
  <2>2. Scanned(text) = SubSeq(lines, 1, Min(long) - 1)  BY <1>3 DEF Scanned
  <2>3. Min(long) \in 1 .. Len(lines) /\ Len(lines[Min(long)]) > MaxScan  BY <1>1, <2>1
  <2> HIDE DEF long, lines
  <2>4. \A i \in 1 .. (Min(long) - 1) : lines[i] \in Seq(Symbol)  BY <1>1, <2>3
  <2>5. /\ Scanned(text) \in Seq(Seq(Symbol)) /\ Len(Scanned(text)) = Min(long) - 1
        /\ \A i \in 1 .. (Min(long) - 1) : Scanned(text)[i] = lines[i]
    <3>1. 1 \in Int /\ Min(long) - 1 \in Int /\ 0 <= Min(long) - 1  BY <1>1, <2>3
    <3> DEFINE m == Min(long) - 1
    <3>2. m \in Nat /\ \A i \in 1 .. m : lines[i] \in Seq(Symbol)  BY <2>4, <3>1
    <3> HIDE DEF m
    <3>3. /\ SubSeq(lines, 1, m) \in Seq(Seq(Symbol)) /\ Len(SubSeq(lines, 1, m)) = m
          /\ \A i \in 1 .. m : SubSeq(lines, 1, m)[i] = lines[i]
      BY <3>2, SubSeqProperties
    <3> QED  BY <2>2, <3>3 DEF m
  <2>6. DOMAIN Scanned(text) = 1 .. (Min(long) - 1)  BY <2>5
  <2>7. \A i \in 1 .. Len(lines) : i \notin 1 .. (Min(long) - 1) => Min(long) <= i  BY <1>1, <2>3
  <2>8. \A i \in 1 .. (Min(long) - 1) : i \in 1 .. Len(lines)  BY <1>1, <2>3
  <2>9. \A i \in Nat : i \in DOMAIN Scanned(text) => i \in DOMAIN lines /\ Scanned(text)[i] = lines[i]
    BY <1>1, <2>5, <2>6, <2>8
  <2>10. \A i \in Nat : i \in DOMAIN lines \ DOMAIN Scanned(text) =>
           \E j \in DOMAIN lines : j <= i /\ Len(lines[j]) > MaxScan
    BY <1>1, <2>3, <2>6, <2>7
  <2>11. \A i \in Nat :
           /\ i \in DOMAIN Scanned(text) => i \in DOMAIN lines /\ Scanned(text)[i] = lines[i]
           /\ i \in DOMAIN lines \ DOMAIN Scanned(text) =>
                \E j \in DOMAIN lines : j <= i /\ Len(lines[j]) > MaxScan
    BY <2>9, <2>10
  <2> QED  BY <2>11 DEF lines
<1> QED  BY <1>2, <1>3

(* The hits in what is scanned of a text.                                  *)
HitsScanned(f, text, words) ==
  {[file |-> f, line |-> i] : i \in {j \in DOMAIN Scanned(text) : Has(ToLower(Scanned(text)[j]), words)}}

(* They are those of the text, but for the lines that are not scanned.     *)
LEMMA HitsMissed ==
  ASSUME NEW f, NEW text \in Seq(Symbol), NEW words
  PROVE  /\ HitsScanned(f, text, words) \subseteq HitsOf(f, text, words)
         /\ \A h \in HitsOf(f, text, words) \ HitsScanned(f, text, words) :
              h.file = f /\ \E j \in DOMAIN LineSeq(text) : j <= h.line /\ Len(LineSeq(text)[j]) > MaxScan
<1> DEFINE lines == LineSeq(text)
           scanned == Scanned(text)
<1>1. DOMAIN lines \subseteq Nat /\ DOMAIN scanned \subseteq Nat
  <2>1. lines \in Seq(Seq(Symbol)) /\ scanned \in Seq(Seq(Symbol))  BY LinesTyped, ScannedTyped
  <2> QED  BY <2>1
<1>2. \A i \in Nat : i \in DOMAIN scanned => i \in DOMAIN lines /\ scanned[i] = lines[i]  BY ScannedPart
<1>3. \A i \in Nat : i \in DOMAIN lines \ DOMAIN scanned =>
        \E j \in DOMAIN lines : j <= i /\ Len(lines[j]) > MaxScan  BY ScannedPart
<1> HIDE DEF lines, scanned
<1>4. HitsScanned(f, text, words) \subseteq HitsOf(f, text, words)
  <2> SUFFICES ASSUME NEW i \in DOMAIN scanned, Has(ToLower(scanned[i]), words)
               PROVE  [file |-> f, line |-> i] \in HitsOf(f, text, words)
    BY DEF HitsScanned, scanned
  <2>1. i \in DOMAIN lines /\ Has(ToLower(lines[i]), words)  BY <1>1, <1>2
  <2> QED  BY <2>1 DEF HitsOf, lines
<1>5. ASSUME NEW h \in HitsOf(f, text, words) \ HitsScanned(f, text, words)
      PROVE  h.file = f /\ \E j \in DOMAIN lines : j <= h.line /\ Len(lines[j]) > MaxScan
  <2>1. PICK i \in DOMAIN lines : Has(ToLower(lines[i]), words) /\ h = [file |-> f, line |-> i]
    BY <1>5 DEF HitsOf, lines
  <2>2. h.file = f /\ h.line = i /\ i \in Nat  BY <1>1, <2>1
  <2>3. i \notin DOMAIN scanned
    <3> SUFFICES ASSUME i \in DOMAIN scanned  PROVE h \in HitsScanned(f, text, words)
      BY <1>5
    <3>1. Has(ToLower(scanned[i]), words)  BY <1>2, <2>1, <2>2
    <3> QED  BY <2>1, <3>1 DEF HitsScanned, scanned
  <2> QED  BY <1>3, <2>1, <2>2, <2>3
<1> QED  BY <1>4, <1>5 DEF lines

(* What a file adds to the list.                                           *)
LEMMA ScanLists ==
  ASSUME NEW hits, NEW all, Listed(hits, all), NEW f \in File, NEW words, disk[f] \in Seq(Symbol),
         \A h \in all : h.file # f
  PROVE  Listed(ScanFile(hits, f, words), all \cup HitsScanned(f, disk[f], words))
<1> DEFINE lines == Scanned(disk[f])
           n == Len(lines)
           HitAt(i) == [file |-> f, line |-> i]
           Upto(k) == {HitAt(i) : i \in {j \in 1 .. k : Has(ToLower(lines[j]), words)}}
<1>0. lines \in Seq(Seq(Symbol)) /\ n \in Nat /\ DOMAIN lines = 1 .. n  BY ScannedTyped
<1>1. PICK more : ScanOf(more, hits, f, lines, words) /\ ScanFile(hits, f, words) = more[n]
  <2>1. hits \in Seq(Hit)  BY DEF Listed
  <2>2. Scanned(disk[f]) \in Seq(Seq(Symbol))  BY <1>0
  <2>3. \E more : ScanOf(more, hits, f, Scanned(disk[f]), words)
                  /\ ScanFile(hits, f, words) = more[Len(Scanned(disk[f]))]
    BY <2>1, <2>2, ScanHasRun
  <2> QED  BY <2>3
<1>2. HitsScanned(f, disk[f], words) = Upto(n)  BY <1>0 DEF HitsScanned
<1>h. \A i \in Nat : HitAt(i) \in Hit /\ HitAt(i).file = f /\ HitAt(i).line = i  BY DEF Hit
<1> HIDE DEF lines, n
<1> DEFINE S == {k \in Nat : k <= n => Listed(more[k], all \cup Upto(k))}
<1>3. 0 \in S
  <2>1. more[0] = hits /\ Upto(0) = {}  BY <1>0, <1>1 DEF ScanOf, n
  <2>2. all \cup Upto(0) = all  BY <2>1
  <2> HIDE DEF Upto
  <2> QED  BY <2>1, <2>2
<1>4. ASSUME NEW k \in Nat, k \in S  PROVE k + 1 \in S
  <2> SUFFICES ASSUME k + 1 <= n  PROVE Listed(more[k + 1], all \cup Upto(k + 1))
    OBVIOUS
  <2>1. k + 1 \in 0 .. n /\ k + 1 # 0 /\ (k + 1) - 1 = k /\ k <= n  BY <1>0
  <2>2. Listed(more[k], all \cup Upto(k))
    <3> HIDE DEF Upto
    <3> QED  BY <1>4, <2>1
  <2>3. more[k + 1] = IF Len(more[k]) < MaxSearchHits /\ Has(ToLower(lines[k + 1]), words)
                      THEN Append(more[k], HitAt(k + 1)) ELSE more[k]
    BY <1>1, <2>1 DEF ScanOf, n
  <2>4. CASE ~Has(ToLower(lines[k + 1]), words)
    <3>1. Upto(k + 1) = Upto(k)
      <4>1. {j \in 1 .. (k + 1) : Has(ToLower(lines[j]), words)} = {j \in 1 .. k : Has(ToLower(lines[j]), words)}
        <5>1. \A j \in 1 .. (k + 1) : j # k + 1 => j \in 1 .. k  OBVIOUS
        <5>2. \A j \in 1 .. k : j \in 1 .. (k + 1)  OBVIOUS
        <5> QED  BY <2>4, <5>1, <5>2
      <4> QED  BY <4>1
    <3> HIDE DEF Upto
    <3> QED  BY <2>2, <2>3, <2>4, <3>1
  <2>5. CASE Has(ToLower(lines[k + 1]), words)
    <3>1. Upto(k + 1) = Upto(k) \cup {HitAt(k + 1)}
      <4>1. {j \in 1 .. (k + 1) : Has(ToLower(lines[j]), words)} = {j \in 1 .. k : Has(ToLower(lines[j]), words)} \cup {k + 1}
        <5>1. \A j \in 1 .. (k + 1) : j # k + 1 => j \in 1 .. k  OBVIOUS
        <5>2. \A j \in 1 .. k : j \in 1 .. (k + 1)  OBVIOUS
        <5>3. k + 1 \in 1 .. (k + 1)  OBVIOUS
        <5> QED  BY <2>5, <5>1, <5>2, <5>3
      <4> QED  BY <4>1
    <3>2. HitAt(k + 1) \in Hit /\ HitAt(k + 1).file = f /\ HitAt(k + 1).line = k + 1  BY <1>h
    <3>3. \A h \in Upto(k) : h.line \in 1 .. k  BY <1>h
    <3>4. HitAt(k + 1) \notin all \cup Upto(k)
      <4>1. HitAt(k + 1) \notin all  BY <3>2
      <4>2. k + 1 \notin 1 .. k  OBVIOUS
      <4> HIDE DEF Upto, HitAt
      <4> QED  BY <3>2, <3>3, <4>1, <4>2
    <3> HIDE DEF Upto, HitAt
    <3>5. Listed(IF Len(more[k]) < MaxSearchHits THEN Append(more[k], HitAt(k + 1)) ELSE more[k],
                 (all \cup Upto(k)) \cup {HitAt(k + 1)})
      BY <2>2, <3>2, <3>4, ListsOneMore
    <3>6. (all \cup Upto(k)) \cup {HitAt(k + 1)} = all \cup Upto(k + 1)  BY <3>1
    <3> QED  BY <2>3, <2>5, <3>5, <3>6
  <2> QED  BY <2>4, <2>5
<1>5. Nat \subseteq S
  <2> HIDE DEF S
  <2> QED  BY <1>3, <1>4, NatInd
<1>6. Listed(more[n], all \cup Upto(n))
  <2>1. n \in S
    <3> HIDE DEF S
    <3> QED  BY <1>0, <1>5
  <2>2. n <= n  BY <1>0
  <2> HIDE DEF Upto
  <2> QED  BY <2>1, <2>2
<1> HIDE DEF Upto
<1> QED  BY <1>1, <1>2, <1>6

(* What a list tells when it has been made.                                *)
LEMMA ListTells ==
  ASSUME NEW hits, NEW all, Listed(hits, all)
  PROVE  /\ Range(hits) \subseteq all /\ Len(hits) <= MaxSearchHits
         /\ \A i, j \in DOMAIN hits : hits[i] = hits[j] => i = j
         /\ Len(hits) < MaxSearchHits => all \subseteq Range(hits)
<1>1. hits \in Seq(Hit) /\ DOMAIN hits = 1 .. Len(hits)  BY DEF Listed
<1> QED  BY <1>1 DEF Listed, Range

(* The hits in the files that a search has read.                           *)
FoundIn(of, words) == UNION {HitsScanned(PathOrder[i], of[i], words) : i \in 1 .. Len(of)}

Searching == [kind : {"search"}, todo : Seq(File), words : Seq(Symbol), hits : Seq(Hit), of : Seq(Seq(Symbol))]

(* A search under way: it has listed what was in the files it has read.    *)
SearchKept(r) ==
  /\ r \in Searching /\ Len(r.of) <= Len(PathOrder)
  /\ r.todo = SubSeq(PathOrder, Len(r.of) + 1, Len(PathOrder))
  /\ Listed(r.hits, FoundIn(r.of, r.words))

(* A file of no lines adds no hit.                                         *)
LEMMA NoHits ==
  ASSUME NEW f, NEW words
  PROVE  HitsScanned(f, <<>>, words) = {}
<1>1. LineSeq(<<>>) = <<>>  BY NoLines
<1>2. DOMAIN <<>> = {}  OBVIOUS
<1>3. Scanned(<<>>) = <<>>  BY <1>1, <1>2 DEF Scanned
<1> QED  BY <1>2, <1>3 DEF HitsScanned

(* What is left of a sequence from some place on.                          *)
LEMMA RestOf ==
  ASSUME NEW S, NEW s \in Seq(S), NEW k \in Nat, NEW rest, rest = SubSeq(s, k + 1, Len(s)), rest # <<>>
  PROVE  /\ k + 1 <= Len(s) /\ Head(rest) = s[k + 1]
         /\ Tail(rest) = SubSeq(s, (k + 1) + 1, Len(s)) /\ Tail(rest) \in Seq(S)
<1> DEFINE n == Len(s)
<1>0. n \in Nat /\ \A i \in 1 .. n : s[i] \in S  OBVIOUS
<1> HIDE DEF n
<1>1. \A i \in (k + 1) .. n : s[i] \in S  BY <1>0
<1>2. /\ rest \in Seq(S) /\ Len(rest) = IF k + 1 <= n THEN n - (k + 1) + 1 ELSE 0
      /\ \A i \in 1 .. (n - (k + 1) + 1) : rest[i] = s[(k + 1) + i - 1]
  <2>1. k + 1 \in Int /\ n \in Int  BY <1>0
  <2>2. rest = SubSeq(s, k + 1, n)  BY DEF n
  <2> QED  BY <1>1, <2>1, <2>2, SubSeqProperties
<1>3. k + 1 <= n
  <2>1. Len(rest) # 0  BY <1>2
  <2> QED  BY <1>0, <1>2, <2>1
<1>4. Len(rest) = n - k /\ \A i \in 1 .. (n - k) : rest[i] = s[k + i]
  <2>1. Len(rest) = n - (k + 1) + 1 /\ n - (k + 1) + 1 = n - k  BY <1>0, <1>2, <1>3
  <2>2. \A i \in 1 .. (n - k) : (k + 1) + i - 1 = k + i  BY <1>0
  <2> QED  BY <1>2, <2>1, <2>2
<1>5. Head(rest) = s[k + 1]
  <2>1. 1 \in 1 .. (n - k)  BY <1>0, <1>3
  <2>2. Head(rest) = rest[1]  BY <1>2
  <2> QED  BY <1>4, <2>1, <2>2
<1>6. /\ Tail(rest) \in Seq(S) /\ Len(Tail(rest)) = Len(rest) - 1
      /\ \A i \in 1 .. (Len(rest) - 1) : Tail(rest)[i] = rest[i + 1]
  BY <1>2
<1>7. Len(Tail(rest)) = n - k - 1 /\ \A i \in 1 .. (n - k - 1) : Tail(rest)[i] = s[k + i + 1]
  <2>1. \A i \in 1 .. (n - k - 1) : i + 1 \in 1 .. (n - k) /\ k + (i + 1) = k + i + 1  BY <1>0
  <2>2. \A i \in 1 .. (n - k - 1) : Tail(rest)[i] = rest[i + 1]  BY <1>0, <1>4, <1>6
  <2>3. Len(Tail(rest)) = n - k - 1  BY <1>0, <1>4, <1>6
  <2> QED  BY <1>4, <2>1, <2>2, <2>3
<1>8. SubSeq(s, (k + 1) + 1, n) = Tail(rest)
  <2> DEFINE u == SubSeq(s, (k + 1) + 1, n)
  <2>1. (k + 1) + 1 \in Int /\ n \in Int /\ \A i \in ((k + 1) + 1) .. n : s[i] \in S  BY <1>0
  <2>2. /\ u \in Seq(S) /\ Len(u) = IF (k + 1) + 1 <= n THEN n - ((k + 1) + 1) + 1 ELSE 0
        /\ \A i \in 1 .. (n - ((k + 1) + 1) + 1) : u[i] = s[((k + 1) + 1) + i - 1]
    BY <2>1, SubSeqProperties
  <2> HIDE DEF u
  <2>3. Len(u) = n - k - 1  BY <1>0, <1>3, <2>2
  <2>4. \A i \in 1 .. (n - k - 1) : u[i] = s[k + i + 1]
    <3>1. n - ((k + 1) + 1) + 1 = n - k - 1 /\ \A i \in 1 .. (n - k - 1) : ((k + 1) + 1) + i - 1 = k + i + 1
      BY <1>0
    <3> QED  BY <2>2, <3>1
  <2>5. u = Tail(rest)  BY <1>6, <1>7, <2>2, <2>3, <2>4, SeqEqual
  <2> QED  BY <2>5 DEF u
<1> QED  BY <1>3, <1>5, <1>6, <1>8 DEF n

(* One more file, of which nothing is listed if it is not read.            *)
LEMMA SearchGoesOn ==
  ASSUME NEW r, SearchKept(r), r.todo # <<>>, NEW t \in Seq(Symbol), NEW hits,
         \/ t = <<>> /\ hits = r.hits
         \/ Listed(hits, FoundIn(r.of, r.words) \cup HitsScanned(Head(r.todo), t, r.words))
  PROVE  SearchKept([r EXCEPT !.todo = Tail(@), !.hits = hits, !.of = Append(@, t)])
<1> DEFINE k == Len(r.of)
           of == Append(r.of, t)
           n == Len(PathOrder)
           new == [r EXCEPT !.todo = Tail(@), !.hits = hits, !.of = of]
<1>0. /\ r \in Searching /\ r.of \in Seq(Seq(Symbol)) /\ k \in Nat /\ n \in Nat /\ k <= n
      /\ PathOrder \in Seq(File) /\ r.todo = SubSeq(PathOrder, k + 1, n) /\ r.todo \in Seq(File)
  <2>1. r \in Searching /\ k <= n /\ r.todo = SubSeq(PathOrder, k + 1, n)
    BY DEF SearchKept
  <2>2. r.of \in Seq(Seq(Symbol)) /\ r.todo \in Seq(File)
    BY <2>1 DEF Searching
  <2>3. PathOrder \in Seq(File)
    BY ReadsAssumption
  <2>4. k \in Nat /\ n \in Nat
    BY <2>2, <2>3
  <2> QED  BY <2>1, <2>2, <2>3, <2>4
<1>1. of \in Seq(Seq(Symbol)) /\ Len(of) = k + 1 /\ of[k + 1] = t /\ \A i \in 1 .. k : of[i] = r.of[i]
  BY <1>0, AppendProperties
<1>2. /\ k + 1 <= n /\ Head(r.todo) = PathOrder[k + 1]
      /\ Tail(r.todo) = SubSeq(PathOrder, (k + 1) + 1, n) /\ Tail(r.todo) \in Seq(File)
  BY <1>0, RestOf DEF SearchKept
<1> HIDE DEF of, k, n
<1>3. FoundIn(of, r.words) = FoundIn(r.of, r.words) \cup HitsScanned(PathOrder[k + 1], t, r.words)
  <2>1. \A i \in 1 .. (k + 1) : i \in 1 .. k \/ i = k + 1  BY <1>0
  <2>2. \A i \in 1 .. k : i \in 1 .. (k + 1)  BY <1>0
  <2>3. k + 1 \in 1 .. (k + 1)  BY <1>0
  <2> QED  BY <1>1, <2>1, <2>2, <2>3 DEF FoundIn, k
<1>4. Listed(hits, FoundIn(of, r.words))
  <2>1. CASE t = <<>> /\ hits = r.hits
    <3>1. HitsScanned(PathOrder[k + 1], t, r.words) = {}  BY <2>1, NoHits
    <3>2. FoundIn(of, r.words) = FoundIn(r.of, r.words)  BY <1>3, <3>1
    <3> QED  BY <2>1, <3>2 DEF SearchKept
  <2>2. CASE Listed(hits, FoundIn(r.of, r.words) \cup HitsScanned(Head(r.todo), t, r.words))
    BY <1>2, <1>3, <2>2
  <2> QED  BY <2>1, <2>2
<1>5. hits \in Seq(Hit)  BY <1>4 DEF Listed
<1>6. /\ new \in Searching /\ new.of = of /\ new.todo = Tail(r.todo) /\ new.hits = hits /\ new.words = r.words
  BY <1>0, <1>1, <1>2, <1>5 DEF Searching
<1> HIDE DEF new
<1>7. SearchKept(new)  BY <1>1, <1>2, <1>4, <1>6 DEF SearchKept, n
<1> QED  BY <1>7 DEF new, of

(* A request for what is in the workspace changes no file.                 *)
LEMMA ReadsAreSteps ==
  [ReadsNext]_readsVars => [WorkNext]_workVars
<1> SUFFICES ASSUME [ReadsNext]_readsVars  PROVE [WorkNext]_workVars
  OBVIOUS
<1>1. CASE UNCHANGED readsVars  BY <1>1 DEF readsVars
<1>2. CASE (Import \/ RestartWorkspaces) /\ UNCHANGED reading  BY <1>2 DEF WorkNext
<1>3. CASE \E f \in File, text \in Texts : EditFile(f, text) /\ UNCHANGED reading  BY <1>3 DEF WorkNext
<1>4. CASE ReadForContext \/ ReadForSearch  BY <1>4 DEF ReadForContext, ReadForSearch
<1>5. CASE \E query \in Queries : BeginContext(query) \/ BeginSearch(query.words)
  BY <1>5 DEF BeginContext, BeginSearch
<1>6. CASE \E f \in File : ReadFile(f)  BY <1>6 DEF ReadFile
<1>7. CASE \E path \in Entries : Tree(path)  BY <1>7 DEF Tree
<1> QED  BY <1>1, <1>2, <1>3, <1>4, <1>5, <1>6, <1>7 DEF ReadsNext

SearchInv == reading.kind = "search" => SearchKept(reading)

(* A search begins with nothing listed.                                    *)
LEMMA SearchBegins ==
  ASSUME NEW words \in Seq(Symbol)
  PROVE  SearchKept([kind |-> "search", todo |-> PathOrder, words |-> words, hits |-> <<>>, of |-> <<>>])
<1> DEFINE r == [kind |-> "search", todo |-> PathOrder, words |-> words, hits |-> <<>>, of |-> <<>>]
<1>0. PathOrder \in Seq(File) /\ MaxSearchHits \in Nat  BY ReadsAssumption
<1>1. <<>> \in Seq(Hit) /\ <<>> \in Seq(Seq(Symbol)) /\ Len(<<>>) = 0  OBVIOUS
<1>2. r \in Searching  BY <1>0, <1>1 DEF Searching
<1>3. FoundIn(<<>>, words) = {}
  <2>1. 1 .. Len(<<>>) = {}  OBVIOUS
  <2> QED  BY <2>1 DEF FoundIn
<1>4. Listed(<<>>, {})  BY <1>0, <1>1, FS_EmptySet DEF Listed
<1>5. SubSeq(PathOrder, 0 + 1, Len(PathOrder)) = PathOrder  BY <1>0
<1>6. r.of = <<>> /\ r.todo = PathOrder /\ r.hits = <<>> /\ r.words = words  OBVIOUS
<1> HIDE DEF r
<1>7. Len(r.of) = 0 /\ Len(r.of) <= Len(PathOrder)  BY <1>0, <1>1, <1>6
<1>8. SearchKept(r)  BY <1>2, <1>3, <1>4, <1>5, <1>6, <1>7 DEF SearchKept
<1> QED  BY <1>8 DEF r

(* It has listed no hit in a file that it has yet to read.                 *)
LEMMA NotYetListed ==
  ASSUME NEW r, SearchKept(r), r.todo # <<>>
  PROVE  Head(r.todo) \in File /\ \A h \in FoundIn(r.of, r.words) : h.file # Head(r.todo)
<1> DEFINE k == Len(r.of)
<1>0. k \in Nat /\ PathOrder \in Seq(File) /\ IsInjective(PathOrder)
      /\ r.todo = SubSeq(PathOrder, k + 1, Len(PathOrder)) /\ k <= Len(PathOrder)
  BY ReadsAssumption DEF SearchKept, Searching
<1>1. k + 1 <= Len(PathOrder) /\ Head(r.todo) = PathOrder[k + 1]
  <2> HIDE DEF k
  <2> QED  BY <1>0, RestOf
<1> HIDE DEF k
<1>2. k + 1 \in 1 .. Len(PathOrder) /\ \A i \in 1 .. k : i \in 1 .. Len(PathOrder) /\ i # k + 1
  BY <1>0, <1>1
<1>3. DOMAIN PathOrder = 1 .. Len(PathOrder) /\ \A i \in 1 .. Len(PathOrder) : PathOrder[i] \in File
  BY <1>0
<1>4. \A i \in 1 .. k : PathOrder[i] # PathOrder[k + 1]  BY <1>0, <1>2, <1>3 DEF IsInjective
<1>5. ASSUME NEW h \in FoundIn(r.of, r.words)  PROVE h.file # Head(r.todo)
  <2>1. PICK i \in 1 .. k : h \in HitsScanned(PathOrder[i], r.of[i], r.words)  BY <1>5 DEF FoundIn, k
  <2>2. h.file = PathOrder[i]  BY <2>1 DEF HitsScanned
  <2> QED  BY <1>1, <1>4, <2>2
<1> QED  BY <1>1, <1>2, <1>3, <1>5

(* ReadForSearch                                                           *)
LEMMA SearchReads ==
  ASSUME WorkTypeOK, SearchInv, ReadForSearch
  PROVE  SearchInv'
<1> DEFINE f == Head(reading.todo)
           t == IF Readable(f) THEN disk[f] ELSE <<>>
           hits == IF Readable(f) THEN ScanFile(reading.hits, f, reading.words) ELSE reading.hits
<1>1. SearchKept(reading) /\ reading.todo # <<>>  BY DEF SearchInv, ReadForSearch
<1>2. f \in File /\ \A h \in FoundIn(reading.of, reading.words) : h.file # f  BY <1>1, NotYetListed
<1>3. disk[f] \in Seq(Symbol)  BY <1>2 DEF WorkTypeOK
<1>4. Listed(reading.hits, FoundIn(reading.of, reading.words))  BY <1>1 DEF SearchKept
<1>5. reading' = [reading EXCEPT !.todo = Tail(@), !.hits = hits, !.of = Append(@, t)]
  BY DEF ReadForSearch
<1>6. CASE ~Readable(f)
  <2>1. t = <<>> /\ hits = reading.hits /\ t \in Seq(Symbol)  BY <1>6
  <2> HIDE DEF t, hits, f
  <2>2. SearchKept([reading EXCEPT !.todo = Tail(@), !.hits = hits, !.of = Append(@, t)])
    BY <1>1, <2>1, SearchGoesOn
  <2> QED  BY <1>5, <2>2 DEF SearchInv
<1>7. CASE Readable(f)
  <2>1. t = disk[f] /\ hits = ScanFile(reading.hits, f, reading.words)  BY <1>7
  <2> HIDE DEF t, hits, f
  <2>2. Listed(hits, FoundIn(reading.of, reading.words) \cup HitsScanned(f, t, reading.words))
    BY <1>2, <1>3, <1>4, <2>1, ScanLists
  <2>3. Listed(hits, FoundIn(reading.of, reading.words) \cup HitsScanned(Head(reading.todo), t, reading.words))
    BY <2>2 DEF f
  <2>4. t \in Seq(Symbol)  BY <1>3, <2>1
  <2>5. SearchKept([reading EXCEPT !.todo = Tail(@), !.hits = hits, !.of = Append(@, t)])
    BY <1>1, <2>3, <2>4, SearchGoesOn
  <2> QED  BY <1>5, <2>5 DEF SearchInv
<1> QED  BY <1>6, <1>7

(* No request but the search itself changes what it has listed.            *)
LEMMA SearchInvStep ==
  WorkTypeOK /\ SearchInv /\ [ReadsNext]_readsVars => SearchInv'
<1> SUFFICES ASSUME WorkTypeOK, SearchInv, [ReadsNext]_readsVars  PROVE SearchInv'
  OBVIOUS
<1>1. CASE UNCHANGED reading
  <2>1. SearchInv' <=> SearchInv  BY <1>1 DEF SearchInv
  <2> QED  BY <2>1
<1>2. CASE ReadForContext
  <2>1. reading.kind = "context"  BY <1>2 DEF ReadForContext
  <2>2. reading'.kind # "search"
    <3> DEFINE found == IF Readable(Head(reading.todo)) /\ Candidate(Head(reading.todo)).score > 0
                        THEN Append(reading.found, Candidate(Head(reading.todo))) ELSE reading.found
               files == IF Tail(reading.todo) = <<>> THEN Best(found, reading.query) ELSE <<>>
    <3>1. reading' = [reading EXCEPT !.todo = Tail(@), !.found = found, !.files = files]
      BY <1>2 DEF ReadForContext
    <3> HIDE DEF found, files
    <3>2. reading'.kind = reading.kind  BY <3>1
    <3> QED  BY <2>1, <3>2
  <2> QED  BY <2>2 DEF SearchInv
<1>3. CASE ReadForSearch  BY <1>3, SearchReads
<1>4. ASSUME NEW query \in Queries, BeginContext(query)  PROVE SearchInv'
  BY <1>4 DEF BeginContext, SearchInv
<1>5. ASSUME NEW query \in Queries, BeginSearch(query.words)  PROVE SearchInv'
  <2>1. query.words \in Seq(Symbol)  BY ReadsAssumption
  <2>2. SearchKept(reading')  BY <1>5, <2>1, SearchBegins DEF BeginSearch
  <2> QED  BY <2>2 DEF SearchInv
<1>6. ASSUME NEW f \in File, ReadFile(f)  PROVE SearchInv'
  BY <1>6 DEF ReadFile, SearchInv
<1>7. ASSUME NEW path \in Entries, Tree(path)  PROVE SearchInv'
  BY <1>7 DEF Tree, SearchInv
<1>8. UNCHANGED readsVars => UNCHANGED reading  BY DEF readsVars
<1> QED  BY <1>1, <1>2, <1>3, <1>4, <1>5, <1>6, <1>7, <1>8 DEF ReadsNext

(* Nothing is left after the last.                                         *)
LEMMA NoRest ==
  ASSUME NEW S, NEW s \in Seq(S), NEW k \in Nat, k <= Len(s), SubSeq(s, k + 1, Len(s)) = <<>>
  PROVE  k = Len(s)
<1> DEFINE n == Len(s)
<1>0. n \in Nat /\ \A i \in 1 .. n : s[i] \in S  OBVIOUS
<1>1. Len(SubSeq(s, k + 1, n)) = 0 /\ k <= n  OBVIOUS
<1> HIDE DEF n
<1>2. k + 1 \in Int /\ n \in Int /\ \A i \in (k + 1) .. n : s[i] \in S  BY <1>0
<1>3. Len(SubSeq(s, k + 1, n)) = IF k + 1 <= n THEN n - (k + 1) + 1 ELSE 0
  BY <1>2, SubSeqProperties
<1>4. k = n  BY <1>0, <1>1, <1>3
<1> QED  BY <1>4 DEF n

(* What a search that is over tells.                                       *)
LEMMA SearchTells == SearchInv => SearchWhole
<1> SUFFICES ASSUME SearchInv, Complete("search")  PROVE SearchWhole
  BY DEF SearchWhole
<1> DEFINE all == UNION {HitsOf(PathOrder[i], reading.of[i], reading.words) : i \in DOMAIN PathOrder}
           scanned == FoundIn(reading.of, reading.words)
           hits == reading.hits
           k == Len(reading.of)
<1>1. reading.todo = <<>> /\ SearchKept(reading)  BY DEF SearchInv, Complete
<1>2. /\ k \in Nat /\ k <= Len(PathOrder) /\ PathOrder \in Seq(File)
      /\ SubSeq(PathOrder, k + 1, Len(PathOrder)) = <<>>
  BY <1>1, ReadsAssumption DEF SearchKept, Searching
<1>3. k = Len(PathOrder)
  <2> HIDE DEF k
  <2> QED  BY <1>2, NoRest
<1>4. DOMAIN PathOrder = 1 .. k  BY <1>2, <1>3
<1>5. \A i \in 1 .. k : reading.of[i] \in Seq(Symbol)  BY <1>1 DEF SearchKept, Searching
<1>6. scanned \subseteq all  BY <1>4, <1>5, HitsMissed DEF FoundIn
<1>7. ASSUME NEW h \in all, h \notin scanned  PROVE Unscanned(h)
  <2>1. PICK i \in 1 .. k : h \in HitsOf(PathOrder[i], reading.of[i], reading.words)  BY <1>4, <1>7
  <2>2. h \notin HitsScanned(PathOrder[i], reading.of[i], reading.words)  BY <1>7, <2>1 DEF FoundIn
  <2>3. h.file = PathOrder[i] /\ \E j \in DOMAIN LineSeq(reading.of[i]) :
          j <= h.line /\ Len(LineSeq(reading.of[i])[j]) > MaxScan
    BY <1>5, <2>1, <2>2, HitsMissed
  <2> QED  BY <1>4, <2>3 DEF Unscanned
<1>8. Listed(hits, scanned)  BY <1>1 DEF SearchKept
<1> HIDE DEF all, scanned, hits
<1>9. /\ Range(hits) \subseteq scanned /\ Len(hits) <= MaxSearchHits
      /\ \A i, j \in DOMAIN hits : hits[i] = hits[j] => i = j
      /\ Len(hits) < MaxSearchHits => scanned \subseteq Range(hits)
  BY <1>8, ListTells
<1>10. Len(hits) < MaxSearchHits => \A h \in all \ Range(hits) : Unscanned(h)  BY <1>7, <1>9
<1>11. Range(hits) \subseteq all  BY <1>6, <1>9
<1> QED  BY <1>9, <1>10, <1>11 DEF SearchWhole, all, hits

-------------------------------------------------------------------------------
(* Line numbers: which line a place of a text is in.                       *)

(* The newlines up to one more place.                                      *)
LEMMA OneMoreNewline ==
  ASSUME NEW text, NEW n \in Nat
  PROVE  /\ IsFiniteSet(NewlinesIn(text, 1, n)) /\ Cardinality(NewlinesIn(text, 1, n)) \in Nat
         /\ Cardinality(NewlinesIn(text, 1, n + 1))
              = Cardinality(NewlinesIn(text, 1, n)) + (IF text[n + 1] = NL THEN 1 ELSE 0)
<1> DEFINE old == NewlinesIn(text, 1, n)
           new == NewlinesIn(text, 1, n + 1)
<1>1. old \subseteq 1 .. n  BY DEF NewlinesIn
<1>2. IsFiniteSet(1 .. n)  BY FS_Interval
<1>3. IsFiniteSet(old) /\ Cardinality(old) \in Nat
  <2> HIDE DEF old
  <2>1. IsFiniteSet(old)  BY <1>1, <1>2, FS_Subset
  <2> QED  BY <2>1, FS_CardinalityType
<1>4. \A p \in 1 .. (n + 1) : p \in 1 .. n \/ p = n + 1  OBVIOUS
<1>5. (\A p \in 1 .. n : p \in 1 .. (n + 1)) /\ n + 1 \in 1 .. (n + 1) /\ n + 1 \notin 1 .. n  OBVIOUS
<1>6. CASE text[n + 1] = NL
  <2>1. new = old \cup {n + 1}  BY <1>4, <1>5, <1>6 DEF NewlinesIn
  <2>2. n + 1 \notin old  BY <1>1, <1>5
  <2> HIDE DEF new, old
  <2>3. Cardinality(new) = Cardinality(old) + 1  BY <1>3, <2>1, <2>2, FS_AddElement
  <2> QED  BY <1>3, <1>6, <2>3 DEF new, old
<1>7. CASE text[n + 1] # NL
  <2>1. new = old  BY <1>4, <1>5, <1>7 DEF NewlinesIn
  <2> HIDE DEF new, old
  <2> QED  BY <1>3, <1>7, <2>1 DEF new, old
<1> QED  BY <1>6, <1>7

(* No line ends before the first symbol.                                   *)
LEMMA NoNewlines ==
  ASSUME NEW text
  PROVE  Cardinality(NewlinesIn(text, 1, 0)) = 0
<1>1. NewlinesIn(text, 1, 0) = {}
  <2>1. 1 .. 0 = {}  OBVIOUS
  <2> QED  BY <2>1 DEF NewlinesIn
<1> QED  BY <1>1, FS_EmptySet

(* Line l of a text is the one that place p is in.                         *)
InLine(starts, p, l) ==
  /\ l \in 1 .. Len(starts) /\ starts[l] <= p
  /\ l < Len(starts) => p < starts[l + 1]

(* Every place is in the line that LineAt numbers.                         *)
LEMMA LineOf ==
  ASSUME NEW text \in Seq(Symbol), NEW q \in 1 .. Len(text)
  PROVE  InLine(LineStarts(text), q, LineAt(text, q))
<1> DEFINE u == LineStarts(text)
           n == Len(text)
           S == {k \in Nat : k + 1 <= n => InLine(u, k + 1, LineAt(text, k + 1))}
<1>0. n \in Nat /\ text # <<>>  OBVIOUS
<1>1. /\ u \in Seq(Nat) /\ Increasing(u) /\ Len(u) \in Nat \ {0} /\ u[1] = 1
      /\ \A i \in 1 .. Len(u) : u[i] \in 1 .. n /\ StartsAt(text, u[i])
  BY <1>0, LinesOf
<1>2. \A p \in Nat : (\E i \in 1 .. Len(u) : u[i] = p) <=> StartsAt(text, p)  BY <1>0, StartsFound DEF Lists
<1> HIDE DEF u, n
<1>3. 0 \in S
  <2>1. LineAt(text, 0 + 1) = 1
    <3>1. (0 + 1) - 1 = 0  OBVIOUS
    <3> QED  BY <3>1, NoNewlines DEF LineAt
  <2>2. 1 \in 1 .. Len(u) /\ u[1] <= 1  BY <1>1
  <2>3. 1 < Len(u) => 1 < u[1 + 1]
    <3> SUFFICES ASSUME 1 < Len(u)  PROVE 1 < u[2]  OBVIOUS
    <3>1. 1 \in 1 .. Len(u) /\ 2 \in 1 .. Len(u)  BY <1>1
    <3>2. u[1] < u[2]  BY <1>1, <3>1 DEF Increasing
    <3> QED  BY <1>1, <3>2
  <2>4. InLine(u, 1, 1)  BY <2>2, <2>3 DEF InLine
  <2>5. 0 + 1 = 1  OBVIOUS
  <2>6. InLine(u, 0 + 1, LineAt(text, 0 + 1))  BY <2>1, <2>4, <2>5
  <2> QED  BY <2>6
<1>4. ASSUME NEW k \in Nat, k \in S  PROVE k + 1 \in S
  <2> SUFFICES ASSUME (k + 1) + 1 <= n  PROVE InLine(u, (k + 1) + 1, LineAt(text, (k + 1) + 1))
    OBVIOUS
  <2> DEFINE p == k + 1
             l == LineAt(text, p)
             m == LineAt(text, p + 1)
  <2>1. p \in Nat /\ p + 1 <= n /\ p <= n /\ 1 <= p  BY <1>0
  <2>2. InLine(u, p, l)  BY <1>4, <2>1
  <2>3. m = l + (IF text[p] = NL THEN 1 ELSE 0)
    <3>1. (p + 1) - 1 = k + 1 /\ p - 1 = k  OBVIOUS
    <3>2. /\ Cardinality(NewlinesIn(text, 1, k)) \in Nat
          /\ Cardinality(NewlinesIn(text, 1, k + 1))
               = Cardinality(NewlinesIn(text, 1, k)) + (IF text[k + 1] = NL THEN 1 ELSE 0)
      BY OneMoreNewline
    <3>3. l = Cardinality(NewlinesIn(text, 1, k)) + 1  BY <3>1 DEF LineAt
    <3>4. m = Cardinality(NewlinesIn(text, 1, k + 1)) + 1  BY <3>1 DEF LineAt
    <3> HIDE DEF l, m
    <3> QED  BY <3>2, <3>3, <3>4
  <2> HIDE DEF l, m
  <2>4. l \in 1 .. Len(u) /\ u[l] <= p /\ (l < Len(u) => p < u[l + 1])  BY <2>2 DEF InLine
  <2>5. \A i \in 1 .. Len(u) : u[i] \in Nat  BY <1>1
  <2>6. StartsAt(text, p + 1) <=> text[p] = NL
    <3>1. p + 1 \in 2 .. n /\ (p + 1) - 1 = p /\ p + 1 # 1  BY <1>0, <2>1
    <3> HIDE DEF p
    <3> QED  BY <3>1 DEF StartsAt, n
  <2>7. p + 1 \in Nat  BY <2>1
  <2> HIDE DEF p
  <2>8. CASE text[p] = NL
    <3>1. m = l + 1  BY <2>3, <2>8
    <3>2. PICK j \in 1 .. Len(u) : u[j] = p + 1  BY <1>2, <2>6, <2>7, <2>8
    <3>3. l < j
      <4> SUFFICES ASSUME ~(l < j)  PROVE FALSE  OBVIOUS
      <4>1. j = l \/ j < l  BY <1>1, <2>4, <3>2
      <4>2. u[j] <= u[l]  BY <1>1, <2>4, <2>5, <4>1 DEF Increasing
      <4> QED  BY <2>1, <2>4, <2>5, <3>2, <4>2
    <3>4. l + 1 \in 1 .. Len(u) /\ l < Len(u)  BY <1>1, <2>4, <3>3
    <3>5. p < u[l + 1]  BY <2>4, <3>4
    <3>6. j = l + 1
      <4> SUFFICES ASSUME j # l + 1  PROVE FALSE  OBVIOUS
      <4>1. l + 1 < j  BY <2>4, <3>3
      <4>2. u[l + 1] < u[j]  BY <1>1, <3>4, <4>1 DEF Increasing
      <4> QED  BY <2>1, <2>5, <3>2, <3>4, <3>5, <4>2
    <3>7. m < Len(u) => p + 1 < u[m + 1]
      <4> SUFFICES ASSUME m < Len(u)  PROVE p + 1 < u[m + 1]  OBVIOUS
      <4>1. m + 1 \in 1 .. Len(u) /\ m < m + 1  BY <1>1, <3>1, <3>4
      <4>2. u[m] < u[m + 1]  BY <1>1, <3>1, <3>4, <4>1 DEF Increasing
      <4> QED  BY <3>1, <3>2, <3>6, <4>2
    <3>8. m \in 1 .. Len(u) /\ u[m] <= p + 1  BY <2>7, <3>1, <3>2, <3>4, <3>6
    <3>9. InLine(u, p + 1, m)  BY <3>7, <3>8 DEF InLine
    <3> QED  BY <3>9 DEF m, p
  <2>9. CASE text[p] # NL
    <3>1. m = l  BY <2>3, <2>4, <2>9
    <3>2. m < Len(u) => p + 1 < u[m + 1]
      <4> SUFFICES ASSUME m < Len(u)  PROVE p + 1 < u[m + 1]  OBVIOUS
      <4>1. l + 1 \in 1 .. Len(u) /\ p < u[l + 1]  BY <1>1, <2>4, <3>1
      <4>2. u[l + 1] # p + 1  BY <1>2, <2>6, <2>7, <2>9, <4>1
      <4> QED  BY <2>1, <2>5, <3>1, <4>1, <4>2
    <3>3. m \in 1 .. Len(u) /\ u[m] <= p + 1  BY <2>1, <2>4, <2>5, <3>1
    <3>9. InLine(u, p + 1, m)  BY <3>2, <3>3 DEF InLine
    <3> QED  BY <3>9 DEF m, p
  <2> QED  BY <2>8, <2>9
<1>5. Nat \subseteq S
  <2> HIDE DEF S
  <2> QED  BY <1>3, <1>4, NatInd
<1>6. q - 1 \in Nat /\ (q - 1) + 1 = q /\ q <= n  BY <1>0 DEF n
<1>7. q - 1 \in S
  <2> HIDE DEF S
  <2> QED  BY <1>5, <1>6
<1>8. InLine(u, (q - 1) + 1, LineAt(text, (q - 1) + 1))  BY <1>6, <1>7
<1> QED  BY <1>6, <1>8 DEF u

(* textLineCount counts the lines.                                         *)
LEMMA LinesCounted ==
  ASSUME NEW text \in Seq(Symbol)
  PROVE  LineCount(text) = Len(LineSeq(text))
<1>1. CASE text = <<>>
  <2>1. LineCount(<<>>) = 0
    <3>1. Len(<<>>) = 0  OBVIOUS
    <3>2. LineCount(<<>>) = 0 + 0  BY <3>1, NoNewlines DEF LineCount
    <3> QED  BY <3>2
  <2>2. Len(LineSeq(<<>>)) = 0  BY NoLines
  <2> QED  BY <1>1, <2>1, <2>2
<1>2. CASE text # <<>>
  <2> DEFINE u == LineStarts(text)
             n == Len(text)
             l == LineAt(text, n)
             before == Cardinality(NewlinesIn(text, 1, n - 1))
  <2>1. n \in Nat /\ n \in 1 .. n /\ n - 1 \in Nat /\ (n - 1) + 1 = n  BY <1>2
  <2>2. Len(LineSeq(text)) = Len(u) /\ Len(u) \in Nat /\ \A i \in 1 .. Len(u) : u[i] \in 1 .. n
    BY <1>2, LinesOf
  <2>3. InLine(u, n, l)  BY <2>1, LineOf
  <2>4. /\ before \in Nat
        /\ Cardinality(NewlinesIn(text, 1, n)) = before + (IF text[n] = NL THEN 1 ELSE 0)
    <3> HIDE DEF n
    <3>1. /\ Cardinality(NewlinesIn(text, 1, n - 1)) \in Nat
          /\ Cardinality(NewlinesIn(text, 1, (n - 1) + 1))
               = Cardinality(NewlinesIn(text, 1, n - 1)) + (IF text[(n - 1) + 1] = NL THEN 1 ELSE 0)
      BY <2>1, OneMoreNewline
    <3> QED  BY <2>1, <3>1
  <2>5. l = before + 1  BY DEF LineAt
  <2>6. Ends(text) <=> text[n] = NL  BY <1>2 DEF Ends, Last
  <2>7. LineCount(text) = Cardinality(NewlinesIn(text, 1, n)) + (IF Ends(text) THEN 0 ELSE 1)
    BY <1>2 DEF LineCount
  <2> HIDE DEF u, n, l, before
  <2>8. LineCount(text) = before + 1
    <3>1. CASE text[n] = NL
      <4>1. LineCount(text) = (before + 1) + 0  BY <2>4, <2>6, <2>7, <3>1
      <4> QED  BY <2>4, <4>1
    <3>2. CASE text[n] # NL
      <4>1. LineCount(text) = (before + 0) + 1  BY <2>4, <2>6, <2>7, <3>2
      <4> QED  BY <2>4, <4>1
    <3> QED  BY <3>1, <3>2
  <2>9. l = Len(u)
    <3> SUFFICES ASSUME l # Len(u)  PROVE FALSE  OBVIOUS
    <3>1. l \in 1 .. Len(u) /\ (l < Len(u) => n < u[l + 1])  BY <2>3 DEF InLine
    <3>2. l < Len(u) /\ l + 1 \in 1 .. Len(u)  BY <2>2, <3>1
    <3>3. u[l + 1] \in 1 .. n  BY <2>2, <3>2
    <3> QED  BY <2>1, <3>1, <3>2, <3>3
  <2> QED  BY <2>2, <2>5, <2>8, <2>9
<1> QED  BY <1>1, <1>2

(* A slice of a text, as a text.                                           *)
LEMMA SliceOf ==
  ASSUME NEW text \in Seq(Symbol), NEW p \in 1 .. Len(text), NEW q \in p .. Len(text)
  PROVE  /\ SubSeq(text, p, q) \in Seq(Symbol) /\ Len(SubSeq(text, p, q)) = q - p + 1
         /\ SubSeq(text, p, q) # <<>>
         /\ \A i \in 1 .. (q - p + 1) : SubSeq(text, p, q)[i] = text[p + i - 1]
<1> DEFINE c == SubSeq(text, p, q)
           n == Len(text)
<1>1. n \in Nat /\ \A i \in 1 .. n : text[i] \in Symbol  OBVIOUS
<1> HIDE DEF n
<1>2. p \in Int /\ q \in Int /\ p <= q /\ \A i \in p .. q : text[i] \in Symbol  BY <1>1 DEF n
<1>3. /\ c \in Seq(Symbol) /\ Len(c) = IF p <= q THEN q - p + 1 ELSE 0
      /\ \A i \in 1 .. (q - p + 1) : c[i] = text[p + i - 1]
  BY <1>2, SubSeqProperties
<1>4. Len(c) = q - p + 1 /\ Len(c) # 0  BY <1>2, <1>3
<1> HIDE DEF c
<1>5. c # <<>>  BY <1>4
<1> QED  BY <1>3, <1>4, <1>5 DEF c

(* Its lines start where those of the text do, but for the first.          *)
SliceStarts(t, u, p, l, m) ==
  /\ l \in 1 .. Len(u) /\ m \in l .. Len(u) /\ Len(t) = m - l + 1 /\ t[1] = 1
  /\ \A i \in 2 .. Len(t) : t[i] = u[l + i - 1] - p + 1

(* The lines of a slice begin at its start, and after each of its          *)
(* newlines.                                                               *)
LEMMA SliceHasStarts ==
  ASSUME NEW text \in Seq(Symbol), NEW p \in 1 .. Len(text), NEW q \in p .. Len(text)
  PROVE  SliceStarts(LineStarts(SubSeq(text, p, q)), LineStarts(text), p, LineAt(text, p), LineAt(text, q))
<1> DEFINE u == LineStarts(text)
           n == Len(text)
           c == SubSeq(text, p, q)
           l == LineAt(text, p)
           m == LineAt(text, q)
           v == [i \in 1 .. (m - l + 1) |-> IF i = 1 THEN 1 ELSE u[l + i - 1] - p + 1]
<1>0. n \in Nat /\ text # <<>> /\ p \in Nat /\ q \in Nat /\ 1 <= p /\ p <= q /\ q <= n  OBVIOUS
<1>1. /\ u \in Seq(Nat) /\ Increasing(u) /\ Len(u) \in Nat \ {0} /\ u[1] = 1
      /\ \A i \in 1 .. Len(u) : u[i] \in 1 .. n /\ StartsAt(text, u[i])
  BY <1>0, LinesOf
<1>2. \A x \in Nat : (\E i \in 1 .. Len(u) : u[i] = x) <=> StartsAt(text, x)  BY <1>0, StartsFound DEF Lists
<1>3. InLine(u, p, l) /\ InLine(u, q, m)
  <2>1. p \in 1 .. Len(text) /\ q \in 1 .. Len(text)  BY <1>0 DEF n
  <2> QED  BY <2>1, LineOf
<1>4. /\ c \in Seq(Symbol) /\ Len(c) = q - p + 1 /\ c # <<>>
      /\ \A i \in 1 .. (q - p + 1) : c[i] = text[p + i - 1]
  BY SliceOf
<1> HIDE DEF u, n, c, l, m
<1>5. /\ l \in 1 .. Len(u) /\ u[l] <= p /\ (l < Len(u) => p < u[l + 1])
      /\ m \in 1 .. Len(u) /\ u[m] <= q /\ (m < Len(u) => q < u[m + 1])
  BY <1>3 DEF InLine
<1>6. \A i \in 1 .. Len(u) : u[i] \in Nat  BY <1>1
<1>a. \A i, j \in 1 .. Len(u) : i <= j => u[i] <= u[j]
  <2> SUFFICES ASSUME NEW i \in 1 .. Len(u), NEW j \in 1 .. Len(u), i <= j  PROVE u[i] <= u[j]
    OBVIOUS
  <2>1. CASE i = j  BY <1>6, <2>1
  <2>2. CASE i # j
    <3>1. i < j  BY <1>1, <2>2
    <3>2. u[i] < u[j]  BY <1>1, <3>1 DEF Increasing
    <3> QED  BY <1>6, <3>2
  <2> QED  BY <2>1, <2>2
<1>7. l <= m
  <2> SUFFICES ASSUME ~(l <= m)  PROVE FALSE  OBVIOUS
  <2>1. m < Len(u) /\ m + 1 <= l /\ m + 1 \in 1 .. Len(u)  BY <1>1, <1>5
  <2>2. q < u[m + 1] /\ u[m + 1] <= u[l]  BY <1>5, <1>a, <2>1
  <2> QED  BY <1>0, <1>5, <1>6, <2>1, <2>2
<1>8. \A i \in 2 .. (m - l + 1) : l + i - 1 \in 1 .. Len(u) /\ l + i - 1 \in (l + 1) .. m  BY <1>1, <1>5, <1>7
<1>9. \A j \in (l + 1) .. m : j \in 1 .. Len(u) /\ p < u[j] /\ u[j] <= q
  <2> SUFFICES ASSUME NEW j \in (l + 1) .. m  PROVE j \in 1 .. Len(u) /\ p < u[j] /\ u[j] <= q
    OBVIOUS
  <2>1. j \in 1 .. Len(u) /\ l < Len(u) /\ l + 1 \in 1 .. Len(u) /\ l + 1 <= j /\ j <= m  BY <1>1, <1>5
  <2>2. p < u[l + 1] /\ u[l + 1] <= u[j] /\ u[j] <= u[m]  BY <1>5, <1>a, <2>1
  <2>3. u[j] \in Nat /\ u[m] \in Nat /\ u[l + 1] \in Nat  BY <1>5, <1>6, <2>1
  <2> QED  BY <1>0, <1>5, <2>1, <2>2, <2>3
<1>10. v \in Seq(Nat) /\ Len(v) = m - l + 1 /\ v[1] = 1
       /\ \A i \in 2 .. (m - l + 1) : v[i] = u[l + i - 1] - p + 1 /\ v[i] > 1
  <2>1. ASSUME NEW i \in 1 .. (m - l + 1)
        PROVE  (IF i = 1 THEN 1 ELSE u[l + i - 1] - p + 1) \in Nat
    <3>1. CASE i = 1  BY <3>1
    <3>2. CASE i # 1
      <4>1. i \in 2 .. (m - l + 1)  BY <3>2
      <4>2. l + i - 1 \in 1 .. Len(u) /\ l + i - 1 \in (l + 1) .. m  BY <1>8, <4>1
      <4>3. p < u[l + i - 1] /\ u[l + i - 1] \in Nat  BY <1>6, <1>9, <4>2
      <4> QED  BY <1>0, <3>2, <4>3
    <3> QED  BY <3>1, <3>2
  <2>2. m - l + 1 \in Nat /\ m - l + 1 >= 1  BY <1>1, <1>5, <1>7
  <2>3. v \in [1 .. (m - l + 1) -> Nat]  BY <2>1
  <2>4. v[1] = 1
    <3>1. 1 \in 1 .. (m - l + 1)  BY <2>2
    <3> QED  BY <3>1
  <2>5. ASSUME NEW i \in 2 .. (m - l + 1)  PROVE v[i] = u[l + i - 1] - p + 1 /\ v[i] > 1
    <3>1. l + i - 1 \in 1 .. Len(u) /\ l + i - 1 \in (l + 1) .. m  BY <1>8
    <3>2. p < u[l + i - 1] /\ u[l + i - 1] \in Nat  BY <1>6, <1>9, <3>1
    <3>3. u[l + i - 1] - p + 1 > 1  BY <1>0, <3>2
    <3>4. i \in 1 .. (m - l + 1) /\ i # 1  BY <2>2
    <3>5. v[i] = u[l + i - 1] - p + 1  BY <3>4
    <3> QED  BY <3>3, <3>5
  <2> HIDE DEF v
  <2>6. v \in Seq(Nat) /\ Len(v) = m - l + 1  BY <2>2, <2>3
  <2> QED  BY <2>4, <2>5, <2>6
<1> HIDE DEF v
<1>11. Increasing(v)
  <2> SUFFICES ASSUME NEW i \in 1 .. Len(v), NEW j \in 1 .. Len(v), i < j  PROVE v[i] < v[j]
    BY DEF Increasing
  <2>0. j \in 2 .. (m - l + 1) /\ Len(v) = m - l + 1 /\ i < j /\ i \in 1 .. (m - l + 1)  BY <1>5, <1>10
  <2>1. CASE i = 1  BY <1>10, <2>0, <2>1
  <2>2. CASE i # 1
    <3>1. i \in 2 .. (m - l + 1)  BY <2>0, <2>2
    <3>2. v[i] = u[l + i - 1] - p + 1 /\ v[j] = u[l + j - 1] - p + 1  BY <1>10, <2>0, <3>1
    <3>3. l + i - 1 < l + j - 1  BY <1>5, <2>0, <3>1
    <3>4. l + i - 1 \in 1 .. Len(u) /\ l + j - 1 \in 1 .. Len(u)  BY <1>8, <2>0, <3>1
    <3>5. u[l + i - 1] < u[l + j - 1]  BY <1>1, <3>3, <3>4 DEF Increasing
    <3>6. u[l + i - 1] \in Nat /\ u[l + j - 1] \in Nat  BY <1>6, <3>4
    <3> QED  BY <1>0, <3>2, <3>5, <3>6
  <2> QED  BY <2>1, <2>2
<1>12. ASSUME NEW x \in Nat  PROVE (\E i \in 1 .. Len(v) : v[i] = x) <=> StartsAt(c, x)
  <2>0. m - l + 1 \in Nat /\ m - l + 1 >= 1  BY <1>1, <1>5, <1>7
  <2>1. CASE x = 1
    <3>1. 1 \in 1 .. Len(v) /\ v[1] = x  BY <1>10, <2>0, <2>1
    <3> QED  BY <2>1, <3>1 DEF StartsAt
  <2>2. CASE x = 0
    <3>1. ~StartsAt(c, x)  BY <1>4, <2>2 DEF StartsAt
    <3>2. ASSUME NEW i \in 1 .. Len(v), v[i] = x  PROVE FALSE
      <4>1. i = 1 \/ i \in 2 .. (m - l + 1)  BY <1>10, <2>0
      <4> QED  BY <1>10, <2>2, <3>2, <4>1
    <3> QED  BY <3>1, <3>2
  <2>3. CASE x > 1
    <3> DEFINE y == p + x - 1
    <3>1. y \in Nat /\ y > p /\ y - 1 \in Nat /\ y # 1 /\ x - 1 \in Nat  BY <1>0, <2>3
    <3>2. StartsAt(c, x) <=> y <= q /\ StartsAt(text, y)
      <4>1. x \in 2 .. Len(c) <=> y <= q  BY <1>0, <1>4, <2>3
      <4>2. y <= q => y \in 2 .. n  BY <1>0, <3>1
      <4>3. y <= q => c[x - 1] = text[y - 1]
        <5> SUFFICES ASSUME y <= q  PROVE c[x - 1] = text[y - 1]  OBVIOUS
        <5>1. x - 1 \in 1 .. (q - p + 1) /\ p + (x - 1) - 1 = y - 1  BY <1>0, <2>3
        <5> QED  BY <1>4, <5>1
      <4>4. x # 1  BY <2>3
      <4> HIDE DEF y
      <4> QED  BY <3>1, <4>1, <4>2, <4>3, <4>4 DEF StartsAt, n
    <3>3. (y <= q /\ StartsAt(text, y)) <=> \E j \in (l + 1) .. m : u[j] = y
      <4> HIDE DEF y
      <4>1. ASSUME NEW j \in (l + 1) .. m, u[j] = y  PROVE y <= q /\ StartsAt(text, y)
        BY <1>1, <1>9, <4>1
      <4>2. ASSUME y <= q, StartsAt(text, y)  PROVE \E j \in (l + 1) .. m : u[j] = y
        <5>1. PICK j \in 1 .. Len(u) : u[j] = y  BY <1>2, <3>1, <4>2
        <5>2. l < j
          <6> SUFFICES ASSUME j <= l  PROVE FALSE  BY <1>5, <5>1
          <6>1. u[j] <= u[l]  BY <1>5, <1>a
          <6>2. u[l] \in Nat  BY <1>5, <1>6
          <6> QED  BY <1>0, <1>5, <3>1, <5>1, <6>1, <6>2
        <5>3. j <= m
          <6> SUFFICES ASSUME m < j  PROVE FALSE  BY <1>5, <5>1
          <6>1. m + 1 \in 1 .. Len(u) /\ m < Len(u) /\ m + 1 <= j  BY <1>1, <1>5
          <6>2. q < u[m + 1] /\ u[m + 1] <= u[j]  BY <1>5, <1>a, <6>1
          <6>3. u[m + 1] \in Nat  BY <1>6, <6>1
          <6> QED  BY <1>0, <3>1, <4>2, <5>1, <6>2, <6>3
        <5>4. j \in (l + 1) .. m  BY <1>5, <5>2, <5>3
        <5> QED  BY <5>1, <5>4
      <4> QED  BY <4>1, <4>2
    <3>4. (\E j \in (l + 1) .. m : u[j] = y) <=> \E i \in 1 .. Len(v) : v[i] = x
      <4>1. ASSUME NEW j \in (l + 1) .. m, u[j] = y  PROVE \E i \in 1 .. Len(v) : v[i] = x
        <5>1. j - l + 1 \in 2 .. (m - l + 1) /\ l + (j - l + 1) - 1 = j  BY <1>5
        <5>2. v[j - l + 1] = u[j] - p + 1  BY <1>10, <5>1
        <5>3. (p + x - 1) - p + 1 = x  BY <1>0
        <5>4. j - l + 1 \in 1 .. Len(v)  BY <1>10, <5>1
        <5>5. v[j - l + 1] = x  BY <4>1, <5>2, <5>3
        <5> QED  BY <5>4, <5>5
      <4>2. ASSUME NEW i \in 1 .. Len(v), v[i] = x  PROVE \E j \in (l + 1) .. m : u[j] = y
        <5>1. i \in 2 .. (m - l + 1)
          <6>1. i # 1  BY <1>10, <2>3, <4>2
          <6> QED  BY <1>10, <2>0, <6>1
        <5>2. v[i] = u[l + i - 1] - p + 1 /\ l + i - 1 \in (l + 1) .. m /\ l + i - 1 \in 1 .. Len(u)
          BY <1>8, <1>10, <5>1
        <5>3. u[l + i - 1] \in Nat  BY <1>6, <5>2
        <5>4. x = u[l + i - 1] - p + 1  BY <4>2, <5>2
        <5>5. u[l + i - 1] = y  BY <1>0, <5>3, <5>4
        <5> QED  BY <5>2, <5>5
      <4> QED  BY <4>1, <4>2
    <3> QED  BY <3>2, <3>3, <3>4
  <2> QED  BY <2>1, <2>2, <2>3
<1>13. v = LineStarts(c)
  <2>1. Lists(v, c)  BY <1>10, <1>11, <1>12 DEF Lists
  <2>2. Lists(LineStarts(c), c)  BY <1>4, StartsFound
  <2> QED  BY <2>1, <2>2, ListedOnce
<1>14. SliceStarts(v, u, p, l, m)
  <2>1. m \in l .. Len(u)  BY <1>5, <1>7
  <2> QED  BY <1>5, <1>10, <2>1 DEF SliceStarts
<1> QED  BY <1>13, <1>14 DEF u, c, l, m

(* A part of a text, which may be empty.                                   *)
LEMMA PartOf ==
  ASSUME NEW text \in Seq(Symbol), NEW a \in Nat \ {0}, NEW b \in Nat, a <= b + 1, b <= Len(text)
  PROVE  /\ SubSeq(text, a, b) \in Seq(Symbol) /\ Len(SubSeq(text, a, b)) = b - a + 1 /\ b - a + 1 \in Nat
         /\ \A i \in 1 .. (b - a + 1) : SubSeq(text, a, b)[i] = text[a + i - 1]
<1> DEFINE c == SubSeq(text, a, b)
           n == Len(text)
<1>1. n \in Nat /\ b <= n /\ \A i \in 1 .. n : text[i] \in Symbol  OBVIOUS
<1> HIDE DEF n
<1>2. a \in Int /\ b \in Int /\ \A i \in a .. b : text[i] \in Symbol  BY <1>1
<1>3. /\ c \in Seq(Symbol) /\ Len(c) = IF a <= b THEN b - a + 1 ELSE 0
      /\ \A i \in 1 .. (b - a + 1) : c[i] = text[a + i - 1]
  BY <1>2, SubSeqProperties
<1> HIDE DEF c
<1>4. b - a + 1 \in Nat /\ Len(c) = b - a + 1  BY <1>3
<1> QED  BY <1>3, <1>4 DEF c

(* Parts of parts.                                                         *)
LEMMA PartOfPart ==
  ASSUME NEW text \in Seq(Symbol), NEW a \in Nat \ {0}, NEW b \in Nat, a <= b + 1, b <= Len(text),
         NEW c \in Nat \ {0}, NEW d \in Nat, c <= d + 1, d <= b - a + 1
  PROVE  SubSeq(SubSeq(text, a, b), c, d) = SubSeq(text, a + c - 1, a + d - 1)
<1> DEFINE x == SubSeq(text, a, b)
<1>1. /\ x \in Seq(Symbol) /\ Len(x) = b - a + 1 /\ b - a + 1 \in Nat
      /\ \A i \in 1 .. (b - a + 1) : x[i] = text[a + i - 1]
  BY PartOf
<1> HIDE DEF x
<1>2. a + c - 1 \in Int /\ a + d - 1 \in Int /\ d - c = (a + d - 1) - (a + c - 1)  OBVIOUS
<1>3. \A i \in c .. d : x[i] \in Symbol /\ x[i] = text[i + ((a + c - 1) - c)]
  <2> SUFFICES ASSUME NEW i \in c .. d  PROVE x[i] \in Symbol /\ x[i] = text[i + ((a + c - 1) - c)]
    OBVIOUS
  <2>1. i \in 1 .. (b - a + 1) /\ i + ((a + c - 1) - c) = a + i - 1  BY <1>1
  <2>2. i \in 1 .. Len(x)  BY <1>1, <2>1
  <2> QED  BY <1>1, <2>1, <2>2
<1>4. SubSeq(x, c, d) = SubSeq(text, a + c - 1, a + d - 1)
  <2>1. c \in Int /\ d \in Int  OBVIOUS
  <2> QED  BY <1>2, <1>3, <2>1, SameSlice
<1> QED  BY <1>4 DEF x

(* The first place found up to some one, as the loop goes.                 *)
FirstFound(s, text, find, k) ==
  /\ s \in Seq(Nat)
  /\ s # <<>> => s[1] \in 1 .. k /\ FoundAt(text, find, s[1])
  /\ \A q \in 1 .. k : FoundAt(text, find, q) => s # <<>> /\ s[1] <= q

(* A number added to a sequence of numbers.                                *)
LEMMA PutLast ==
  ASSUME NEW s \in Seq(Nat), NEW e \in Nat
  PROVE  Append(s, e) \in Seq(Nat) /\ Append(s, e) # <<>>
BY AppendProperties

(* It is the first one where the part is.                                  *)
LEMMA FindsFirst ==
  ASSUME NEW text \in Seq(Symbol), NEW find \in Seq(Symbol)
  PROVE  FirstFound(Matches(text, find), text, find, Len(text))
<1>1. PICK g : SearchOf(g, text, find) /\ Matches(text, find) = g[Len(text)]  BY SearchHasRun
<1> DEFINE n == Len(text)
           S == {k \in Nat : k <= n => FirstFound(g[k], text, find, k)}
<1>0. n \in Nat  OBVIOUS
<1>2. \A k \in 1 .. n : g[k] = IF Offset(g[k - 1], find) <= k /\ FoundAt(text, find, k)
                               THEN Append(g[k - 1], k) ELSE g[k - 1]
  <2> SUFFICES ASSUME NEW k \in 1 .. n
               PROVE  g[k] = IF Offset(g[k - 1], find) <= k /\ FoundAt(text, find, k)
                             THEN Append(g[k - 1], k) ELSE g[k - 1]
    OBVIOUS
  <2>1. k \in 0 .. n /\ k # 0  BY <1>0
  <2> QED  BY <1>1, <2>1 DEF SearchOf
<1>3. g[0] = <<>>  BY <1>0, <1>1 DEF SearchOf
<1> HIDE DEF n
<1>4. 0 \in S
  <2>1. <<>> \in Seq(Nat) /\ 1 .. 0 = {}  OBVIOUS
  <2>2. FirstFound(<<>>, text, find, 0)  BY <2>1 DEF FirstFound
  <2> QED  BY <1>3, <2>2
<1>5. ASSUME NEW k \in Nat, k \in S  PROVE k + 1 \in S
  <2> DEFINE s == g[k]
             t == g[k + 1]
  <2> SUFFICES ASSUME k + 1 <= n  PROVE FirstFound(t, text, find, k + 1)
    OBVIOUS
  <2>1. k <= n /\ k + 1 \in 1 .. n /\ (k + 1) - 1 = k  BY <1>0
  <2>2. FirstFound(s, text, find, k)  BY <1>5, <2>1
  <2>3. t = IF Offset(s, find) <= k + 1 /\ FoundAt(text, find, k + 1) THEN Append(s, k + 1) ELSE s
    BY <1>2, <2>1
  <2> HIDE DEF s, t
  <2>4. /\ s \in Seq(Nat)
        /\ s # <<>> => s[1] \in 1 .. k /\ FoundAt(text, find, s[1])
        /\ \A q \in 1 .. k : FoundAt(text, find, q) => s # <<>> /\ s[1] <= q
    BY <2>2 DEF FirstFound
  <2>5. \A q \in 1 .. (k + 1) : q \in 1 .. k \/ q = k + 1  OBVIOUS
  <2>6. \A q \in 1 .. k : q \in 1 .. (k + 1) /\ q <= k + 1  OBVIOUS
  <2>7. Append(s, k + 1) \in Seq(Nat) /\ Append(s, k + 1) # <<>>
    <3>1. s \in Seq(Nat) /\ k + 1 \in Nat  BY <2>4
    <3> QED  BY <3>1, PutLast
  <2>8. CASE s # <<>>
    <3>1. Append(s, k + 1)[1] = s[1]
      <4>1. Len(s) \in Nat /\ Len(s) # 0  BY <2>4, <2>8
      <4>2. 1 \in 1 .. Len(s) /\ 1 # Len(s) + 1  BY <4>1
      <4>3. \A i \in 1 .. Len(s) : Append(s, k + 1)[i] = s[i]  BY <2>4, AppendProperties
      <4> QED  BY <4>2, <4>3
    <3>2. t \in Seq(Nat) /\ t # <<>> /\ t[1] = s[1]  BY <2>3, <2>4, <2>7, <2>8, <3>1
    <3>3. s[1] \in 1 .. k /\ FoundAt(text, find, s[1])  BY <2>4, <2>8
    <3>4. t[1] \in 1 .. (k + 1) /\ t[1] <= k + 1  BY <2>6, <3>2, <3>3
    <3>5. \A q \in 1 .. (k + 1) : FoundAt(text, find, q) => t[1] <= q  BY <2>4, <2>5, <3>2, <3>4
    <3> QED  BY <3>2, <3>3, <3>4, <3>5 DEF FirstFound
  <2>9. CASE s = <<>>
    <3>1. Offset(s, find) <= k + 1  BY <2>9 DEF Offset
    <3>2. \A q \in 1 .. k : ~FoundAt(text, find, q)  BY <2>4, <2>9
    <3>3. CASE FoundAt(text, find, k + 1)
      <4>1. t = <<k + 1>>  BY <2>3, <2>9, <3>1, <3>3
      <4>2. t \in Seq(Nat) /\ t # <<>> /\ t[1] = k + 1 /\ k + 1 \in 1 .. (k + 1) /\ k + 1 <= k + 1  BY <4>1
      <4>3. \A q \in 1 .. (k + 1) : FoundAt(text, find, q) => q = k + 1  BY <2>5, <3>2
      <4> QED  BY <3>3, <4>2, <4>3 DEF FirstFound
    <3>4. CASE ~FoundAt(text, find, k + 1)
      <4>1. t = s  BY <2>3, <3>4
      <4> QED  BY <2>4, <2>5, <2>9, <3>2, <3>4, <4>1 DEF FirstFound
    <3> QED  BY <3>3, <3>4
  <2> QED  BY <2>8, <2>9
<1>6. Nat \subseteq S
  <2> HIDE DEF S
  <2> QED  BY <1>4, <1>5, NatInd
<1>7. FirstFound(g[n], text, find, n)
  <2>1. n \in S
    <3> HIDE DEF S
    <3> QED  BY <1>0, <1>6
  <2> QED  BY <1>0, <2>1
<1> QED  BY <1>1, <1>7 DEF n

(* The first place where a part is found is one where it is.               *)
LEMMA FirstIsThere ==
  ASSUME NEW text \in Seq(Symbol), NEW find \in Seq(Symbol), Has(text, find)
  PROVE  /\ FoundAt(text, find, Matches(text, find)[1])
         /\ Matches(text, find)[1] \in Nat /\ Matches(text, find)[1] >= 1
<1> DEFINE first == Matches(text, find)[1]
           n == Len(text)
<1>1. first \in 1 .. n /\ FoundAt(text, find, first)  BY FindsFirst DEF FirstFound, Has
<1>2. n \in Nat  OBVIOUS
<1> HIDE DEF first, n
<1>3. first \in Nat /\ first >= 1  BY <1>1, <1>2
<1> QED  BY <1>1, <1>3 DEF first

(* A part is found where it is, or before that.                            *)
LEMMA FindsPart ==
  ASSUME NEW text \in Seq(Symbol), NEW find \in Seq(Symbol), NEW p \in 1 .. Len(text), FoundAt(text, find, p)
  PROVE  /\ Has(text, find) /\ Matches(text, find)[1] <= p
         /\ Matches(text, find)[1] \in Nat /\ Matches(text, find)[1] >= 1
<1>1. Has(text, find) /\ Matches(text, find)[1] <= p  BY FindsFirst DEF FirstFound, Has
<1> QED  BY <1>1, FirstIsThere

(* A part of a part of a text is in it.                                    *)
LEMMA PartHas ==
  ASSUME NEW text \in Seq(Symbol), NEW A \in Nat \ {0}, NEW B \in Nat, B <= Len(text),
         NEW a \in Nat, NEW b \in Nat, A <= a, a <= b, b <= B
  PROVE  Has(SubSeq(text, A, B), SubSeq(text, a, b))
<1> DEFINE outer == SubSeq(text, A, B)
           inner == SubSeq(text, a, b)
           k == a - A + 1
<1>0. A <= B + 1 /\ a <= b + 1 /\ b <= Len(text) /\ a \in Nat \ {0}
  <2>1. Len(text) \in Nat  OBVIOUS
  <2> QED  BY <2>1
<1>1. outer \in Seq(Symbol) /\ Len(outer) = B - A + 1  BY <1>0, PartOf
<1>2. inner \in Seq(Symbol) /\ Len(inner) = b - a + 1  BY <1>0, PartOf
<1>3. k \in Nat \ {0} /\ k + (b - a + 1) - 1 \in Nat /\ k <= (k + (b - a + 1) - 1) + 1
      /\ k + (b - a + 1) - 1 <= B - A + 1
      /\ A + k - 1 = a /\ A + (k + (b - a + 1) - 1) - 1 = b
      /\ k \in 1 .. (B - A + 1) /\ k + (b - a + 1) <= (B - A + 1) + 1
  OBVIOUS
<1> HIDE DEF k
<1>4. SubSeq(SubSeq(text, A, B), k, k + (b - a + 1) - 1) = SubSeq(text, A + k - 1, A + (k + (b - a + 1) - 1) - 1)
  <2> DEFINE d == k + (b - a + 1) - 1
  <2>1. d \in Nat /\ k <= d + 1 /\ d <= B - A + 1  BY <1>3
  <2> HIDE DEF d
  <2>2. SubSeq(SubSeq(text, A, B), k, d) = SubSeq(text, A + k - 1, A + d - 1)
    BY <1>0, <1>3, <2>1, PartOfPart
  <2> QED  BY <2>2 DEF d
<1>5. SubSeq(outer, k, k + (b - a + 1) - 1) = inner  BY <1>3, <1>4
<1> HIDE DEF outer, inner
<1>6. FoundAt(outer, inner, k)  BY <1>1, <1>2, <1>3, <1>5 DEF FoundAt
<1>7. k \in 1 .. Len(outer)  BY <1>1, <1>3
<1>8. Has(outer, inner)  BY <1>1, <1>2, <1>6, <1>7, FindsPart
<1> QED  BY <1>8 DEF outer, inner

(* Of two parts that begin at one place, the shorter is a prefix of the    *)
(* other.                                                                  *)
LEMMA PartIsPrefix ==
  ASSUME NEW text \in Seq(Symbol), NEW A \in Nat \ {0}, NEW B \in Nat, B <= Len(text),
         NEW b \in Nat, A <= b + 1, b <= B
  PROVE  IsPrefix(SubSeq(text, A, b), SubSeq(text, A, B))
<1> DEFINE s == SubSeq(text, A, b)
           t == SubSeq(text, A, B)
           m == b - A + 1
<1>0. A <= B + 1 /\ b <= Len(text)
  <2>1. Len(text) \in Nat  OBVIOUS
  <2> QED  BY <2>1
<1>1. s \in Seq(Symbol) /\ Len(s) = m /\ m \in Nat  BY <1>0, PartOf
<1>2. t \in Seq(Symbol) /\ Len(t) = B - A + 1  BY <1>0, PartOf
<1>3. m <= B - A + 1 /\ A + m - 1 = b /\ A + 1 - 1 = A /\ 1 <= m + 1 /\ b - A + 1 = m  OBVIOUS
<1>4. SubSeq(t, 1, m) = s
  <2> HIDE DEF m
  <2>1. SubSeq(SubSeq(text, A, B), 1, m) = SubSeq(text, A + 1 - 1, A + m - 1)
    BY <1>0, <1>1, <1>3, PartOfPart
  <2> QED  BY <1>3, <2>1
<1>5. SubSeq(s, 1, m) = s
  <2> HIDE DEF s, m
  <2> QED  BY <1>1
<1> HIDE DEF s, t, m
<1>6. IsPrefix(s, t)  BY <1>1, <1>2, <1>3, <1>4, <1>5 DEF IsPrefix
<1> QED  BY <1>6 DEF s, t

(* Of two that end at one place, it is a suffix.                           *)
LEMMA PartIsSuffix ==
  ASSUME NEW text \in Seq(Symbol), NEW A \in Nat \ {0}, NEW B \in Nat, B <= Len(text),
         NEW a \in Nat, A <= a, a <= B + 1
  PROVE  IsSuffix(SubSeq(text, a, B), SubSeq(text, A, B))
<1> DEFINE s == SubSeq(text, a, B)
           t == SubSeq(text, A, B)
           m == B - a + 1
           n == B - A + 1
<1>0. A <= B + 1 /\ a \in Nat \ {0}  OBVIOUS
<1>1. s \in Seq(Symbol) /\ Len(s) = m /\ m \in Nat /\ \A i \in 1 .. m : s[i] = text[a + i - 1]
  BY <1>0, PartOf
<1>2. t \in Seq(Symbol) /\ Len(t) = n /\ n \in Nat /\ \A i \in 1 .. n : t[i] = text[A + i - 1]
  BY <1>0, PartOf
<1>3. m <= n  OBVIOUS
<1> HIDE DEF s, t
<1>4. \A i \in 1 .. m : s[(m - i) + 1] = t[(n - i) + 1]
  <2> SUFFICES ASSUME NEW i \in 1 .. m  PROVE s[(m - i) + 1] = t[(n - i) + 1]
    OBVIOUS
  <2>1. (m - i) + 1 \in 1 .. m /\ (n - i) + 1 \in 1 .. n /\ a + ((m - i) + 1) - 1 = A + ((n - i) + 1) - 1
    BY <1>1, <1>2, <1>3
  <2> QED  BY <1>1, <1>2, <2>1
<1> HIDE DEF m, n
<1> DEFINE x == Reverse(s)
           y == Reverse(t)
<1>5. x = [i \in 1 .. m |-> s[(m - i) + 1]] /\ y = [i \in 1 .. n |-> t[(n - i) + 1]]
  BY <1>1, <1>2 DEF Reverse
<1>6. x \in Seq(Symbol) /\ Len(x) = m
  <2>1. ASSUME NEW i \in 1 .. m  PROVE s[(m - i) + 1] \in Symbol
    <3>1. (m - i) + 1 \in 1 .. Len(s)  BY <1>1
    <3> QED  BY <1>1, <3>1
  <2>2. x \in [1 .. m -> Symbol]
    <3> HIDE DEF x
    <3> QED  BY <1>5, <2>1
  <2> HIDE DEF x
  <2> QED  BY <1>1, <2>2
<1>7. y \in Seq(Symbol) /\ Len(y) = n
  <2>1. ASSUME NEW i \in 1 .. n  PROVE t[(n - i) + 1] \in Symbol
    <3>1. (n - i) + 1 \in 1 .. Len(t)  BY <1>2
    <3> QED  BY <1>2, <3>1
  <2>2. y \in [1 .. n -> Symbol]
    <3> HIDE DEF y
    <3> QED  BY <1>5, <2>1
  <2> HIDE DEF y
  <2> QED  BY <1>2, <2>2
<1> HIDE DEF x, y
<1>8. \A i \in 1 .. m : x[i] \in Symbol /\ x[i] = y[i + (1 - 1)]
  <2> SUFFICES ASSUME NEW i \in 1 .. m  PROVE x[i] \in Symbol /\ x[i] = y[i]
    OBVIOUS
  <2>1. i \in 1 .. n /\ i \in 1 .. Len(x)  BY <1>1, <1>2, <1>3, <1>6
  <2>2. x[i] = s[(m - i) + 1] /\ y[i] = t[(n - i) + 1]  BY <1>5, <2>1
  <2> QED  BY <1>4, <1>6, <2>1, <2>2
<1>9. SubSeq(x, 1, m) = SubSeq(y, 1, m)
  <2>1. m \in Int /\ 1 \in Int /\ m - 1 = m - 1  BY <1>1
  <2> QED  BY <1>8, <2>1, SameSlice
<1>10. IsSuffix(s, t)  BY <1>3, <1>6, <1>7, <1>9 DEF IsSuffix, IsPrefix, x, y
<1> QED  BY <1>10 DEF s, t

(* Where the lines of a slice begin and end in the text.                   *)
LineInSlice(text, p, q, i) ==
  LET c == SubSeq(text, p, q)
      t == LineStarts(c)
      u == LineStarts(text)
      j == LineAt(text, p) + i - 1
      a == p + t[i] - 1
      b == p + EndOf(c, t, i) - 1
  IN  /\ j \in 1 .. Len(u) /\ a \in Nat /\ b \in Nat /\ a <= b + 1
      /\ 1 <= u[j] /\ u[j] <= a /\ (i > 1 => u[j] = a)
      /\ b <= EndOf(text, u, j) /\ (i < Len(t) => b = EndOf(text, u, j))
      /\ EndOf(text, u, j) <= Len(text)
      /\ SubSeq(c, t[i], EndOf(c, t, i)) = SubSeq(text, a, b)

(* A line of a slice is the line of the text with its number, whole but    *)
(* for the outer ends of the first and the last.                           *)
LEMMA SliceLine ==
  ASSUME NEW text \in Seq(Symbol), NEW p \in 1 .. Len(text), NEW q \in p .. Len(text),
         NEW i \in 1 .. Len(LineStarts(SubSeq(text, p, q)))
  PROVE  LineInSlice(text, p, q, i)
<1> DEFINE n == Len(text)
           c == SubSeq(text, p, q)
           t == LineStarts(c)
           u == LineStarts(text)
           l == LineAt(text, p)
           m == LineAt(text, q)
           j == l + i - 1
           a == p + t[i] - 1
           d == EndOf(c, t, i)
           b == p + d - 1
           B == EndOf(text, u, j)
<1>0. n \in Nat /\ text # <<>> /\ p \in Nat /\ q \in Nat /\ 1 <= p /\ p <= q /\ q <= n  OBVIOUS
<1>1. /\ c \in Seq(Symbol) /\ Len(c) = q - p + 1 /\ c # <<>>
      /\ \A k \in 1 .. (q - p + 1) : c[k] = text[p + k - 1]
  BY SliceOf
<1>2. /\ u \in Seq(Nat) /\ Increasing(u) /\ Len(u) \in Nat \ {0}
      /\ \A k \in 1 .. Len(u) : u[k] \in 1 .. n /\ StartsAt(text, u[k]) /\ EndOf(text, u, k) \in 0 .. n
  BY <1>0, LinesOf
<1> HIDE DEF c
<1>3. /\ Len(t) \in Nat \ {0} /\ Increasing(t) /\ \A k \in 1 .. Len(t) : t[k] \in 1 .. Len(c) /\ EndOf(c, t, k) \in 0 .. Len(c)
  BY <1>1, LinesOf
<1>4. SliceStarts(t, u, p, l, m)  BY SliceHasStarts DEF c
<1>5. InLine(u, p, l) /\ InLine(u, q, m)
  <2>1. q \in 1 .. Len(text)  BY <1>0 DEF n
  <2> QED  BY <2>1, LineOf
<1> HIDE DEF t, u, l, m, n
<1>6. /\ l \in 1 .. Len(u) /\ m \in l .. Len(u) /\ Len(t) = m - l + 1 /\ t[1] = 1
      /\ \A k \in 2 .. Len(t) : t[k] = u[l + k - 1] - p + 1
  BY <1>4 DEF SliceStarts
<1>7. /\ u[l] <= p /\ (m < Len(u) => q < u[m + 1])  BY <1>5 DEF InLine
<1>8. i \in 1 .. Len(t)  BY DEF t, c
<1>9. j \in 1 .. Len(u) /\ j \in l .. m /\ u[j] \in 1 .. n /\ StartsAt(text, u[j]) /\ B \in 0 .. n
  <2>1. j \in 1 .. Len(u) /\ j \in l .. m  BY <1>2, <1>6, <1>8
  <2> HIDE DEF j
  <2> QED  BY <1>2, <2>1
<1>10. t[i] \in 1 .. (q - p + 1) /\ d \in 0 .. (q - p + 1)  BY <1>1, <1>3, <1>8
<1>11. a \in Nat /\ b \in Nat  BY <1>0, <1>10
<1>12. u[j] <= a /\ (i > 1 => u[j] = a)
  <2>1. CASE i = 1
    <3>1. j = l /\ t[i] = 1  BY <1>6, <2>1
    <3> QED  BY <1>0, <1>7, <2>1, <3>1
  <2>2. CASE i # 1
    <3>1. i \in 2 .. Len(t)  BY <1>3, <1>8, <2>2
    <3>2. t[i] = u[j] - p + 1  BY <1>6, <3>1
    <3> HIDE DEF j
    <3>3. p + t[i] - 1 = u[j]
      <4>1. u[j] \in Nat /\ p \in Nat  BY <1>0, <1>9
      <4> QED  BY <3>2, <4>1
    <3> QED  BY <1>9, <3>3
  <2> QED  BY <2>1, <2>2
<1> HIDE DEF j
<1>13. i < Len(t) => b = B /\ a <= b + 1
  <2> SUFFICES ASSUME i < Len(t)  PROVE b = B /\ a <= b + 1  OBVIOUS
  <2>1. i + 1 \in 2 .. Len(t) /\ i + 1 \in 1 .. Len(t) /\ i < i + 1  BY <1>3, <1>8
  <2>2. t[i + 1] = u[j + 1] - p + 1
    <3>1. l + (i + 1) - 1 = j + 1  BY <1>6 DEF j
    <3>2. t[i + 1] = u[l + (i + 1) - 1] - p + 1  BY <1>6, <2>1
    <3> QED  BY <3>1, <3>2
  <2>3. j < Len(u) /\ j + 1 \in 1 .. Len(u)
    <3>1. j < m  BY <1>6, <1>8, <1>3 DEF j
    <3>2. j \in Nat /\ 1 <= j /\ m \in Nat /\ Len(u) \in Nat /\ m <= Len(u)  BY <1>2, <1>6, <1>9
    <3> QED  BY <3>1, <3>2
  <2>4. B = u[j + 1] - 2  BY <2>3 DEF EndOf
  <2>5. d = t[i + 1] - 2  BY DEF EndOf
  <2>6. u[j + 1] \in Nat  BY <1>2, <2>3
  <2>7. t[i] < t[i + 1] /\ t[i] \in Nat /\ t[i + 1] \in Nat  BY <1>3, <1>8, <2>1 DEF Increasing
  <2>8. b = B  BY <1>0, <2>2, <2>4, <2>5, <2>6
  <2>9. a <= b + 1  BY <1>0, <2>5, <2>7
  <2> QED  BY <2>8, <2>9
<1>14. ~(i < Len(t)) => b <= B /\ a <= b + 1
  <2> SUFFICES ASSUME ~(i < Len(t))  PROVE b <= B /\ a <= b + 1  OBVIOUS
  <2>1. j = m  BY <1>3, <1>6, <1>8 DEF j
  <2>2. c[q - p + 1] = text[q]
    <3>1. q - p + 1 \in 1 .. (q - p + 1) /\ p + (q - p + 1) - 1 = q  BY <1>0
    <3> QED  BY <1>1, <3>1
  <2>3. Ends(c) <=> text[q] = NL  BY <1>1, <2>2 DEF Ends, Last
  <2>4. d = IF text[q] = NL THEN q - p ELSE q - p + 1
    <3>1. d = IF Ends(c) THEN Len(c) - 1 ELSE Len(c)  BY DEF EndOf
    <3>2. (q - p + 1) - 1 = q - p  BY <1>0
    <3> QED  BY <1>1, <2>3, <3>1, <3>2
  <2>5. b = IF text[q] = NL THEN q - 1 ELSE q
    <3>1. p + (q - p) - 1 = q - 1 /\ p + (q - p + 1) - 1 = q  BY <1>0
    <3> QED  BY <2>4, <3>1
  <2>6. a <= b + 1
    <3>1. a <= q  BY <1>0, <1>10
    <3> HIDE DEF a, b
    <3> QED  BY <1>0, <1>11, <2>5, <3>1
  <2> HIDE DEF b
  <2>7. CASE m < Len(u)
    <3>1. m + 1 \in 1 .. Len(u) /\ q < u[m + 1]  BY <1>2, <1>6, <1>7, <2>7
    <3>2. u[m + 1] \in 1 .. n /\ StartsAt(text, u[m + 1])  BY <1>2, <3>1
    <3>3. B = u[m + 1] - 2  BY <2>1, <2>7 DEF EndOf
    <3>4. u[m + 1] = q + 1 => text[q] = NL
      <4> SUFFICES ASSUME u[m + 1] = q + 1  PROVE text[q] = NL  OBVIOUS
      <4>1. u[m + 1] # 1 /\ u[m + 1] - 1 = q  BY <1>0
      <4>2. text[u[m + 1] - 1] = NL  BY <3>2, <4>1 DEF StartsAt
      <4> QED  BY <4>1, <4>2
    <3>5. CASE text[q] = NL
      <4>1. b = q - 1  BY <2>5, <3>5
      <4>2. b <= B  BY <1>0, <3>1, <3>2, <3>3, <4>1
      <4> QED  BY <2>6, <4>2
    <3>6. CASE text[q] # NL
      <4>1. b = q /\ u[m + 1] # q + 1  BY <2>5, <3>4, <3>6
      <4>2. b <= B  BY <1>0, <3>1, <3>2, <3>3, <4>1
      <4> QED  BY <2>6, <4>2
    <3> QED  BY <3>5, <3>6
  <2>8. CASE ~(m < Len(u))
    <3>1. B = IF Ends(text) THEN n - 1 ELSE n  BY <2>1, <2>8 DEF EndOf, n
    <3>2. Ends(text) <=> text[n] = NL  BY <1>0 DEF Ends, Last, n
    <3>3. text[q] # NL => ~Ends(text) \/ q < n
      <4>1. q = n \/ q < n  BY <1>0
      <4> QED  BY <3>2, <4>1
    <3>4. b <= B  BY <1>0, <2>5, <3>1, <3>3
    <3> QED  BY <2>6, <3>4
  <2> QED  BY <2>7, <2>8
<1>15. SubSeq(c, t[i], d) = SubSeq(text, a, b)
  <2>1. t[i] \in Nat \ {0} /\ d \in Nat /\ t[i] <= d + 1 /\ d <= q - p + 1
    <3>1. a <= b + 1  BY <1>13, <1>14
    <3>2. t[i] <= d + 1  BY <1>0, <1>10, <3>1
    <3> QED  BY <1>10, <3>2
  <2>2. p \in Nat \ {0} /\ q \in Nat /\ p <= q + 1 /\ q <= Len(text)  BY <1>0 DEF n
  <2> DEFINE x == t[i]
  <2> HIDE DEF x, d
  <2>3. SubSeq(SubSeq(text, p, q), x, d) = SubSeq(text, p + x - 1, p + d - 1)
    <3>1. x \in Nat \ {0} /\ d \in Nat /\ x <= d + 1 /\ d <= q - p + 1  BY <2>1 DEF x
    <3> QED  BY <2>2, <3>1, PartOfPart
  <2> QED  BY <2>3 DEF x, c
<1>16. 1 <= u[j] /\ B <= Len(text) /\ b <= B /\ a <= b + 1  BY <1>9, <1>13, <1>14 DEF n
<1> HIDE DEF a, b, B, d
<1> QED  BY <1>9, <1>11, <1>12, <1>13, <1>15, <1>16 DEF LineInSlice, a, b, B, d, j, t, u, l, c

(* So the lines of a slice have the numbers of the text's.                 *)
LEMMA SliceNumbered ==
  ASSUME NEW e, e.of \in Seq(Symbol), NEW p \in Nat \ {0}, NEW q \in Nat, q <= Len(e.of),
         e.content = SubSeq(e.of, p, q), e.start = LineAt(e.of, p)
  PROVE  Numbered(e)
<1> DEFINE text == e.of
           c == SubSeq(text, p, q)
           n == Len(text)
<1>0. n \in Nat /\ q <= n  OBVIOUS
<1>1. CASE q < p
  <2>1. c = <<>>
    <3>1. p \in Int /\ q \in Int /\ \A i \in p .. q : text[i] \in Symbol  BY <1>1
    <3>2. c \in Seq(Symbol) /\ Len(c) = IF p <= q THEN q - p + 1 ELSE 0  BY <3>1, SubSeqProperties
    <3> HIDE DEF c
    <3>3. Len(c) = 0  BY <1>1, <3>2
    <3> QED  BY <3>2, <3>3
  <2>2. LineSeq(e.content) = <<>>  BY <2>1, NoLines
  <2>3. DOMAIN <<>> = {}  OBVIOUS
  <2> QED  BY <2>2, <2>3 DEF Numbered
<1>2. CASE p <= q
  <2> DEFINE t == LineStarts(c)
             u == LineStarts(text)
             lines == LineSeq(text)
             shown == LineSeq(c)
  <2>0. text \in Seq(Symbol) /\ p \in 1 .. Len(text) /\ q \in p .. Len(text) /\ text # <<>>
    BY <1>0, <1>2
  <2>1. c \in Seq(Symbol) /\ c # <<>>
    <3> HIDE DEF text
    <3> QED  BY <2>0, SliceOf
  <2>2. Len(t) \in Nat \ {0} /\ shown = [i \in 1 .. Len(t) |-> SubSeq(c, t[i], EndOf(c, t, i))]
        /\ shown \in Seq(Seq(Symbol)) /\ Len(shown) = Len(t)
    <3> HIDE DEF c
    <3> QED  BY <2>1, LinesOf
  <2>3. Len(u) \in Nat \ {0} /\ lines = [i \in 1 .. Len(u) |-> SubSeq(text, u[i], EndOf(text, u, i))]
        /\ lines \in Seq(Seq(Symbol)) /\ Len(lines) = Len(u)
        /\ \A i \in 1 .. Len(u) : u[i] \in 1 .. n /\ EndOf(text, u, i) \in 0 .. n
    BY <2>0, LinesOf
  <2>4. DOMAIN shown = 1 .. Len(t) /\ DOMAIN lines = 1 .. Len(u)  BY <2>2, <2>3
  <2> SUFFICES ASSUME NEW i \in 1 .. Len(t)
               PROVE  LET j == e.start + i - 1 IN
                      /\ j \in 1 .. Len(u)
                      /\ i \in 2 .. Len(t) - 1 => shown[i] = lines[j]
                      /\ i = 1 /\ i < Len(t) => IsSuffix(shown[i], lines[e.start])
                      /\ i = Len(t) /\ i > 1 => IsPrefix(shown[i], lines[j])
                      /\ i = 1 /\ i = Len(t) => Has(lines[e.start], shown[i]) \/ shown[i] = <<>>
    BY <2>2, <2>4 DEF Numbered
  <2> DEFINE j == LineAt(text, p) + i - 1
             a == p + t[i] - 1
             b == p + EndOf(c, t, i) - 1
             A == u[j]
             B == EndOf(text, u, j)
  <2>5. /\ j \in 1 .. Len(u) /\ a \in Nat /\ b \in Nat /\ a <= b + 1
        /\ 1 <= A /\ A <= a /\ (i > 1 => A = a)
        /\ b <= B /\ (i < Len(t) => b = B) /\ B <= Len(text)
        /\ SubSeq(c, t[i], EndOf(c, t, i)) = SubSeq(text, a, b)
    <3>1. LineInSlice(text, p, q, i)
      <4> HIDE DEF text
      <4> QED  BY <2>0, SliceLine
    <3> HIDE DEF text
    <3> QED  BY <3>1 DEF LineInSlice
  <2>6. shown[i] = SubSeq(text, a, b)  BY <2>2, <2>5
  <2>7. lines[j] = SubSeq(text, A, B) /\ A \in Nat \ {0} /\ B \in Nat
    <3> HIDE DEF j, text, u, n
    <3>1. lines[j] = SubSeq(text, A, B)  BY <2>3, <2>5
    <3>2. u[j] \in 1 .. n /\ EndOf(text, u, j) \in 0 .. n  BY <2>3, <2>5
    <3> QED  BY <1>0, <3>1, <3>2
  <2>8. e.start + i - 1 = j  OBVIOUS
  <2>9. LineAt(text, p) \in Nat
    <3> HIDE DEF text
    <3>1. LineAt(text, p) \in 1 .. Len(LineStarts(text))  BY <2>0, LineOf DEF InLine
    <3> QED  BY <3>1
  <2>10. i = 1 => e.start = j
    <3> HIDE DEF text
    <3>1. e.start = LineAt(text, p)  BY DEF text
    <3> QED  BY <2>9, <3>1
  <2> HIDE DEF text, c, t, u, lines, shown, j, a, b, A, B
  <2>16. Len(t) \in Nat /\ e.start + i - 1 \in 1 .. Len(u)  BY <2>2, <2>5, <2>8
  <2>11. CASE i > 1 /\ i < Len(t)
    <3>1. shown[i] = lines[e.start + i - 1]  BY <2>5, <2>6, <2>7, <2>8, <2>11
    <3>2. i # 1 /\ i # Len(t)
      <4>1. i > 1 /\ i < Len(t) /\ Len(t) \in Nat  BY <2>11, <2>16
      <4>2. \A k \in Nat : i > 1 /\ i < k => i # 1 /\ i # k  OBVIOUS
      <4> QED  BY <4>1, <4>2
    <3> QED  BY <2>16, <3>1, <3>2, Zenon
  <2>12. CASE i = 1 /\ i < Len(t)
    <3>1. IsSuffix(SubSeq(text, a, B), SubSeq(text, A, B))
      <4>1. b = B  BY <2>5, <2>12
      <4> QED  BY <2>0, <2>5, <2>7, <4>1, PartIsSuffix
    <3>2. shown[i] = SubSeq(text, a, B)  BY <2>5, <2>6, <2>12
    <3>3. IsSuffix(shown[i], lines[e.start])  BY <2>7, <2>10, <2>12, <3>1, <3>2
    <3>4. i = 1 /\ ~(i > 1) /\ i # Len(t) /\ i \notin 2 .. Len(t) - 1
      <4>1. i = 1 /\ 1 < Len(t)  BY <2>12
      <4>2. \A k \in Nat : 1 < k => 1 # k /\ ~(1 > 1) /\ 1 \notin 2 .. k - 1  OBVIOUS
      <4>3. Len(t) \in Nat  BY <2>16
      <4> QED  BY <4>1, <4>2, <4>3
    <3> QED  BY <2>16, <3>3, <3>4, Zenon
  <2>13. CASE i = Len(t) /\ i > 1
    <3>1. IsPrefix(SubSeq(text, A, b), SubSeq(text, A, B))
      <4>1. A <= b + 1  BY <2>5, <2>13
      <4> QED  BY <2>0, <2>5, <2>7, <4>1, PartIsPrefix
    <3>2. shown[i] = SubSeq(text, A, b)  BY <2>5, <2>6, <2>13
    <3>3. IsPrefix(shown[i], lines[e.start + i - 1])  BY <2>7, <2>8, <3>1, <3>2
    <3>4. i # 1 /\ i \notin 2 .. Len(t) - 1
      <4>1. i = Len(t) /\ Len(t) > 1  BY <2>13
      <4>2. \A k \in Nat : k > 1 => k # 1 /\ k \notin 2 .. k - 1  OBVIOUS
      <4>3. Len(t) \in Nat  BY <2>16
      <4> QED  BY <4>1, <4>2, <4>3
    <3> QED  BY <2>16, <3>3, <3>4, Zenon
  <2>14. CASE i = Len(t) /\ i = 1
    <3>1. CASE a <= b
      <4>1. Has(SubSeq(text, A, B), SubSeq(text, a, b))  BY <2>0, <2>5, <2>7, <3>1, PartHas
      <4>2. Has(lines[e.start], shown[i])  BY <2>6, <2>7, <2>10, <2>14, <4>1
      <4> QED  BY <2>8, <2>16, <2>14, <4>2
    <3>2. CASE ~(a <= b)
      <4>1. shown[i] = <<>>
        <5>1. a \in Int /\ b \in Int /\ \A k \in a .. b : text[k] \in Symbol  BY <2>5, <3>2
        <5>2. Len(SubSeq(text, a, b)) = (IF a <= b THEN b - a + 1 ELSE 0) /\ SubSeq(text, a, b) \in Seq(Symbol)
          BY <5>1, SubSeqProperties
        <5>3. Len(SubSeq(text, a, b)) = 0  BY <3>2, <5>2
        <5> QED  BY <2>6, <5>2, <5>3
      <4> QED  BY <2>8, <2>16, <2>14, <4>1
    <3> QED  BY <3>1, <3>2
  <2>15. (i > 1 /\ i < Len(t)) \/ (i = 1 /\ i < Len(t)) \/ (i = Len(t) /\ i > 1) \/ (i = Len(t) /\ i = 1)
    <3>1. Len(t) \in Nat  BY <2>2
    <3> QED  BY <3>1
  <2> QED  BY <2>11, <2>12, <2>13, <2>14, <2>15
<1> QED  BY <1>1, <1>2

-------------------------------------------------------------------------------
(* Excerpts.                                                               *)
LEMMA MinOfTwo ==
  ASSUME NEW a \in Int, NEW b \in Int
  PROVE  Min({a, b}) = IF a <= b THEN a ELSE b
<1> DEFINE T == {a, b}
<1>1. \E x \in T : \A y \in T : x <= y  OBVIOUS
<1>2. Min(T) \in T /\ \A y \in T : Min(T) <= y  BY <1>1, Zenon DEF Min
<1>3. (Min(T) = a \/ Min(T) = b) /\ Min(T) <= a /\ Min(T) <= b  BY <1>2
<1> HIDE DEF T
<1>4. Min(T) = IF a <= b THEN a ELSE b  BY <1>3
<1> QED  BY <1>4 DEF T

(* The larger of two numbers.                                              *)
LEMMA MaxOfTwo ==
  ASSUME NEW a \in Int, NEW b \in Int
  PROVE  Max({a, b}) = IF a >= b THEN a ELSE b
<1> DEFINE T == {a, b}
<1>1. \E x \in T : \A y \in T : x >= y  OBVIOUS
<1>2. Max(T) \in T /\ \A y \in T : Max(T) >= y  BY <1>1, Zenon DEF Max
<1>3. (Max(T) = a \/ Max(T) = b) /\ Max(T) >= a /\ Max(T) >= b  BY <1>2
<1> HIDE DEF T
<1>4. Max(T) = IF a >= b THEN a ELSE b  BY <1>3
<1> QED  BY <1>4 DEF T

(* The words of a query are finitely many texts.                           *)
LEMMA TokensTyped ==
  ASSUME NEW words \in Seq(Symbol) \ {<<>>}
  PROVE  Tokens(words) \subseteq Seq(Symbol) \ {<<>>} /\ IsFiniteSet(Tokens(words))
<1> DEFINE long == {<<w>> : w \in Range(words) \ ShortWords}
           one == [i \in 1 .. Len(words) |-> <<words[i]>>]
           all == {<<words[i]>> : i \in 1 .. Len(words)}
<1>0. Len(words) \in Nat /\ DOMAIN words = 1 .. Len(words) /\ \A i \in 1 .. Len(words) : words[i] \in Symbol  OBVIOUS
<1>1. long \subseteq all  BY <1>0 DEF Range
<1>2. \A i \in 1 .. Len(words) : <<words[i]>> \in Seq(Symbol) \ {<<>>}  BY <1>0
<1>3. all \subseteq Seq(Symbol) \ {<<>>}  BY <1>2
<1>4. IsFiniteSet(all)
  <2>1. one \in Surjection(1 .. Len(words), all)  BY DEF Surjection
  <2>2. IsFiniteSet(1 .. Len(words))  BY <1>0, FS_Interval
  <2> HIDE DEF one, all
  <2> QED  BY <2>1, <2>2, FS_Surjection
<1>5. IsFiniteSet({words})  BY FS_Singleton
<1>6. IsFiniteSet(long)
  <2> HIDE DEF long, all
  <2> QED  BY <1>1, <1>4, FS_Subset
<1>7. Tokens(words) = IF long = {} THEN {words} ELSE long  BY DEF Tokens
<1> HIDE DEF long, all
<1> QED  BY <1>1, <1>3, <1>5, <1>6, <1>7

(* A text in lower case is that of its parts.                              *)
LEMMA LowerTyped ==
  ASSUME NEW text \in Texts
  PROVE  /\ text \in Seq(Symbol) /\ ToLower(text) \in Seq(Symbol)
         /\ \A p \in 1 .. Len(text) :
              /\ ToLower(SubSeq(text, 1, p - 1)) \in Seq(Symbol)
              /\ ToLower(SubSeq(text, p, Len(text))) \in Seq(Symbol)
              /\ ToLower(text) = ToLower(SubSeq(text, 1, p - 1)) \o ToLower(SubSeq(text, p, Len(text)))
<1> DEFINE n == Len(text)
<1>1. text \in Seq(Symbol) /\ n \in Nat  BY WorkAssumption
<1>2. \A p \in 0 .. n :
        /\ ToLower(SubSeq(text, 1, p)) \in Seq(Symbol) /\ ToLower(SubSeq(text, p + 1, n)) \in Seq(Symbol)
        /\ ToLower(text) = ToLower(SubSeq(text, 1, p)) \o ToLower(SubSeq(text, p + 1, n))
  BY ReadsAssumption
<1>3. SubSeq(text, 1, n) = text  BY <1>1
<1> HIDE DEF n
<1>4. ToLower(text) \in Seq(Symbol)
  <2>1. n \in 0 .. n  BY <1>1
  <2> QED  BY <1>2, <1>3, <2>1
<1>5. \A p \in 1 .. n : p - 1 \in 0 .. n /\ (p - 1) + 1 = p  BY <1>1
<1>6. ASSUME NEW p \in 1 .. n
      PROVE  /\ ToLower(SubSeq(text, 1, p - 1)) \in Seq(Symbol) /\ ToLower(SubSeq(text, p, n)) \in Seq(Symbol)
             /\ ToLower(text) = ToLower(SubSeq(text, 1, p - 1)) \o ToLower(SubSeq(text, p, n))
  <2> DEFINE q == p - 1
  <2>1. q \in 0 .. n /\ q + 1 = p  BY <1>5
  <2> HIDE DEF q
  <2>2. /\ ToLower(SubSeq(text, 1, q)) \in Seq(Symbol) /\ ToLower(SubSeq(text, p, n)) \in Seq(Symbol)
        /\ ToLower(text) = ToLower(SubSeq(text, 1, q)) \o ToLower(SubSeq(text, p, n))
    BY <1>2, <2>1
  <2> QED  BY <2>2 DEF q
<1> QED  BY <1>1, <1>4, <1>6 DEF n

(* What is found right behind a text is a prefix of what follows it.       *)
LEMMA FoundBehind ==
  ASSUME NEW a \in Seq(Symbol), NEW b \in Seq(Symbol), NEW t \in Seq(Symbol), NEW p, p = Len(a) + 1
  PROVE  FoundAt(a \o b, t, p) <=> IsPrefix(t, b)
<1> DEFINE c == a \o b
           k == Len(a)
           l == Len(b)
           m == Len(t)
<1>1. k \in Nat /\ l \in Nat /\ m \in Nat  OBVIOUS
<1>2. c \in Seq(Symbol) /\ Len(c) = k + l /\ \A i \in 1 .. k + l : c[i] = IF i <= k THEN a[i] ELSE b[i - k]
  BY ConcatProperties
<1>3. \A i \in 1 .. l : b[i] \in Symbol  OBVIOUS
<1>4. SubSeq(t, 1, m) = t  OBVIOUS
<1>6. p = k + 1  OBVIOUS
<1> HIDE DEF c, k, l, m
<1>5. m <= l => SubSeq(b, 1, m) = SubSeq(c, p, p + m - 1)
  <2> SUFFICES ASSUME m <= l  PROVE SubSeq(b, 1, m) = SubSeq(c, p, p + m - 1)
    OBVIOUS
  <2>1. \A i \in 1 .. m : b[i] \in Symbol /\ b[i] = c[i + (p - 1)]
    <3> SUFFICES ASSUME NEW i \in 1 .. m  PROVE b[i] \in Symbol /\ b[i] = c[i + (p - 1)]
      OBVIOUS
    <3>1. i \in 1 .. l /\ i + (p - 1) = i + k /\ i + k \in 1 .. k + l /\ ~(i + k <= k) /\ (i + k) - k = i
      BY <1>1, <1>6
    <3> QED  BY <1>2, <1>3, <3>1
  <2>2. 1 \in Int /\ m \in Int /\ p \in Int /\ p + m - 1 \in Int /\ m - 1 = (p + m - 1) - p  BY <1>1, <1>6
  <2> QED  BY <2>1, <2>2, SameSlice
<1>7. p + m <= Len(c) + 1 <=> m <= l  BY <1>1, <1>2, <1>6
<1>8. FoundAt(c, t, p) <=> p + m <= Len(c) + 1 /\ SubSeq(c, p, p + m - 1) = t  BY DEF FoundAt, m
<1>9. IsPrefix(t, b) <=> m <= l /\ SubSeq(t, 1, m) = SubSeq(b, 1, m)  BY DEF IsPrefix, m, l
<1>10. FoundAt(c, t, p) <=> IsPrefix(t, b)  BY <1>4, <1>5, <1>7, <1>8, <1>9
<1> QED  BY <1>10 DEF c

(* The places in a text in lower case where words of the query are found.  *)
FoundPlaces(text, tokens) ==
  {Matches(ToLower(text), token)[1] : token \in {t \in tokens : Has(ToLower(text), t)}}

(* They are places in it.                                                  *)
LEMMA FoundPlacesIn ==
  ASSUME NEW text \in Texts, NEW tokens, tokens \subseteq Seq(Symbol)
  PROVE  FoundPlaces(text, tokens) \subseteq 1 .. Len(ToLower(text))
<1> DEFINE lower == ToLower(text)
<1>1. lower \in Seq(Symbol)  BY LowerTyped
<1> HIDE DEF lower
<1>2. ASSUME NEW token \in tokens, Has(lower, token)  PROVE Matches(lower, token)[1] \in 1 .. Len(lower)
  <2> DEFINE found == Matches(lower, token)
  <2>1. token \in Seq(Symbol)  OBVIOUS
  <2>2. found \in Seq(Nat) /\ \A i \in 1 .. Len(found) : found[i] \in 1 .. Len(lower)  BY <1>1, <2>1, FoundWithin
  <2>3. found # <<>>  BY <1>2 DEF Has
  <2> HIDE DEF found
  <2>4. 1 \in 1 .. Len(found)  BY <2>2, <2>3
  <2>5. found[1] \in 1 .. Len(lower)  BY <2>2, <2>4
  <2> QED  BY <2>5 DEF found
<1> QED  BY <1>2 DEF FoundPlaces, lower

(* The first of them, if there is one.                                     *)
LEMMA FirstMatchIs ==
  ASSUME NEW text \in Texts, NEW tokens, tokens \subseteq Seq(Symbol)
  PROVE  LET places == FoundPlaces(text, tokens)
             first == FirstMatch(text, tokens)
         IN  /\ places = {} => first = 1
             /\ places # {} => first \in places /\ \A p \in places : first <= p
<1> DEFINE places == FoundPlaces(text, tokens)
           n == Len(ToLower(text))
<1>1. places \subseteq 1 .. n  BY FoundPlacesIn
<1>2. n \in Nat
  <2>1. ToLower(text) \in Seq(Symbol)  BY LowerTyped
  <2> QED  BY <2>1
<1>3. FirstMatch(text, tokens) = IF places = {} THEN 1 ELSE Min(places)  BY DEF FirstMatch, FoundPlaces
<1> HIDE DEF places, n
<1>4. places \in SUBSET (0 .. n)  BY <1>1, <1>2
<1>5. places # {} => Min(places) \in places /\ \A p \in places : Min(places) <= p  BY <1>2, <1>4, HasMin
<1> QED  BY <1>3, <1>5 DEF places

(* The first match is a place, if not always one in the text.              *)
LEMMA FirstMatchIn ==
  ASSUME NEW text \in Texts, NEW tokens, tokens \subseteq Seq(Symbol)
  PROVE  FirstMatch(text, tokens) \in Nat \ {0}
<1> DEFINE places == FoundPlaces(text, tokens)
           first == FirstMatch(text, tokens)
           n == Len(ToLower(text))
<1>1. /\ places = {} => first = 1
      /\ places # {} => first \in places
  BY FirstMatchIs
<1>2. places \subseteq 1 .. n  BY FoundPlacesIn
<1>3. n \in Nat
  <2>1. ToLower(text) \in Seq(Symbol)  BY LowerTyped
  <2> QED  BY <2>1
<1> HIDE DEF places, first, n
<1>m. \A p \in 1 .. n : p \in Nat \ {0}  BY <1>3
<1>4. CASE places = {}
  <2>1. first = 1  BY <1>1, <1>4
  <2> QED  BY <2>1 DEF first
<1>5. CASE places # {}
  <2>1. first \in Nat \ {0}  BY <1>1, <1>2, <1>5, <1>m
  <2> QED  BY <2>1 DEF first
<1> QED  BY <1>4, <1>5

(* Where a word begins in the text, it is found in lower case, unless what *)
(* is before it has another length there.                                  *)
LEMMA FoundThere ==
  ASSUME NEW text \in Texts, NEW t \in Seq(Symbol) \ {<<>>}, NEW p \in 1 .. Len(text),
         Len(ToLower(SubSeq(text, 1, p - 1))) = p - 1
  PROVE  /\ FoundAt(ToLower(text), t, p) <=> IsPrefix(t, ToLower(SubSeq(text, p, Len(text))))
         /\ FoundAt(ToLower(text), t, p) => p \in 1 .. Len(ToLower(text))
<1> DEFINE a == ToLower(SubSeq(text, 1, p - 1))
           b == ToLower(SubSeq(text, p, Len(text)))
           lower == ToLower(text)
<1>1. a \in Seq(Symbol) /\ b \in Seq(Symbol) /\ lower \in Seq(Symbol) /\ lower = a \o b  BY LowerTyped
<1>2. p \in Nat /\ p >= 1
  <2>1. Len(text) \in Nat  BY LowerTyped
  <2> QED  BY <2>1
<1>3. p = Len(a) + 1  BY <1>2
<1> HIDE DEF a, b, lower
<1>4. FoundAt(lower, t, p) <=> IsPrefix(t, b)  BY <1>1, <1>3, FoundBehind
<1>5. Len(t) \in Nat /\ Len(t) # 0  OBVIOUS
<1>6. Len(lower) \in Nat  BY <1>1
<1>7. FoundAt(lower, t, p) => p + Len(t) <= Len(lower) + 1  BY DEF FoundAt
<1>8. FoundAt(lower, t, p) => p \in 1 .. Len(lower)  BY <1>2, <1>5, <1>6, <1>7
<1> QED  BY <1>4, <1>8 DEF b, lower

(* The first match is the first place in the text where a word is, unless  *)
(* what is before it has another length in lower case.                     *)
LEMMA MatchPlace ==
  ASSUME NEW text \in Texts, NEW tokens, tokens \subseteq Seq(Symbol) \ {<<>>},
         PlacesOf(text, tokens) # {},
         \A p \in 1 .. Min(PlacesOf(text, tokens)) : Len(ToLower(SubSeq(text, 1, p - 1))) = p - 1
  PROVE  /\ FirstMatch(text, tokens) = Min(PlacesOf(text, tokens))
         /\ Min(PlacesOf(text, tokens)) \in 1 .. Len(text)
<1> DEFINE P == PlacesOf(text, tokens)
           place == Min(P)
           n == Len(text)
           lower == ToLower(text)
           first == FirstMatch(text, tokens)
           Q == FoundPlaces(text, tokens)
<1>1. n \in Nat /\ lower \in Seq(Symbol)  BY LowerTyped
<1>2. P \subseteq 1 .. n  BY DEF PlacesOf
<1>3. place \in P /\ \A p \in P : place <= p
  <2> HIDE DEF P, n
  <2>1. P \in SUBSET (0 .. n) /\ P # {}
    <3>1. P # {}  BY DEF P
    <3> QED  BY <1>1, <1>2, <3>1
  <2> QED  BY <1>1, <2>1, HasMin
<1>4. /\ Q = {} => first = 1
      /\ Q # {} => first \in Q /\ \A p \in Q : first <= p
  <2>1. tokens \subseteq Seq(Symbol)  OBVIOUS
  <2> QED  BY <2>1, FirstMatchIs
<1>5. place \in 1 .. n /\ place \in Nat  BY <1>1, <1>2, <1>3
<1>6. PICK t \in tokens : IsPrefix(t, ToLower(SubSeq(text, place, n)))  BY <1>3 DEF PlacesOf
<1>7. FoundAt(lower, t, place) /\ place \in 1 .. Len(lower)
  <2>1. Len(ToLower(SubSeq(text, 1, place - 1))) = place - 1
    <3>1. place \in 1 .. place  BY <1>5
    <3> QED  BY <3>1
  <2>2. t \in Seq(Symbol) \ {<<>>}  OBVIOUS
  <2> HIDE DEF place
  <2> QED  BY <1>5, <1>6, <2>1, <2>2, FoundThere
<1> HIDE DEF lower
<1>8. Has(lower, t) /\ Matches(lower, t)[1] \in Nat /\ Matches(lower, t)[1] <= place
  <2>1. t \in Seq(Symbol)  OBVIOUS
  <2> HIDE DEF place
  <2> QED  BY <1>1, <1>7, <2>1, FindsPart
<1>9. Matches(lower, t)[1] \in Q  BY <1>8 DEF FoundPlaces, lower
<1>10. first \in Q /\ first <= Matches(lower, t)[1]
  <2> HIDE DEF Q, first
  <2> QED  BY <1>4, <1>9
<1>11. PICK u \in tokens : Has(lower, u) /\ first = Matches(lower, u)[1]  BY <1>10 DEF FoundPlaces, lower
<1>12. FoundAt(lower, u, first) /\ first \in Nat /\ first >= 1
  <2>1. u \in Seq(Symbol)  OBVIOUS
  <2>2. FoundAt(lower, u, Matches(lower, u)[1]) /\ Matches(lower, u)[1] \in Nat /\ Matches(lower, u)[1] >= 1
    <3> HIDE DEF first
    <3> QED  BY <1>1, <1>11, <2>1, FirstIsThere
  <2> QED  BY <1>11, <2>2
<1>13. first <= place
  <2> HIDE DEF first, place, Q
  <2> QED  BY <1>5, <1>8, <1>10, <1>12
<1>14. first \in P
  <2>1. first \in 1 .. place /\ first \in 1 .. n
    <3> HIDE DEF first, place, n
    <3> QED  BY <1>1, <1>5, <1>12, <1>13
  <2>2. Len(ToLower(SubSeq(text, 1, first - 1))) = first - 1  BY <2>1
  <2>3. u \in Seq(Symbol) \ {<<>>}  OBVIOUS
  <2>4. IsPrefix(u, ToLower(SubSeq(text, first, n)))
    <3> HIDE DEF first
    <3> QED  BY <1>12, <2>1, <2>2, <2>3, FoundThere DEF lower
  <2> HIDE DEF first
  <2> QED  BY <2>1, <2>4 DEF PlacesOf
<1>15. place <= first
  <2> HIDE DEF first, place, P
  <2> QED  BY <1>3, <1>14
<1>16. first = place
  <2> HIDE DEF first, place
  <2> QED  BY <1>5, <1>12, <1>13, <1>15
<1> QED  BY <1>5, <1>16

(* The window is in the text.                                              *)
LEMMA WindowIn ==
  ASSUME NEW text \in Texts, NEW tokens, tokens \subseteq Seq(Symbol), Len(text) > MaxExcerpt
  PROVE  /\ Window(text, tokens) \in Nat \ {0} /\ Window(text, tokens) + MaxExcerpt - 1 <= Len(text)
         /\ Window(text, tokens) = 1 \/ Window(text, tokens) <= FirstMatch(text, tokens) - (MaxExcerpt \div 3)
<1> DEFINE a == FirstMatch(text, tokens) - (MaxExcerpt \div 3)
           b == Len(text) - MaxExcerpt + 1
           w == Window(text, tokens)
           x == Min({a, b})
<1>1. MaxExcerpt \in Nat /\ Len(text) \in Nat  BY ReadsAssumption, LowerTyped
<1>2. a \in Int /\ b \in Int /\ b >= 1
  <2>1. FirstMatch(text, tokens) \in Nat  BY FirstMatchIn
  <2>2. MaxExcerpt \div 3 \in Int  BY <1>1
  <2> QED  BY <1>1, <2>1, <2>2
<1>3. w = Max({1, x})  BY DEF Window
<1> HIDE DEF a, b, w, x
<1>4. x = IF a <= b THEN a ELSE b  BY <1>2, MinOfTwo DEF x
<1>5. x \in Int /\ x <= a /\ x <= b  BY <1>2, <1>4
<1>6. w = IF 1 >= x THEN 1 ELSE x  BY <1>3, <1>5, MaxOfTwo
<1>7. w \in Nat \ {0} /\ w <= b /\ (w = 1 \/ w <= a)  BY <1>2, <1>5, <1>6
<1>8. w + MaxExcerpt - 1 <= Len(text)
  <2>1. w <= Len(text) - MaxExcerpt + 1 /\ w \in Nat  BY <1>7 DEF b
  <2> QED  BY <1>1, <2>1
<1> QED  BY <1>7, <1>8 DEF w, a

(* So is what is cut out of it.                                            *)
LEMMA CutIn ==
  ASSUME NEW text \in Seq(Symbol), NEW begin \in Nat \ {0}, begin + MaxExcerpt - 1 <= Len(text)
  PROVE  /\ Cut(text, begin).from \in Nat \ {0} /\ Cut(text, begin).last \in Nat
         /\ begin <= Cut(text, begin).from /\ Cut(text, begin).last <= begin + MaxExcerpt - 1
         /\ Cut(text, begin).from <= Cut(text, begin).last + 1
         /\ \A p \in begin .. begin + MaxExcerpt - 1 :
              text[p] = NL =>
                /\ Cut(text, begin).from <= p + 1
                /\ p >= Cut(text, begin).from => p <= Cut(text, begin).last
         /\ begin = 1 => Cut(text, begin).from = 1
         /\ begin + MaxExcerpt - 1 = Len(text) => Cut(text, begin).last = Len(text)
<1> DEFINE n == Len(text)
           to == begin + MaxExcerpt - 1
           head == NewlinesIn(text, begin, to)
           from == IF begin > 1 /\ head # {} THEN Min(head) + 1 ELSE begin
           tail == NewlinesIn(text, from, to)
           last == IF to < n /\ tail # {} THEN Max(tail) ELSE to
<1>0. n \in Nat /\ MaxExcerpt \in Nat /\ begin \in Nat /\ begin >= 1  BY ReadsAssumption
<1>1. to \in Nat /\ to <= n  BY <1>0
<1>2. Cut(text, begin).from = from /\ Cut(text, begin).last = last  BY DEF Cut
<1> HIDE DEF n, to
<1>3. head \in SUBSET (0 .. to) /\ head \subseteq begin .. to /\ \A p \in begin .. to : text[p] = NL => p \in head
  BY <1>0, <1>1 DEF NewlinesIn
<1>4. head # {} => Min(head) \in head /\ \A y \in head : Min(head) <= y
  <2> HIDE DEF head
  <2> QED  BY <1>1, <1>3, HasMin
<1> HIDE DEF head
<1>5. from \in Nat \ {0} /\ begin <= from /\ from <= to + 1
  <2>1. head # {} => Min(head) \in begin .. to  BY <1>3, <1>4
  <2>2. begin <= to + 1  BY <1>0 DEF to
  <2> QED  BY <1>0, <1>1, <2>1, <2>2
<1>6. \A p \in begin .. to : text[p] = NL => from <= p + 1
  <2> SUFFICES ASSUME NEW p \in begin .. to, text[p] = NL  PROVE from <= p + 1
    OBVIOUS
  <2>1. p \in head /\ head # {}  BY <1>3
  <2>2. Min(head) \in begin .. to /\ Min(head) <= p  BY <1>3, <1>4, <2>1
  <2> QED  BY <1>0, <1>1, <2>2
<1>7. begin = 1 => from = 1  OBVIOUS
<1> HIDE DEF from
<1>8. tail \in SUBSET (0 .. to) /\ tail \subseteq from .. to /\ \A p \in from .. to : text[p] = NL => p \in tail
  BY <1>1, <1>5 DEF NewlinesIn
<1>9. tail # {} => Max(tail) \in tail /\ \A y \in tail : Max(tail) >= y
  <2> HIDE DEF tail
  <2> QED  BY <1>1, <1>8, HasMax
<1> HIDE DEF tail
<1>10. last \in Nat /\ last <= to /\ from <= last + 1
  <2>1. tail # {} => Max(tail) \in from .. to  BY <1>8, <1>9
  <2> QED  BY <1>1, <1>5, <2>1
<1>11. \A p \in from .. to : text[p] = NL => p <= last
  <2> SUFFICES ASSUME NEW p \in from .. to, text[p] = NL  PROVE p <= last
    OBVIOUS
  <2>1. p \in tail  BY <1>8
  <2>2. Max(tail) >= p /\ Max(tail) \in 0 .. to  BY <1>8, <1>9, <2>1
  <2> QED  BY <1>1, <1>5, <2>2
<1>12. \A p \in begin .. to : p >= from /\ text[p] = NL => p <= last
  <2> SUFFICES ASSUME NEW p \in begin .. to, p >= from, text[p] = NL  PROVE p <= last
    OBVIOUS
  <2>1. p \in from .. to  BY <1>0, <1>1, <1>5
  <2> QED  BY <1>11, <2>1
<1>13. to = n => last = n  BY <1>1
<1> HIDE DEF last
<1> QED  BY <1>2, <1>5, <1>6, <1>7, <1>10, <1>12, <1>13 DEF to, n

(* An excerpt is a slice of the text, numbered as it is there.             *)
SliceWith(text, content, line) ==
  /\ content \in Seq(Symbol) /\ Len(content) <= MaxExcerpt
  /\ \E p \in Nat \ {0}, q \in Nat :
       /\ q <= Len(text) /\ p <= q + 1
       /\ content = SubSeq(text, p, q) /\ line = LineAt(text, p)

(* So it is, wherever the window and the lines in it begin.                *)
LEMMA ExcerptIsSlice ==
  ASSUME NEW text \in Texts, NEW tokens, tokens \subseteq Seq(Symbol)
  PROVE  SliceWith(text, Excerpt(text, tokens).content, Excerpt(text, tokens).line)
<1>s. text \in Seq(Symbol)  BY LowerTyped
<1>0. MaxExcerpt \in Nat /\ Len(text) \in Nat  BY <1>s, ReadsAssumption
<1>1. CASE Len(text) <= MaxExcerpt
  <2>1. Excerpt(text, tokens).content = text /\ Excerpt(text, tokens).line = 1  BY <1>1 DEF Excerpt
  <2>2. SubSeq(text, 1, Len(text)) = text  BY <1>s
  <2>3. LineAt(text, 1) = 1
    <3>1. 1 - 1 = 0  OBVIOUS
    <3> QED  BY <3>1, NoNewlines DEF LineAt
  <2>4. 1 <= Len(text) + 1 /\ Len(text) <= Len(text) /\ 1 \in Nat \ {0}  BY <1>0
  <2>5. \E p \in Nat \ {0}, q \in Nat : q <= Len(text) /\ p <= q + 1
           /\ text = SubSeq(text, p, q) /\ 1 = LineAt(text, p)
    BY <1>0, <2>2, <2>3, <2>4
  <2> QED  BY <1>1, <1>s, <2>1, <2>5 DEF SliceWith
<1>2. CASE ~(Len(text) <= MaxExcerpt)
  <2> DEFINE begin == Window(text, tokens)
             cut == Cut(text, begin)
             from == cut.from
             last == cut.last
  <2>1. Len(text) > MaxExcerpt  BY <1>0, <1>2
  <2>2. begin \in Nat \ {0} /\ begin + MaxExcerpt - 1 <= Len(text)  BY <2>1, WindowIn
  <2>3. Excerpt(text, tokens).content = SubSeq(text, from, last) /\ Excerpt(text, tokens).line = LineAt(text, from)
    BY <1>2 DEF Excerpt
  <2> HIDE DEF begin
  <2>4. from \in Nat \ {0} /\ last \in Nat /\ begin <= from /\ last <= begin + MaxExcerpt - 1
    BY <1>s, <2>2, CutIn
  <2> HIDE DEF from, last
  <2>5. from <= last + 1
    <3> QED  BY <1>s, <2>2, CutIn DEF from, last
  <2>6. last <= Len(text)  BY <1>0, <2>2, <2>4
  <2>7. SubSeq(text, from, last) \in Seq(Symbol) /\ Len(SubSeq(text, from, last)) = last - from + 1
    BY <1>s, <2>4, <2>5, <2>6, PartOf
  <2>8. last - from + 1 <= MaxExcerpt  BY <1>0, <2>2, <2>4
  <2> QED  BY <2>3, <2>4, <2>5, <2>6, <2>7, <2>8 DEF SliceWith
<1> QED  BY <1>1, <1>2

(* It shows the first place where a word is, if that is not far down its   *)
(* line, and lower case keeps the length of what is before it.             *)
Shows(text, tokens, content) ==
  LET places == PlacesOf(text, tokens)
      place == Min(places)
      start == Max({0} \cup NewlinesIn(text, 1, place - 1)) + 1
      end == Min({Len(text)} \cup NewlinesIn(text, place, Len(text)))
      kept == \A p \in 1 .. place : Len(ToLower(SubSeq(text, 1, p - 1))) = p - 1
      fits == place - start < MaxExcerpt \div 3 /\ end < Window(text, tokens) + MaxExcerpt
  IN  (places # {} /\ kept /\ fits /\ MaxContext >= MaxExcerpt) => Has(content, SubSeq(text, start, end))

(* The window is about the match, and neither cut of the window takes it   *)
(* away.                                                                   *)
LEMMA ExcerptShows ==
  ASSUME NEW text \in Texts, NEW tokens, tokens \subseteq Seq(Symbol) \ {<<>>}
  PROVE  Shows(text, tokens, Excerpt(text, tokens).content)
<1> DEFINE n == Len(text)
           places == PlacesOf(text, tokens)
           place == Min(places)
           before == NewlinesIn(text, 1, place - 1)
           start == Max({0} \cup before) + 1
           after == NewlinesIn(text, place, n)
           end == Min({n} \cup after)
           third == MaxExcerpt \div 3
           window == Window(text, tokens)
           content == Excerpt(text, tokens).content
<1> SUFFICES ASSUME places # {}, \A p \in 1 .. place : Len(ToLower(SubSeq(text, 1, p - 1))) = p - 1,
                    place - start < third, end < window + MaxExcerpt
             PROVE  Has(content, SubSeq(text, start, end))
  BY DEF Shows
<1>s. text \in Seq(Symbol) /\ tokens \subseteq Seq(Symbol)  BY LowerTyped
<1>m. FirstMatch(text, tokens) = place /\ place \in 1 .. n  BY MatchPlace
<1>0. n \in Nat /\ n >= 1 /\ MaxExcerpt \in Nat /\ third \in Nat
  <2>1. MaxExcerpt \in Nat  BY ReadsAssumption
  <2>2. MaxExcerpt \div 3 \in Nat  BY <2>1
  <2>3. n \in Nat  BY <1>s
  <2> HIDE DEF n, place
  <2>4. n >= 1  BY <1>m, <2>3
  <2> QED  BY <2>1, <2>2, <2>3, <2>4
<1>1. place \in Nat /\ 1 <= place /\ place <= n
  <2> HIDE DEF n, place
  <2> QED  BY <1>0, <1>m
<1>w. n > MaxExcerpt => /\ window \in Nat \ {0} /\ window + MaxExcerpt - 1 <= n
                        /\ window = 1 \/ window <= place - third
  <2>1. Len(text) > MaxExcerpt =>
          /\ window \in Nat \ {0} /\ window + MaxExcerpt - 1 <= Len(text)
          /\ window = 1 \/ window <= FirstMatch(text, tokens) - (MaxExcerpt \div 3)
    <3> HIDE DEF place, third
    <3> QED  BY <1>s, WindowIn
  <2> HIDE DEF place, window
  <2> QED  BY <1>m, <2>1
<1>c. n <= MaxExcerpt => content = text  BY DEF Excerpt
<1>e. n > MaxExcerpt => content = SubSeq(text, Cut(text, window).from, Cut(text, window).last)
  <2> SUFFICES ASSUME n > MaxExcerpt
               PROVE  content = SubSeq(text, Cut(text, window).from, Cut(text, window).last)
    OBVIOUS
  <2>1. ~(Len(text) <= MaxExcerpt)
    <3>1. n \in Nat /\ MaxExcerpt \in Nat /\ n > MaxExcerpt  BY <1>0
    <3> HIDE DEF n
    <3>2. ~(n <= MaxExcerpt)  BY <3>1
    <3> QED  BY <3>2 DEF n
  <2> QED  BY <2>1 DEF Excerpt
<1> HIDE DEF n, places, place, third, window, content
<1>2. start \in Nat /\ 1 <= start /\ start <= place /\ (start > 1 => text[start - 1] = NL)
  <2> DEFINE T == {0} \cup before
  <2>1. T \in SUBSET (0 .. place - 1) /\ T # {}  BY <1>1 DEF NewlinesIn
  <2>2. \A p \in T : p = 0 \/ text[p] = NL  BY DEF NewlinesIn
  <2> HIDE DEF T
  <2>3. place - 1 \in Nat  BY <1>1
  <2>4. Max(T) \in T  BY <2>1, <2>3, HasMax
  <2>5. Max(T) \in 0 .. place - 1  BY <2>1, <2>4
  <2>6. start = Max(T) + 1  BY DEF T
  <2> DEFINE m == Max(T)
  <2> HIDE DEF start, m
  <2>7. m \in 0 .. place - 1 /\ start = m + 1 /\ (m = 0 \/ text[m] = NL)  BY <2>2, <2>4, <2>5, <2>6 DEF m
  <2>8. m \in Nat /\ m <= place - 1 /\ start - 1 = m  BY <1>1, <2>7
  <2>9. start \in Nat /\ 1 <= start /\ start <= place  BY <1>1, <2>7, <2>8
  <2>10. start > 1 => m # 0  BY <2>7, <2>8
  <2>11. start > 1 => text[start - 1] = NL  BY <2>7, <2>8, <2>10
  <2> QED  BY <2>9, <2>11
<1>3. end \in Nat /\ place <= end /\ end <= n /\ (end = n \/ text[end] = NL)
  <2> DEFINE T == {n} \cup after
  <2>1. T \in SUBSET (0 .. n) /\ T # {} /\ T \subseteq place .. n  BY <1>0, <1>1 DEF NewlinesIn
  <2>2. \A p \in T : p = n \/ text[p] = NL  BY DEF NewlinesIn
  <2> HIDE DEF T
  <2>4. Min(T) \in T  BY <1>0, <2>1, HasMin
  <2>5. Min(T) \in place .. n  BY <2>1, <2>4
  <2>6. end = Min(T)  BY DEF T
  <2> HIDE DEF end
  <2> QED  BY <1>0, <1>1, <2>2, <2>4, <2>5, <2>6
<1> HIDE DEF start, end
<1>4. CASE n <= MaxExcerpt
  <2>1. SubSeq(text, 1, n) = text  BY <1>s DEF n
  <2>2. Has(SubSeq(text, 1, n), SubSeq(text, start, end))
    <3>1. 1 \in Nat \ {0} /\ n <= Len(text) /\ start <= end  BY <1>0, <1>1, <1>2, <1>3 DEF n
    <3> QED  BY <1>s, <1>0, <1>2, <1>3, <3>1, PartHas
  <2> QED  BY <1>4, <1>c, <2>1, <2>2
<1>5. CASE n > MaxExcerpt
  <2> DEFINE from == Cut(text, window).from
             last == Cut(text, window).last
             to == window + MaxExcerpt - 1
  <2>1. window \in Nat \ {0} /\ to <= n /\ to \in Nat /\ (window = 1 \/ window <= place - third) /\ end <= to
    BY <1>0, <1>3, <1>5, <1>w
  <2>2. /\ from \in Nat \ {0} /\ last \in Nat /\ window <= from /\ last <= to
        /\ \A p \in window .. to : text[p] = NL => from <= p + 1 /\ (p >= from => p <= last)
        /\ window = 1 => from = 1
        /\ to = n => last = n
    <3>1. window + MaxExcerpt - 1 <= Len(text)  BY <2>1 DEF n
    <3> QED  BY <1>s, <2>1, <3>1, CutIn DEF n
  <2> HIDE DEF from, last, to
  <2>3. from <= start
    <3>1. CASE window = 1  BY <1>2, <2>2, <3>1
    <3>2. CASE window # 1
      <4>1. window <= place - third /\ place - third < start  BY <1>0, <1>1, <1>2, <2>1, <3>2
      <4>2. start - 1 \in window .. to /\ start > 1  BY <1>0, <1>1, <1>2, <1>3, <2>1, <4>1
      <4>3. from <= (start - 1) + 1  BY <1>2, <2>2, <4>2
      <4> QED  BY <1>2, <2>2, <4>3
    <3> QED  BY <3>1, <3>2
  <2>4. end <= last
    <3>1. CASE end = n
      <4>1. to = n  BY <1>0, <2>1, <3>1
      <4> QED  BY <1>0, <2>2, <3>1, <4>1
    <3>2. CASE end # n
      <4>1. text[end] = NL  BY <1>3, <3>2
      <4>2. end \in window .. to /\ end >= from  BY <1>1, <1>2, <1>3, <2>1, <2>2, <2>3
      <4> QED  BY <2>2, <4>1, <4>2
    <3> QED  BY <3>1, <3>2
  <2>5. last <= Len(text) /\ start <= end  BY <1>0, <1>1, <1>2, <1>3, <2>1, <2>2 DEF n
  <2>6. Has(SubSeq(text, from, last), SubSeq(text, start, end))
    BY <1>s, <1>2, <1>3, <2>2, <2>3, <2>4, <2>5, PartHas
  <2>7. content = SubSeq(text, from, last)  BY <1>5, <1>e DEF from, last
  <2> QED  BY <2>6, <2>7
<1>6. n <= MaxExcerpt \/ n > MaxExcerpt  BY <1>0
<1> QED  BY <1>4, <1>5, <1>6

-------------------------------------------------------------------------------
(* Folds: FoldLeft is what a loop over the sequence ends with.             *)
FoldsAs(k, n, V, base, step) ==
  /\ k[{}] = base
  /\ \A s \in SUBSET (1 .. n) :
       s # {} /\ k[s \ {Max(s)}] \in V => k[s] = step[<<Max(s), k[s \ {Max(s)}]>>]

LoopsTo(k, n, V, base, step) ==
  \E g : Loops(g, n, V, base, step) /\ g[n] = k[1 .. n]

(* A fold that CHOOSE picks ends as the loop over the same steps does.     *)
LEMMA FoldLoops ==
  ASSUME NEW V, NEW base \in V, NEW n \in Nat, NEW step \in [(1 .. n) \X V -> V], NEW k,
         FoldsAs(k, n, V, base, step)
  PROVE  LoopsTo(k, n, V, base, step)
<1>1. PICK g : Loops(g, n, V, base, step)  BY LoopExists
<1>2. /\ g \in [0 .. n -> V] /\ g[0] = base /\ \A i \in 1 .. n : g[i] = step[<<i, g[i - 1]>>]
  BY <1>1 DEF Loops
<1> DEFINE S == {i \in Nat : i <= n => k[1 .. i] = g[i]}
<1>3. 0 \in S
  <2>1. 1 .. 0 = {}  OBVIOUS
  <2> QED  BY <1>2, <2>1 DEF FoldsAs
<1>4. ASSUME NEW i \in Nat, i \in S  PROVE i + 1 \in S
  <2> SUFFICES ASSUME i + 1 <= n  PROVE k[1 .. (i + 1)] = g[i + 1]
    OBVIOUS
  <2>1. i + 1 \in 1 .. n /\ i <= n /\ (i + 1) - 1 = i /\ i \in 0 .. n  OBVIOUS
  <2>2. 1 .. (i + 1) \in SUBSET (1 .. (i + 1)) /\ i + 1 \in 1 .. (i + 1) /\ i + 1 \in Nat  OBVIOUS
  <2>3. Max(1 .. (i + 1)) = i + 1  BY <2>2, MaxOfInterval
  <2>4. (1 .. (i + 1)) \ {i + 1} = 1 .. i /\ 1 .. (i + 1) # {}
    <3>1. \A j \in 1 .. (i + 1) : j # i + 1 => j \in 1 .. i  OBVIOUS
    <3>2. \A j \in 1 .. i : j \in 1 .. (i + 1) /\ j # i + 1  OBVIOUS
    <3> QED  BY <2>2, <3>1, <3>2
  <2>5. k[1 .. i] = g[i] /\ g[i] \in V  BY <1>2, <1>4, <2>1
  <2>6. 1 .. (i + 1) \in SUBSET (1 .. n)  OBVIOUS
  <2>7. k[1 .. (i + 1)] = step[<<i + 1, k[1 .. i]>>]  BY <2>3, <2>4, <2>5, <2>6 DEF FoldsAs
  <2> QED  BY <1>2, <2>1, <2>5, <2>7
<1>5. n \in S
  <2>1. Nat \subseteq S
    <3> HIDE DEF S
    <3> QED  BY <1>3, <1>4, NatInd
  <2> HIDE DEF S
  <2> QED  BY <2>1
<1>6. g[n] = k[1 .. n]  BY <1>5
<1> QED  BY <1>1, <1>6 DEF LoopsTo

(* Two loops that do the same are the same, as far as the shorter goes.    *)
LEMMA LoopsAgree ==
  ASSUME NEW V, NEW base, NEW n \in Nat, NEW m \in Nat, n <= m, NEW step, NEW other,
         NEW g, Loops(g, n, V, base, step), NEW h, Loops(h, m, V, base, other),
         \A i \in 1 .. n : \A v \in V : step[<<i, v>>] = other[<<i, v>>]
  PROVE  \A i \in 0 .. n : g[i] = h[i]
<1>1. /\ g \in [0 .. n -> V] /\ g[0] = base /\ \A i \in 1 .. n : g[i] = step[<<i, g[i - 1]>>]
      /\ h[0] = base /\ \A i \in 1 .. m : h[i] = other[<<i, h[i - 1]>>]
  BY DEF Loops
<1> DEFINE S == {i \in Nat : i <= n => g[i] = h[i]}
<1>2. 0 \in S  BY <1>1
<1>3. ASSUME NEW i \in Nat, i \in S  PROVE i + 1 \in S
  <2> SUFFICES ASSUME i + 1 <= n  PROVE g[i + 1] = h[i + 1]
    OBVIOUS
  <2>1. i + 1 \in 1 .. n /\ i + 1 \in 1 .. m /\ i <= n /\ (i + 1) - 1 = i /\ i \in 0 .. n  OBVIOUS
  <2>2. g[i] = h[i] /\ g[i] \in V  BY <1>1, <1>3, <2>1
  <2>3. g[i + 1] = step[<<i + 1, g[i]>>] /\ h[i + 1] = other[<<i + 1, h[i]>>]  BY <1>1, <2>1
  <2> QED  BY <2>1, <2>2, <2>3
<1>4. Nat \subseteq S
  <2> HIDE DEF S
  <2> QED  BY <1>2, <1>3, NatInd
<1>5. ASSUME NEW i \in 0 .. n  PROVE g[i] = h[i]
  <2>1. i \in Nat /\ i <= n  OBVIOUS
  <2>2. i \in S
    <3> HIDE DEF S
    <3> QED  BY <1>4, <2>1
  <2> QED  BY <2>1, <2>2
<1> QED  BY <1>5

(* What is known of a file that has a score.                               *)
FoundFile == [file : File, content : Seq(Symbol), start : Nat, score : Nat, lines : Nat, of : Seq(Symbol)]

TotalStep(files) == [z \in (1 .. Len(files)) \X Nat |-> z[2] + Len(files[z[1]].content)]

TotalFold(iter, files) ==
  iter = [s \in SUBSET DOMAIN files |->
            IF s = {} THEN 0 ELSE iter[s \ {Max(s)}] + Len(files[Max(s)].content)]

(* The sum of the sizes is such a loop.                                    *)
LEMMA TotalHasRun ==
  ASSUME NEW files \in Seq(FoundFile)
  PROVE  \E g : Loops(g, Len(files), Nat, 0, TotalStep(files)) /\ Total(files) = g[Len(files)]
<1> DEFINE n == Len(files)
           step == TotalStep(files)
<1>0. n \in Nat /\ DOMAIN files = 1 .. n /\ \A i \in 1 .. n : files[i] \in FoundFile  OBVIOUS
<1>1. \A i \in 1 .. n : Len(files[i].content) \in Nat
  <2> SUFFICES ASSUME NEW i \in 1 .. n  PROVE Len(files[i].content) \in Nat
    OBVIOUS
  <2>1. files[i].content \in Seq(Symbol)  BY <1>0 DEF FoundFile
  <2> QED  BY <2>1
<1> HIDE DEF n
<1>2. step \in [(1 .. n) \X Nat -> Nat] /\ \A i \in 1 .. n : \A v \in Nat : step[<<i, v>>] = v + Len(files[i].content)
  BY <1>1 DEF TotalStep, n
<1> HIDE DEF step
<1>3. PICK h : Folds(h, n, Nat, 0, step)  BY <1>0, <1>2, FoldExists
<1>4. h \in [SUBSET (1 .. n) -> Nat]  BY <1>3 DEF Folds
<1>5. ASSUME NEW s \in SUBSET (1 .. n), s # {}  PROVE Max(s) \in 1 .. n /\ s \ {Max(s)} \in SUBSET (1 .. n)
  <2>1. s \in SUBSET (0 .. n)  BY <1>0
  <2>2. Max(s) \in s  BY <1>0, <1>5, <2>1, HasMax
  <2> QED  BY <2>2
<1>6. TotalFold(h, files)
  <2>1. ASSUME NEW s \in SUBSET (1 .. n)
        PROVE  h[s] = IF s = {} THEN 0 ELSE h[s \ {Max(s)}] + Len(files[Max(s)].content)
    <3>1. CASE s = {}  BY <1>3, <3>1 DEF Folds
    <3>2. CASE s # {}
      <4>1. Max(s) \in 1 .. n /\ h[s \ {Max(s)}] \in Nat  BY <1>4, <1>5, <3>2
      <4>2. h[s] = step[<<Max(s), h[s \ {Max(s)}]>>]  BY <1>3, <3>2 DEF Folds
      <4> QED  BY <1>2, <3>2, <4>1, <4>2
    <3> QED  BY <3>1, <3>2
  <2> QED  BY <1>0, <1>4, <2>1 DEF TotalFold
<1> DEFINE iter == CHOOSE k : TotalFold(k, files)
<1>7. TotalFold(iter, files)  BY <1>6
<1>8. Total(files) = iter[DOMAIN files]  BY DEF Total, FoldLeft, MapThenFoldSet, TotalFold
<1> HIDE DEF iter
<1>9. FoldsAs(iter, n, Nat, 0, step)
  <2>1. iter[{}] = 0  BY <1>0, <1>7 DEF TotalFold
  <2>2. ASSUME NEW s \in SUBSET (1 .. n), s # {}, iter[s \ {Max(s)}] \in Nat
        PROVE  iter[s] = step[<<Max(s), iter[s \ {Max(s)}]>>]
    <3>1. iter[s] = iter[s \ {Max(s)}] + Len(files[Max(s)].content)  BY <1>0, <1>7, <2>2 DEF TotalFold
    <3>2. Max(s) \in 1 .. n  BY <1>5, <2>2
    <3> QED  BY <1>2, <2>2, <3>1, <3>2
  <2> QED  BY <2>1, <2>2 DEF FoldsAs
<1>a. LoopsTo(iter, n, Nat, 0, step)  BY <1>0, <1>2, <1>9, FoldLoops
<1>10. PICK g : Loops(g, n, Nat, 0, step) /\ g[n] = iter[1 .. n]  BY <1>a DEF LoopsTo
<1>11. Total(files) = g[n]  BY <1>0, <1>8, <1>10
<1> QED  BY <1>10, <1>11 DEF n, step

(* Each file adds its own size.                                            *)
LEMMA TotalOf ==
  /\ Total(<<>>) = 0
  /\ \A files \in Seq(FoundFile) : Total(files) \in Nat
  /\ \A files \in Seq(FoundFile), e \in FoundFile : Total(Append(files, e)) = Total(files) + Len(e.content)
<1>1. ASSUME NEW files \in Seq(FoundFile)  PROVE Total(files) \in Nat /\ (files = <<>> => Total(files) = 0)
  <2>1. PICK g : Loops(g, Len(files), Nat, 0, TotalStep(files)) /\ Total(files) = g[Len(files)]
    BY TotalHasRun
  <2>2. Len(files) \in 0 .. Len(files) /\ (files = <<>> => Len(files) = 0)  OBVIOUS
  <2> QED  BY <2>1, <2>2 DEF Loops
<1>2. ASSUME NEW files \in Seq(FoundFile), NEW e \in FoundFile
      PROVE  Total(Append(files, e)) = Total(files) + Len(e.content)
  <2> DEFINE new == Append(files, e)
             n == Len(files)
  <2>1. new \in Seq(FoundFile) /\ Len(new) = n + 1 /\ new[n + 1] = e /\ \A i \in 1 .. n : new[i] = files[i]
    BY AppendProperties
  <2>2. n \in Nat  OBVIOUS
  <2> HIDE DEF new
  <2>3. PICK g : Loops(g, n, Nat, 0, TotalStep(files)) /\ Total(files) = g[n]  BY TotalHasRun
  <2>4. PICK h : Loops(h, n + 1, Nat, 0, TotalStep(new)) /\ Total(new) = h[n + 1]  BY <2>1, TotalHasRun
  <2>5. \A i \in 1 .. n : \A v \in Nat : TotalStep(files)[<<i, v>>] = TotalStep(new)[<<i, v>>]
    <3>1. \A i \in 1 .. n : i \in 1 .. (n + 1)  BY <2>2
    <3> QED  BY <2>1, <3>1 DEF TotalStep
  <2>6. \A i \in 0 .. n : g[i] = h[i]
    <3>1. n <= n + 1 /\ n + 1 \in Nat  BY <2>2
    <3> HIDE DEF n
    <3> QED  BY <2>2, <2>3, <2>4, <2>5, <3>1, LoopsAgree
  <2>7. g[n] = h[n] /\ g[n] \in Nat  BY <2>2, <2>3, <2>6 DEF Loops
  <2>8. n + 1 \in 1 .. (n + 1) /\ (n + 1) - 1 = n  BY <2>2
  <2>9. h[n + 1] = TotalStep(new)[<<n + 1, h[n]>>]  BY <2>4, <2>8 DEF Loops
  <2>10. TotalStep(new)[<<n + 1, h[n]>>] = h[n] + Len(e.content)
    <3>1. <<n + 1, h[n]>> \in (1 .. Len(new)) \X Nat  BY <2>1, <2>7, <2>8
    <3> QED  BY <2>1, <3>1 DEF TotalStep
  <2> QED  BY <2>3, <2>4, <2>7, <2>9, <2>10 DEF new
<1>3. <<>> \in Seq(FoundFile)  OBVIOUS
<1> QED  BY <1>1, <1>2, <1>3

-------------------------------------------------------------------------------
(* The candidates by their scores.                                         *)
Descending(s) == \A i, j \in 1 .. Len(s) : i < j => s[i].score >= s[j].score

RankedAt(new, old, e, place) ==
  /\ place \in 0 .. Len(old)
  /\ new \in Seq(FoundFile) /\ Len(new) = Len(old) + 1
  /\ \A i \in 1 .. place : new[i] = old[i]
  /\ new[place + 1] = e
  /\ \A i \in place + 1 .. Len(old) : new[i + 1] = old[i] /\ old[i].score < e.score
  /\ place > 0 => old[place].score >= e.score

(* A candidate comes before those with a lower score.                      *)
LEMMA RankedTyped ==
  ASSUME NEW old \in Seq(FoundFile), NEW e \in FoundFile
  PROVE  \E place : RankedAt(Ranked(old, e), old, e, place)
<1> DEFINE n == Len(old)
           T == {0} \cup {p \in DOMAIN old : old[p].score >= e.score}
           place == Max(T)
           a == SubSeq(old, 1, place)
           b == SubSeq(old, place + 1, n)
           new == Ranked(old, e)
<1>0. n \in Nat /\ DOMAIN old = 1 .. n /\ \A i \in 1 .. n : old[i] \in FoundFile  OBVIOUS
<1>1. T \in SUBSET (0 .. n) /\ T # {}
  <2>1. 0 \in 0 .. n  BY <1>0
  <2>2. \A p \in 1 .. n : p \in 0 .. n  BY <1>0
  <2> QED  BY <1>0, <2>1, <2>2
<1>2. place \in T /\ \A y \in T : place >= y
  <2> HIDE DEF T, n
  <2> QED  BY <1>0, <1>1, HasMax
<1>3. place \in 0 .. n  BY <1>1, <1>2
<1>4. place > 0 => old[place].score >= e.score  BY <1>2
<1>5. \A i \in place + 1 .. n : old[i].score < e.score
  <2> SUFFICES ASSUME NEW i \in place + 1 .. n  PROVE old[i].score < e.score
    OBVIOUS
  <2>1. i \in 1 .. n /\ ~(place >= i)
    <3> HIDE DEF place, n
    <3> QED  BY <1>0, <1>3
  <2>2. i \notin T  BY <1>2, <2>1
  <2>3. ~(old[i].score >= e.score)
    <3>1. i \in DOMAIN old  BY <1>0, <2>1
    <3> QED  BY <2>2, <3>1
  <2>4. old[i].score \in Nat /\ e.score \in Nat  BY <1>0, <2>1 DEF FoundFile
  <2> QED  BY <2>3, <2>4
<1>6. new = a \o <<e>> \o b  BY DEF Ranked
<1> HIDE DEF place, T, n, new
<1>7. /\ a \in Seq(FoundFile) /\ Len(a) = place /\ \A i \in 1 .. place : a[i] = old[i]
  <2>1. \A i \in 1 .. place : old[i] \in FoundFile  BY <1>0, <1>3
  <2> QED  BY <1>0, <1>3, <2>1, SubSeqProperties
<1>8. /\ b \in Seq(FoundFile) /\ Len(b) = n - place /\ \A i \in 1 .. n - place : b[i] = old[place + i]
  <2>1. \A i \in place + 1 .. n : old[i] \in FoundFile  BY <1>0, <1>3
  <2>2. /\ b \in Seq(FoundFile) /\ Len(b) = IF place + 1 <= n THEN n - (place + 1) + 1 ELSE 0
        /\ \A i \in 1 .. (n - (place + 1) + 1) : b[i] = old[(place + 1) + i - 1]
    <3>1. place + 1 \in Int /\ n \in Int  BY <1>0, <1>3
    <3> QED  BY <2>1, <3>1, SubSeqProperties
  <2>3. n - (place + 1) + 1 = n - place /\ \A i \in 1 .. n - place : (place + 1) + i - 1 = place + i
    BY <1>0, <1>3
  <2>4. Len(b) = n - place
    <3> HIDE DEF b
    <3> QED  BY <1>0, <1>3, <2>2
  <2> QED  BY <2>2, <2>3, <2>4
<1> HIDE DEF a, b
<1>9. /\ a \o <<e>> \in Seq(FoundFile) /\ Len(a \o <<e>>) = place + 1
      /\ \A i \in 1 .. place : (a \o <<e>>)[i] = old[i]
      /\ (a \o <<e>>)[place + 1] = e
  <2>1. <<e>> \in Seq(FoundFile) /\ Len(<<e>>) = 1 /\ <<e>>[1] = e  OBVIOUS
  <2> QED  BY <1>3, <1>7, <2>1, ConcatProperties
<1> DEFINE c == a \o <<e>>
<1>10. c \in Seq(FoundFile) /\ Len(c) = place + 1 /\ (\A i \in 1 .. place : c[i] = old[i]) /\ c[place + 1] = e
       /\ new = c \o b
  BY <1>6, <1>9
<1> HIDE DEF c
<1>11. /\ new \in Seq(FoundFile) /\ Len(new) = n + 1
       /\ \A i \in 1 .. place + 1 : new[i] = c[i]
       /\ \A i \in 1 .. n - place : new[(place + 1) + i] = b[i]
  <2>1. /\ new \in Seq(FoundFile) /\ Len(new) = Len(c) + Len(b)
        /\ \A i \in 1 .. Len(c) + Len(b) : new[i] = IF i <= Len(c) THEN c[i] ELSE b[i - Len(c)]
    BY <1>8, <1>10, ConcatProperties
  <2>2. Len(new) = n + 1  BY <1>0, <1>3, <1>8, <1>10, <2>1
  <2>3. ASSUME NEW i \in 1 .. place + 1  PROVE new[i] = c[i]
    <3>1. i \in 1 .. Len(c) + Len(b) /\ i <= Len(c)  BY <1>0, <1>3, <1>8, <1>10
    <3> QED  BY <2>1, <3>1
  <2>4. ASSUME NEW i \in 1 .. n - place  PROVE new[(place + 1) + i] = b[i]
    <3>1. (place + 1) + i \in 1 .. Len(c) + Len(b) /\ ~((place + 1) + i <= Len(c)) /\ ((place + 1) + i) - Len(c) = i
      BY <1>0, <1>3, <1>8, <1>10
    <3> QED  BY <2>1, <3>1
  <2> QED  BY <2>1, <2>2, <2>3, <2>4
<1>12. \A i \in 1 .. place : new[i] = old[i]
  <2>1. \A i \in 1 .. place : i \in 1 .. place + 1  BY <1>3
  <2> QED  BY <1>10, <1>11, <2>1
<1>13. new[place + 1] = e
  <2>1. place + 1 \in 1 .. place + 1  BY <1>3
  <2> QED  BY <1>10, <1>11, <2>1
<1>14. \A i \in place + 1 .. n : new[i + 1] = old[i]
  <2> SUFFICES ASSUME NEW i \in place + 1 .. n  PROVE new[i + 1] = old[i]
    OBVIOUS
  <2>1. i - place \in 1 .. n - place /\ (place + 1) + (i - place) = i + 1 /\ place + (i - place) = i
    BY <1>0, <1>3
  <2> QED  BY <1>8, <1>11, <2>1
<1>15. RankedAt(new, old, e, place)
  BY <1>3, <1>4, <1>5, <1>11, <1>12, <1>13, <1>14 DEF RankedAt, n
<1> QED  BY <1>15 DEF new

(* The same candidates, and one more, are still in their order.            *)
SameWith(new, old, e) ==
  /\ \A i \in 1 .. Len(new) : new[i] = e \/ \E j \in 1 .. Len(old) : new[i] = old[j]
  /\ \A j \in 1 .. Len(old) : \E i \in 1 .. Len(new) : new[i] = old[j]
  /\ \E i \in 1 .. Len(new) : new[i] = e

(* Where a candidate comes, the others keep their order.                   *)
LEMMA RankedKeeps ==
  ASSUME NEW old \in Seq(FoundFile), NEW e \in FoundFile, Descending(old)
  PROVE  /\ Ranked(old, e) \in Seq(FoundFile) /\ Descending(Ranked(old, e)) /\ SameWith(Ranked(old, e), old, e)
<1> DEFINE n == Len(old)
           new == Ranked(old, e)
<1>1. PICK place : RankedAt(new, old, e, place)  BY RankedTyped
<1>0. n \in Nat /\ \A i \in 1 .. n : old[i] \in FoundFile  OBVIOUS
<1> HIDE DEF n, new
<1>2. /\ place \in 0 .. n /\ new \in Seq(FoundFile) /\ Len(new) = n + 1
      /\ \A i \in 1 .. place : new[i] = old[i]
      /\ new[place + 1] = e
      /\ \A i \in place + 1 .. n : new[i + 1] = old[i] /\ old[i].score < e.score
      /\ place > 0 => old[place].score >= e.score
  BY <1>1 DEF RankedAt, n
<1>3. \A i \in 1 .. n : old[i].score \in Nat  BY <1>0 DEF FoundFile
<1>4. e.score \in Nat  BY DEF FoundFile
<1>5. \A i \in 1 .. n + 1 : i \in 1 .. place \/ i = place + 1 \/ \E j \in place + 1 .. n : i = j + 1
  <2> SUFFICES ASSUME NEW i \in 1 .. n + 1, i \notin 1 .. place, i # place + 1
               PROVE  \E j \in place + 1 .. n : i = j + 1
    OBVIOUS
  <2>1. i - 1 \in place + 1 .. n /\ i = (i - 1) + 1  BY <1>0, <1>2
  <2> QED  BY <2>1
<1>6. \A i \in 1 .. place : i \in 1 .. n /\ old[i].score >= e.score
  <2> SUFFICES ASSUME NEW i \in 1 .. place  PROVE i \in 1 .. n /\ old[i].score >= e.score
    OBVIOUS
  <2>1. i \in 1 .. n /\ place \in 1 .. n /\ place > 0  BY <1>0, <1>2
  <2>2. i = place \/ old[i].score >= old[place].score
    <3>1. i = place \/ i < place  BY <1>2
    <3> QED  BY <2>1, <3>1 DEF Descending, n
  <2> QED  BY <1>2, <1>3, <1>4, <2>1, <2>2
<1>7. Descending(new)
  <2> SUFFICES ASSUME NEW i \in 1 .. n + 1, NEW j \in 1 .. n + 1, i < j  PROVE new[i].score >= new[j].score
    BY <1>2 DEF Descending
  <2>1. CASE i \in 1 .. place /\ j \in 1 .. place
    BY <1>2, <1>6, <2>1 DEF Descending, n
  <2>2. CASE i \in 1 .. place /\ j = place + 1  BY <1>2, <1>6, <2>2
  <2>3. ASSUME i \in 1 .. place, NEW k \in place + 1 .. n, j = k + 1  PROVE new[i].score >= new[j].score
    <3>1. i \in 1 .. n /\ k \in 1 .. n /\ i < k  BY <1>0, <1>2, <2>3
    <3> QED  BY <1>2, <2>3, <3>1 DEF Descending, n
  <2>4. ASSUME i = place + 1, NEW k \in place + 1 .. n, j = k + 1  PROVE new[i].score >= new[j].score
    <3>1. k \in 1 .. n  BY <1>0, <1>2
    <3>2. new[j] = old[k] /\ old[k].score < e.score /\ new[i] = e  BY <1>2, <2>4
    <3> QED  BY <1>3, <1>4, <3>1, <3>2
  <2>5. ASSUME NEW l \in place + 1 .. n, i = l + 1, NEW k \in place + 1 .. n, j = k + 1
        PROVE  new[i].score >= new[j].score
    <3>1. l \in 1 .. n /\ k \in 1 .. n /\ l < k  BY <1>0, <1>2, <2>5
    <3> QED  BY <1>2, <2>5, <3>1 DEF Descending, n
  <2>6. i \in 1 .. place => j \in 1 .. place \/ j = place + 1 \/ \E k \in place + 1 .. n : j = k + 1  BY <1>5
  <2>7. i = place + 1 => \E k \in place + 1 .. n : j = k + 1
    <3>1. i = place + 1 => j \notin 1 .. place /\ j # place + 1  BY <1>2
    <3> QED  BY <1>5, <3>1
  <2>8. (\E l \in place + 1 .. n : i = l + 1) => \E k \in place + 1 .. n : j = k + 1
    <3>1. (\E l \in place + 1 .. n : i = l + 1) => j \notin 1 .. place /\ j # place + 1  BY <1>2
    <3> QED  BY <1>5, <3>1
  <2> QED  BY <1>5, <2>1, <2>2, <2>3, <2>4, <2>5, <2>6, <2>7, <2>8
<1>8. SameWith(new, old, e)
  <2>1. ASSUME NEW i \in 1 .. n + 1  PROVE new[i] = e \/ \E j \in 1 .. n : new[i] = old[j]
    <3>1. CASE i \in 1 .. place  BY <1>2, <1>6, <3>1
    <3>2. CASE i = place + 1  BY <1>2, <3>2
    <3>3. ASSUME NEW j \in place + 1 .. n, i = j + 1  PROVE \E k \in 1 .. n : new[i] = old[k]
      <4>1. j \in 1 .. n  BY <1>2
      <4> QED  BY <1>2, <3>3, <4>1
    <3> QED  BY <1>5, <3>1, <3>2, <3>3
  <2>2. ASSUME NEW j \in 1 .. n  PROVE \E i \in 1 .. n + 1 : new[i] = old[j]
    <3>1. CASE j \in 1 .. place
      <4>1. j \in 1 .. n + 1  BY <1>0
      <4> QED  BY <1>2, <3>1, <4>1
    <3>2. CASE j \in place + 1 .. n
      <4>1. j + 1 \in 1 .. n + 1  BY <1>0
      <4> QED  BY <1>2, <3>2, <4>1
    <3>3. j \in 1 .. place \/ j \in place + 1 .. n  BY <1>0, <1>2
    <3> QED  BY <3>1, <3>2, <3>3
  <2>3. place + 1 \in 1 .. n + 1 /\ new[place + 1] = e  BY <1>0, <1>2
  <2> QED  BY <1>2, <2>1, <2>2, <2>3 DEF SameWith, n
<1> QED  BY <1>2, <1>7, <1>8 DEF new

Sorted(found) == FoldLeft(Ranked, <<>>, found)

RankStep(found) == [z \in (1 .. Len(found)) \X Seq(FoundFile) |-> Ranked(z[2], found[z[1]])]

RankFold(iter, found) ==
  iter = [s \in SUBSET DOMAIN found |-> IF s = {} THEN <<>> ELSE Ranked(iter[s \ {Max(s)}], found[Max(s)])]

(* The sorting of the candidates is a loop over them.                      *)
LEMMA SortHasRun ==
  ASSUME NEW found \in Seq(FoundFile)
  PROVE  \E g : Loops(g, Len(found), Seq(FoundFile), <<>>, RankStep(found)) /\ Sorted(found) = g[Len(found)]
<1> DEFINE n == Len(found)
           V == Seq(FoundFile)
           step == RankStep(found)
<1>0. n \in Nat /\ DOMAIN found = 1 .. n /\ (\A i \in 1 .. n : found[i] \in FoundFile) /\ <<>> \in V  OBVIOUS
<1>1. \A i \in 1 .. n : \A v \in V : Ranked(v, found[i]) \in V
  <2> SUFFICES ASSUME NEW i \in 1 .. n, NEW v \in V  PROVE Ranked(v, found[i]) \in V
    OBVIOUS
  <2>1. found[i] \in FoundFile  BY <1>0
  <2>2. PICK place : RankedAt(Ranked(v, found[i]), v, found[i], place)  BY <2>1, RankedTyped
  <2> QED  BY <2>2 DEF RankedAt
<1> HIDE DEF n, V
<1>2. step \in [(1 .. n) \X V -> V] /\ \A i \in 1 .. n : \A v \in V : step[<<i, v>>] = Ranked(v, found[i])
  BY <1>1 DEF RankStep, n, V
<1> HIDE DEF step
<1>3. PICK h : Folds(h, n, V, <<>>, step)  BY <1>0, <1>2, FoldExists
<1>4. h \in [SUBSET (1 .. n) -> V]  BY <1>3 DEF Folds
<1>5. ASSUME NEW s \in SUBSET (1 .. n), s # {}  PROVE Max(s) \in 1 .. n /\ s \ {Max(s)} \in SUBSET (1 .. n)
  <2>1. s \in SUBSET (0 .. n)  BY <1>0
  <2>2. Max(s) \in s  BY <1>0, <1>5, <2>1, HasMax
  <2> QED  BY <2>2
<1>6. RankFold(h, found)
  <2>1. ASSUME NEW s \in SUBSET (1 .. n)
        PROVE  h[s] = IF s = {} THEN <<>> ELSE Ranked(h[s \ {Max(s)}], found[Max(s)])
    <3>1. CASE s = {}  BY <1>3, <3>1 DEF Folds
    <3>2. CASE s # {}
      <4>1. Max(s) \in 1 .. n /\ h[s \ {Max(s)}] \in V  BY <1>4, <1>5, <3>2
      <4>2. h[s] = step[<<Max(s), h[s \ {Max(s)}]>>]  BY <1>3, <3>2 DEF Folds
      <4> QED  BY <1>2, <3>2, <4>1, <4>2
    <3> QED  BY <3>1, <3>2
  <2> QED  BY <1>0, <1>4, <2>1 DEF RankFold
<1> DEFINE iter == CHOOSE k : RankFold(k, found)
<1>7. RankFold(iter, found)  BY <1>6
<1>8. Sorted(found) = iter[DOMAIN found]  BY DEF Sorted, FoldLeft, MapThenFoldSet, RankFold
<1> HIDE DEF iter
<1>9. FoldsAs(iter, n, V, <<>>, step)
  <2>1. iter[{}] = <<>>  BY <1>0, <1>7 DEF RankFold
  <2>2. ASSUME NEW s \in SUBSET (1 .. n), s # {}, iter[s \ {Max(s)}] \in V
        PROVE  iter[s] = step[<<Max(s), iter[s \ {Max(s)}]>>]
    <3>1. iter[s] = Ranked(iter[s \ {Max(s)}], found[Max(s)])  BY <1>0, <1>7, <2>2 DEF RankFold
    <3>2. Max(s) \in 1 .. n  BY <1>5, <2>2
    <3> QED  BY <1>2, <2>2, <3>1, <3>2
  <2> QED  BY <2>1, <2>2 DEF FoldsAs
<1>a. LoopsTo(iter, n, V, <<>>, step)  BY <1>0, <1>2, <1>9, FoldLoops
<1>10. PICK g : Loops(g, n, V, <<>>, step) /\ g[n] = iter[1 .. n]  BY <1>a DEF LoopsTo
<1>11. Sorted(found) = g[n]  BY <1>0, <1>8, <1>10
<1> QED  BY <1>10, <1>11 DEF n, step, V

(* s holds the first m of the candidates.                                  *)
Holds(s, found, m) ==
  /\ \A i \in 1 .. Len(s) : \E j \in 1 .. m : s[i] = found[j]
  /\ \A j \in 1 .. m : \E i \in 1 .. Len(s) : s[i] = found[j]

(* Sorted, the candidates are the same, those with a higher score first.   *)
LEMMA SortedIs ==
  ASSUME NEW found \in Seq(FoundFile)
  PROVE  /\ Sorted(found) \in Seq(FoundFile) /\ Descending(Sorted(found))
         /\ Holds(Sorted(found), found, Len(found))
<1> DEFINE n == Len(found)
<1>0. n \in Nat /\ \A i \in 1 .. n : found[i] \in FoundFile  OBVIOUS
<1>1. PICK g : Loops(g, n, Seq(FoundFile), <<>>, RankStep(found)) /\ Sorted(found) = g[n]  BY SortHasRun
<1>s. \A i \in 1 .. n : \A v \in Seq(FoundFile) : RankStep(found)[<<i, v>>] = Ranked(v, found[i])  BY DEF RankStep
<1> HIDE DEF n
<1>2. /\ g \in [0 .. n -> Seq(FoundFile)] /\ g[0] = <<>>
      /\ \A i \in 1 .. n : g[i] = RankStep(found)[<<i, g[i - 1]>>]
  BY <1>1 DEF Loops
<1> DEFINE S == {i \in Nat : i <= n => Descending(g[i]) /\ Holds(g[i], found, i)}
<1>3. 0 \in S
  <2>1. Len(g[0]) = 0  BY <1>2
  <2>2. 1 .. 0 = {}  OBVIOUS
  <2> QED  BY <2>1, <2>2 DEF Descending, Holds
<1>4. ASSUME NEW i \in Nat, i \in S  PROVE i + 1 \in S
  <2> SUFFICES ASSUME i + 1 <= n  PROVE Descending(g[i + 1]) /\ Holds(g[i + 1], found, i + 1)
    OBVIOUS
  <2>1. i + 1 \in 1 .. n /\ i <= n /\ (i + 1) - 1 = i /\ i \in 0 .. n  BY <1>0
  <2>2. Descending(g[i]) /\ Holds(g[i], found, i) /\ g[i] \in Seq(FoundFile)  BY <1>2, <1>4, <2>1
  <2>3. g[i + 1] = Ranked(g[i], found[i + 1])  BY <1>s, <1>2, <2>1, <2>2
  <2>4. found[i + 1] \in FoundFile  BY <1>0, <2>1
  <2>5. Descending(g[i + 1]) /\ SameWith(g[i + 1], g[i], found[i + 1])  BY <2>2, <2>3, <2>4, RankedKeeps
  <2>6. \A j \in 1 .. i : j \in 1 .. i + 1  OBVIOUS
  <2>7. i + 1 \in 1 .. i + 1  OBVIOUS
  <2>8. \A j \in 1 .. i + 1 : j \in 1 .. i \/ j = i + 1  OBVIOUS
  <2>9. \A p \in 1 .. Len(g[i + 1]) : \E j \in 1 .. i + 1 : g[i + 1][p] = found[j]
    BY <2>2, <2>5, <2>6, <2>7 DEF Holds, SameWith
  <2>10. \A j \in 1 .. i + 1 : \E p \in 1 .. Len(g[i + 1]) : g[i + 1][p] = found[j]
    <3> SUFFICES ASSUME NEW j \in 1 .. i + 1  PROVE \E p \in 1 .. Len(g[i + 1]) : g[i + 1][p] = found[j]
      OBVIOUS
    <3>1. CASE j = i + 1  BY <2>5, <3>1 DEF SameWith
    <3>2. CASE j \in 1 .. i
      <4>1. PICK p \in 1 .. Len(g[i]) : g[i][p] = found[j]  BY <2>2, <3>2 DEF Holds
      <4>2. PICK q \in 1 .. Len(g[i + 1]) : g[i + 1][q] = g[i][p]  BY <2>5 DEF SameWith
      <4> QED  BY <4>1, <4>2
    <3> QED  BY <2>8, <3>1, <3>2
  <2> QED  BY <2>5, <2>9, <2>10 DEF Holds
<1>5. Nat \subseteq S
  <2> HIDE DEF S
  <2> QED  BY <1>3, <1>4, NatInd
<1>6. n \in S
  <2> HIDE DEF S
  <2> QED  BY <1>0, <1>5
<1>7. n \in 0 .. n /\ n <= n  BY <1>0
<1> QED  BY <1>0, <1>1, <1>2, <1>6, <1>7 DEF n

-------------------------------------------------------------------------------
(* What is shown of the sorted candidates.                                 *)
Full(files, limit) == Len(files) >= limit \/ Total(files) >= MaxContext

(* x is e, or as much of it as there is room for.                          *)
CutFrom(x, e) ==
  /\ x.file = e.file /\ x.start = e.start /\ x.score = e.score /\ x.of = e.of
  /\ \E k \in Nat : k <= Len(e.content) /\ x.content = SubSeq(e.content, 1, k)

Added(new, files, e) ==
  LET last == Len(files) + 1 IN
  /\ new \in Seq(FoundFile) /\ Len(new) = last /\ Total(new) <= MaxContext
  /\ \A i \in 1 .. Len(files) : new[i] = files[i]
  /\ CutFrom(new[last], e)
  /\ Total(files) + Len(e.content) <= MaxContext => new[last].content = e.content

(* What is added is the candidate, cut to the room there is, and the limit *)
(* is kept.                                                                *)
LEMMA AddOne ==
  ASSUME NEW files \in Seq(FoundFile), NEW e \in FoundFile, NEW limit \in Nat, ~Full(files, limit)
  PROVE  Added(Add(files, e, limit), files, e)
<1> DEFINE room == MaxContext - Total(files)
           size == Len(e.content)
           k == Min({size, room})
           x == [e EXCEPT !.content = SubSeq(@, 1, k)]
           new == Add(files, e, limit)
<1>0. MaxContext \in Nat /\ Total(files) \in Nat /\ size \in Nat /\ e.content \in Seq(Symbol) /\ Len(files) \in Nat
  <2>1. MaxContext \in Nat  BY ReadsAssumption
  <2>2. Total(files) \in Nat  BY TotalOf
  <2>3. e.content \in Seq(Symbol)  BY DEF FoundFile
  <2> QED  BY <2>1, <2>2, <2>3
<1>1. ~(Len(files) >= limit \/ Total(files) >= MaxContext)  BY DEF Full
<1>2. new = Append(files, x)  BY <1>1 DEF Add
<1>3. room \in Nat  BY <1>0, <1>1
<1> HIDE DEF room, size
<1>4. k \in Nat /\ k <= size /\ k <= room /\ (size <= room => k = size)
  <2>1. k = IF size <= room THEN size ELSE room  BY <1>0, <1>3, MinOfTwo
  <2> HIDE DEF k
  <2> QED  BY <1>0, <1>3, <2>1
<1> HIDE DEF k
<1> DEFINE part == SubSeq(e.content, 1, k)
<1>5. part \in Seq(Symbol) /\ Len(part) = k
  <2>1. 1 <= k + 1 /\ k <= Len(e.content)  BY <1>4 DEF size
  <2>2. part \in Seq(Symbol) /\ Len(part) = k - 1 + 1  BY <1>0, <1>4, <2>1, PartOf
  <2> QED  BY <1>4, <2>2
<1>6. x \in FoundFile /\ x.content = part  BY <1>5 DEF FoundFile
<1>7. x.file = e.file /\ x.start = e.start /\ x.score = e.score /\ x.of = e.of  BY DEF FoundFile
<1>8. k = size => part = e.content
  <2>1. SubSeq(e.content, 1, Len(e.content)) = e.content  BY <1>0
  <2> QED  BY <2>1 DEF size
<1> HIDE DEF x, part, new
<1>9. CutFrom(x, e)
  <2>1. k <= Len(e.content)  BY <1>4 DEF size
  <2> QED  BY <1>4, <1>6, <1>7, <2>1 DEF CutFrom, part
<1>10. /\ new \in Seq(FoundFile) /\ Len(new) = Len(files) + 1 /\ new[Len(files) + 1] = x
       /\ \A i \in 1 .. Len(files) : new[i] = files[i]
  BY <1>2, <1>6, AppendProperties
<1>11. Total(new) <= MaxContext
  <2>1. Total(new) = Total(files) + Len(x.content)  BY <1>2, <1>6, TotalOf
  <2>2. Len(x.content) = k  BY <1>5, <1>6
  <2> QED  BY <1>0, <1>3, <1>4, <2>1, <2>2 DEF room
<1>12. Total(files) + Len(e.content) <= MaxContext => x.content = e.content
  <2>1. Total(files) + size <= MaxContext => size <= room  BY <1>0 DEF room
  <2> QED  BY <1>4, <1>6, <1>8, <2>1 DEF size
<1> QED  BY <1>9, <1>10, <1>11, <1>12 DEF Added, new

Shown(sorted, preferred, limit) ==
  FoldLeft(LAMBDA files, e : IF e \in preferred THEN Add(files, e, limit) ELSE files, <<>>, sorted)

ShowStep(sorted, preferred, limit) ==
  [z \in (1 .. Len(sorted)) \X Seq(FoundFile) |->
     IF sorted[z[1]] \in preferred THEN Add(z[2], sorted[z[1]], limit) ELSE z[2]]

ShowFold(iter, sorted, preferred, limit) ==
  iter = [s \in SUBSET DOMAIN sorted |->
            IF s = {} THEN <<>>
            ELSE IF sorted[Max(s)] \in preferred THEN Add(iter[s \ {Max(s)}], sorted[Max(s)], limit)
            ELSE iter[s \ {Max(s)}]]

(* Best is a loop over the sorted candidates.                              *)
LEMMA ShowHasRun ==
  ASSUME NEW sorted \in Seq(FoundFile), NEW preferred, NEW limit \in Nat
  PROVE  \E g : /\ Loops(g, Len(sorted), Seq(FoundFile), <<>>, ShowStep(sorted, preferred, limit))
                /\ Shown(sorted, preferred, limit) = g[Len(sorted)]
<1> DEFINE n == Len(sorted)
           V == Seq(FoundFile)
           step == ShowStep(sorted, preferred, limit)
           Next1(v, i) == IF sorted[i] \in preferred THEN Add(v, sorted[i], limit) ELSE v
<1>0. n \in Nat /\ DOMAIN sorted = 1 .. n /\ (\A i \in 1 .. n : sorted[i] \in FoundFile) /\ <<>> \in V  OBVIOUS
<1>1. \A i \in 1 .. n : \A v \in V : Next1(v, i) \in V
  <2> SUFFICES ASSUME NEW i \in 1 .. n, NEW v \in V, sorted[i] \in preferred  PROVE Add(v, sorted[i], limit) \in V
    OBVIOUS
  <2>1. sorted[i] \in FoundFile  BY <1>0
  <2>2. CASE Full(v, limit)  BY <2>2 DEF Full, Add
  <2>3. CASE ~Full(v, limit)
    <3>1. Added(Add(v, sorted[i], limit), v, sorted[i])  BY <2>1, <2>3, AddOne
    <3> QED  BY <3>1 DEF Added
  <2> QED  BY <2>2, <2>3
<1> HIDE DEF n, V
<1>2. step \in [(1 .. n) \X V -> V] /\ \A i \in 1 .. n : \A v \in V : step[<<i, v>>] = Next1(v, i)
  BY <1>1 DEF ShowStep, n, V
<1> HIDE DEF step
<1>3. PICK h : Folds(h, n, V, <<>>, step)  BY <1>0, <1>2, FoldExists
<1>4. h \in [SUBSET (1 .. n) -> V]  BY <1>3 DEF Folds
<1>5. ASSUME NEW s \in SUBSET (1 .. n), s # {}  PROVE Max(s) \in 1 .. n /\ s \ {Max(s)} \in SUBSET (1 .. n)
  <2>1. s \in SUBSET (0 .. n)  BY <1>0
  <2>2. Max(s) \in s  BY <1>0, <1>5, <2>1, HasMax
  <2> QED  BY <2>2
<1>6. ShowFold(h, sorted, preferred, limit)
  <2>1. ASSUME NEW s \in SUBSET (1 .. n)
        PROVE  h[s] = IF s = {} THEN <<>> ELSE Next1(h[s \ {Max(s)}], Max(s))
    <3>1. CASE s = {}  BY <1>3, <3>1 DEF Folds
    <3>2. CASE s # {}
      <4>1. Max(s) \in 1 .. n /\ h[s \ {Max(s)}] \in V  BY <1>4, <1>5, <3>2
      <4>2. h[s] = step[<<Max(s), h[s \ {Max(s)}]>>]  BY <1>3, <3>2 DEF Folds
      <4> HIDE DEF Next1
      <4> QED  BY <1>2, <3>2, <4>1, <4>2
    <3> QED  BY <3>1, <3>2
  <2> QED  BY <1>0, <1>4, <2>1 DEF ShowFold
<1> DEFINE iter == CHOOSE k : ShowFold(k, sorted, preferred, limit)
<1>7. ShowFold(iter, sorted, preferred, limit)  BY <1>6
<1>8. Shown(sorted, preferred, limit) = iter[DOMAIN sorted]  BY DEF Shown, FoldLeft, MapThenFoldSet, ShowFold
<1> HIDE DEF iter
<1>9. FoldsAs(iter, n, V, <<>>, step)
  <2>1. iter[{}] = <<>>  BY <1>0, <1>7 DEF ShowFold
  <2>2. ASSUME NEW s \in SUBSET (1 .. n), s # {}, iter[s \ {Max(s)}] \in V
        PROVE  iter[s] = step[<<Max(s), iter[s \ {Max(s)}]>>]
    <3>1. iter[s] = Next1(iter[s \ {Max(s)}], Max(s))  BY <1>0, <1>7, <2>2 DEF ShowFold
    <3>2. Max(s) \in 1 .. n  BY <1>5, <2>2
    <3> HIDE DEF Next1
    <3> QED  BY <1>2, <2>2, <3>1, <3>2
  <2> QED  BY <2>1, <2>2 DEF FoldsAs
<1>a. LoopsTo(iter, n, V, <<>>, step)  BY <1>0, <1>2, <1>9, FoldLoops
<1>10. PICK g : Loops(g, n, V, <<>>, step) /\ g[n] = iter[1 .. n]  BY <1>a DEF LoopsTo
<1>11. Shown(sorted, preferred, limit) = g[n]  BY <1>0, <1>8, <1>10
<1> QED  BY <1>10, <1>11 DEF n, step, V

(* files is what is shown once m of the candidates have been considered.   *)
Taken(files, sorted, preferred, limit, m) ==
  /\ files \in Seq(FoundFile) /\ Len(files) <= limit /\ Total(files) <= MaxContext
  /\ \A i \in 1 .. Len(files) : \E j \in 1 .. m : sorted[j] \in preferred /\ CutFrom(files[i], sorted[j])
  /\ \A j \in 1 .. m : sorted[j] \in preferred =>
       \/ \E i \in 1 .. Len(files) : files[i].file = sorted[j].file
       \/ Full(files, limit) /\ \A i \in 1 .. Len(files) : files[i].score >= sorted[j].score
  /\ files # <<>> /\ MaxContext >= MaxExcerpt =>
       \E j \in 1 .. m : files[1].content = sorted[j].content /\ files[1].of = sorted[j].of

(* One candidate more: what was left out before stays out, for it is full, *)
(* and the scores only fall.                                               *)
LEMMA TakenStep ==
  ASSUME NEW sorted \in Seq(FoundFile), NEW preferred, NEW limit \in Nat, NEW m \in Nat, m + 1 <= Len(sorted),
         Descending(sorted), \A i \in 1 .. Len(sorted) : Len(sorted[i].content) <= MaxExcerpt,
         NEW files, Taken(files, sorted, preferred, limit, m)
  PROVE  Taken(IF sorted[m + 1] \in preferred THEN Add(files, sorted[m + 1], limit) ELSE files,
               sorted, preferred, limit, m + 1)
<1> DEFINE e == sorted[m + 1]
           k == Len(files)
<1>0. /\ m + 1 \in 1 .. Len(sorted) /\ (\A j \in 1 .. m : j \in 1 .. m + 1 /\ j \in 1 .. Len(sorted) /\ j < m + 1)
      /\ m + 1 \in 1 .. m + 1 /\ (\A j \in 1 .. m + 1 : j \in 1 .. m \/ j = m + 1)
  OBVIOUS
<1>1. e \in FoundFile /\ files \in Seq(FoundFile)  BY <1>0 DEF Taken
<1>2. k \in Nat /\ MaxContext \in Nat /\ MaxExcerpt \in Nat  BY <1>1, ReadsAssumption
<1>3. ASSUME sorted[m + 1] \notin preferred  PROVE Taken(files, sorted, preferred, limit, m + 1)
  <2>1. \A j \in 1 .. m + 1 : sorted[j] \in preferred => j \in 1 .. m  BY <1>0, <1>3
  <2> QED  BY <1>0, <2>1 DEF Taken
<1>4. ASSUME sorted[m + 1] \in preferred, Full(files, limit)  PROVE Taken(files, sorted, preferred, limit, m + 1)
  <2>1. ASSUME NEW i \in 1 .. k  PROVE files[i].score >= e.score
    <3>1. PICK j \in 1 .. m : CutFrom(files[i], sorted[j])  BY DEF Taken
    <3>2. files[i].score = sorted[j].score  BY <3>1 DEF CutFrom
    <3>3. sorted[j].score >= sorted[m + 1].score  BY <1>0 DEF Descending
    <3> QED  BY <3>2, <3>3
  <2>2. \A j \in 1 .. m + 1 : sorted[j] \in preferred =>
          \/ \E i \in 1 .. Len(files) : files[i].file = sorted[j].file
          \/ Full(files, limit) /\ \A i \in 1 .. Len(files) : files[i].score >= sorted[j].score
    <3> SUFFICES ASSUME NEW j \in 1 .. m + 1, sorted[j] \in preferred
                 PROVE  \/ \E i \in 1 .. Len(files) : files[i].file = sorted[j].file
                        \/ Full(files, limit) /\ \A i \in 1 .. Len(files) : files[i].score >= sorted[j].score
      OBVIOUS
    <3>1. CASE j \in 1 .. m  BY <3>1 DEF Taken
    <3>2. CASE j = m + 1  BY <1>4, <2>1, <3>2
    <3> QED  BY <1>0, <3>1, <3>2
  <2> QED  BY <1>0, <2>2 DEF Taken
<1>5. ASSUME sorted[m + 1] \in preferred, ~Full(files, limit)
      PROVE  Taken(Add(files, e, limit), sorted, preferred, limit, m + 1)
  <2> DEFINE new == Add(files, e, limit)
  <2>1. Added(new, files, e)  BY <1>1, <1>5, AddOne
  <2> HIDE DEF new
  <2>2. /\ new \in Seq(FoundFile) /\ Len(new) = k + 1 /\ Total(new) <= MaxContext
        /\ \A i \in 1 .. k : new[i] = files[i]
        /\ CutFrom(new[k + 1], e)
        /\ Total(files) + Len(e.content) <= MaxContext => new[k + 1].content = e.content
    BY <2>1 DEF Added
  <2>3. k < limit
    <3>1. ~(k >= limit)  BY <1>5 DEF Full
    <3> QED  BY <1>2, <3>1
  <2>4. (\A i \in 1 .. k : i \in 1 .. k + 1) /\ k + 1 \in 1 .. k + 1 /\ \A i \in 1 .. k + 1 : i \in 1 .. k \/ i = k + 1
    BY <1>2
  <2>5. Len(new) <= limit  BY <1>2, <2>2, <2>3
  <2>6. ASSUME NEW i \in 1 .. k + 1
        PROVE  \E j \in 1 .. m + 1 : sorted[j] \in preferred /\ CutFrom(new[i], sorted[j])
    <3>1. CASE i \in 1 .. k
      <4>1. PICK j \in 1 .. m : sorted[j] \in preferred /\ CutFrom(files[i], sorted[j])  BY <3>1 DEF Taken
      <4> QED  BY <1>0, <2>2, <3>1, <4>1
    <3>2. CASE i = k + 1  BY <1>0, <1>5, <2>2, <3>2
    <3> QED  BY <2>4, <3>1, <3>2
  <2>7. ASSUME NEW j \in 1 .. m + 1, sorted[j] \in preferred  PROVE \E i \in 1 .. k + 1 : new[i].file = sorted[j].file
    <3>1. CASE j \in 1 .. m
      <4>1. PICK i \in 1 .. k : files[i].file = sorted[j].file  BY <1>5, <2>7, <3>1 DEF Taken
      <4> QED  BY <2>2, <2>4, <4>1
    <3>2. CASE j = m + 1
      <4>1. new[k + 1].file = e.file  BY <2>2 DEF CutFrom
      <4> QED  BY <2>4, <3>2, <4>1
    <3> QED  BY <1>0, <3>1, <3>2
  <2>8. MaxContext >= MaxExcerpt => \E j \in 1 .. m + 1 : new[1].content = sorted[j].content /\ new[1].of = sorted[j].of
    <3> SUFFICES ASSUME MaxContext >= MaxExcerpt
                 PROVE  \E j \in 1 .. m + 1 : new[1].content = sorted[j].content /\ new[1].of = sorted[j].of
      OBVIOUS
    <3>1. CASE files = <<>>
      <4>1. k = 0 /\ Total(files) = 0  BY <3>1, TotalOf
      <4>2. Len(e.content) <= MaxExcerpt  BY <1>0
      <4>3. Len(e.content) \in Nat
        <5>1. e.content \in Seq(Symbol)  BY <1>1 DEF FoundFile
        <5> QED  BY <5>1
      <4> HIDE DEF e, k
      <4>4. Total(files) + Len(e.content) <= MaxContext  BY <1>2, <4>1, <4>2, <4>3
      <4>5. new[1].content = e.content /\ new[1].of = e.of
        <5>1. k + 1 = 1  BY <4>1
        <5> QED  BY <2>2, <4>4, <5>1 DEF CutFrom
      <4> QED  BY <1>0, <4>5 DEF e
    <3>2. CASE files # <<>>
      <4>1. 1 \in 1 .. k
        <5>1. k # 0  BY <1>1, <3>2
        <5> HIDE DEF k
        <5> QED  BY <1>2, <5>1
      <4>2. PICK j \in 1 .. m : files[1].content = sorted[j].content /\ files[1].of = sorted[j].of  BY <3>2 DEF Taken
      <4>3. new[1] = files[1]  BY <2>2, <4>1
      <4> QED  BY <1>0, <4>2, <4>3
    <3> QED  BY <3>1, <3>2
  <2> QED  BY <2>2, <2>5, <2>6, <2>7, <2>8 DEF Taken, new
<1>6. Full(files, limit) => Add(files, e, limit) = files  BY DEF Full, Add
<1> QED  BY <1>3, <1>4, <1>5, <1>6

(* So it is when all have been considered.                                 *)
LEMMA ShownIs ==
  ASSUME NEW sorted \in Seq(FoundFile), NEW preferred, NEW limit \in Nat, Descending(sorted),
         \A i \in 1 .. Len(sorted) : Len(sorted[i].content) <= MaxExcerpt
  PROVE  Taken(Shown(sorted, preferred, limit), sorted, preferred, limit, Len(sorted))
<1> DEFINE n == Len(sorted)
           step == ShowStep(sorted, preferred, limit)
<1>0. n \in Nat  OBVIOUS
<1>1. PICK g : Loops(g, n, Seq(FoundFile), <<>>, step) /\ Shown(sorted, preferred, limit) = g[n]  BY ShowHasRun
<1>s. \A i \in 1 .. n : \A v \in Seq(FoundFile) :
        step[<<i, v>>] = IF sorted[i] \in preferred THEN Add(v, sorted[i], limit) ELSE v
  BY DEF ShowStep
<1> HIDE DEF step, n
<1>2. /\ g \in [0 .. n -> Seq(FoundFile)] /\ g[0] = <<>> /\ \A i \in 1 .. n : g[i] = step[<<i, g[i - 1]>>]
  BY <1>1 DEF Loops
<1> DEFINE S == {i \in Nat : i <= n => Taken(g[i], sorted, preferred, limit, i)}
<1>3. 0 \in S
  <2>1. g[0] = <<>> /\ Len(g[0]) = 0 /\ Total(g[0]) = 0 /\ g[0] \in Seq(FoundFile)  BY <1>2, TotalOf
  <2>2. 1 .. 0 = {}  OBVIOUS
  <2>3. MaxContext \in Nat  BY ReadsAssumption
  <2>4. 0 <= limit /\ 0 <= MaxContext  BY <2>3
  <2> QED  BY <2>1, <2>2, <2>4 DEF Taken
<1>4. ASSUME NEW i \in Nat, i \in S  PROVE i + 1 \in S
  <2> SUFFICES ASSUME i + 1 <= n  PROVE Taken(g[i + 1], sorted, preferred, limit, i + 1)
    OBVIOUS
  <2>1. i + 1 \in 1 .. n /\ i <= n /\ (i + 1) - 1 = i /\ i \in 0 .. n  BY <1>0
  <2>2. Taken(g[i], sorted, preferred, limit, i) /\ g[i] \in Seq(FoundFile)  BY <1>2, <1>4, <2>1
  <2>3. g[i + 1] = IF sorted[i + 1] \in preferred THEN Add(g[i], sorted[i + 1], limit) ELSE g[i]
    BY <1>s, <1>2, <2>1, <2>2
  <2>4. i + 1 <= Len(sorted)  BY DEF n
  <2>5. Taken(IF sorted[i + 1] \in preferred THEN Add(g[i], sorted[i + 1], limit) ELSE g[i],
              sorted, preferred, limit, i + 1)
    BY <2>2, <2>4, TakenStep
  <2> QED  BY <2>3, <2>5
<1>5. Nat \subseteq S
  <2> HIDE DEF S
  <2> QED  BY <1>3, <1>4, NatInd
<1>6. n \in S
  <2> HIDE DEF S
  <2> QED  BY <1>0, <1>5
<1>7. n <= n  BY <1>0
<1>8. Taken(g[n], sorted, preferred, limit, n)  BY <1>6, <1>7
<1> QED  BY <1>1, <1>8 DEF n

(* What Best shows of the candidates.                                      *)
Chosen(files, found, query) ==
  /\ files \in Seq(FoundFile) /\ Total(files) <= MaxContext
  /\ \A i \in 1 .. Len(files) : \E j \in 1 .. Len(found) : CutFrom(files[i], found[j])
  /\ \A j \in 1 .. Len(found) : found[j] \in Preferred(found, query) =>
       \/ \E i \in 1 .. Len(files) : files[i].file = found[j].file
       \/ /\ Len(files) = LimitOf(query) \/ Total(files) = MaxContext
          /\ \A i \in 1 .. Len(files) : files[i].score >= found[j].score
  /\ files # <<>> /\ MaxContext >= MaxExcerpt =>
       \E j \in 1 .. Len(found) : files[1].content = found[j].content /\ files[1].of = found[j].of

(* Neither the sorting nor the cuts lose a better file.                    *)
LEMMA BestIs ==
  ASSUME NEW found \in Seq(FoundFile), NEW query,
         \A i \in 1 .. Len(found) : Len(found[i].content) <= MaxExcerpt
  PROVE  Chosen(Best(found, query), found, query)
<1> DEFINE sorted == Sorted(found)
           preferred == Preferred(found, query)
           limit == LimitOf(query)
           files == Best(found, query)
<1>1. limit \in Nat
  <2>1. MaxContextFiles \in Nat  BY ReadsAssumption
  <2> QED  BY <2>1 DEF LimitOf
<1>2. files = Shown(sorted, preferred, limit)  BY DEF Best, Shown, Sorted
<1>3. sorted \in Seq(FoundFile) /\ Descending(sorted) /\ Holds(sorted, found, Len(found))  BY SortedIs
<1> HIDE DEF sorted, preferred, limit, files
<1>4. \A i \in 1 .. Len(sorted) : Len(sorted[i].content) <= MaxExcerpt  BY <1>3 DEF Holds
<1>5. Taken(files, sorted, preferred, limit, Len(sorted))  BY <1>1, <1>2, <1>3, <1>4, ShownIs
<1>6. files \in Seq(FoundFile) /\ Total(files) <= MaxContext /\ Len(files) <= limit  BY <1>5 DEF Taken
<1>7. Full(files, limit) => Len(files) = limit \/ Total(files) = MaxContext
  <2>1. MaxContext \in Nat /\ Total(files) \in Nat /\ Len(files) \in Nat  BY <1>6, TotalOf, ReadsAssumption
  <2> QED  BY <1>1, <1>6, <2>1 DEF Full
<1>8. \A i \in 1 .. Len(files) : \E j \in 1 .. Len(found) : CutFrom(files[i], found[j])
  <2> SUFFICES ASSUME NEW i \in 1 .. Len(files)  PROVE \E j \in 1 .. Len(found) : CutFrom(files[i], found[j])
    OBVIOUS
  <2>1. PICK j \in 1 .. Len(sorted) : CutFrom(files[i], sorted[j])  BY <1>5 DEF Taken
  <2>2. PICK p \in 1 .. Len(found) : sorted[j] = found[p]  BY <1>3 DEF Holds
  <2> QED  BY <2>1, <2>2
<1>9. ASSUME NEW j \in 1 .. Len(found), found[j] \in preferred
      PROVE  \/ \E i \in 1 .. Len(files) : files[i].file = found[j].file
             \/ /\ Len(files) = limit \/ Total(files) = MaxContext
                /\ \A i \in 1 .. Len(files) : files[i].score >= found[j].score
  <2>1. PICK p \in 1 .. Len(sorted) : sorted[p] = found[j]  BY <1>3 DEF Holds
  <2> QED  BY <1>5, <1>7, <1>9, <2>1 DEF Taken
<1>10. files # <<>> /\ MaxContext >= MaxExcerpt =>
         \E j \in 1 .. Len(found) : files[1].content = found[j].content /\ files[1].of = found[j].of
  <2> SUFFICES ASSUME files # <<>>, MaxContext >= MaxExcerpt
               PROVE  \E j \in 1 .. Len(found) : files[1].content = found[j].content /\ files[1].of = found[j].of
    OBVIOUS
  <2>1. PICK j \in 1 .. Len(sorted) : files[1].content = sorted[j].content /\ files[1].of = sorted[j].of
    BY <1>5 DEF Taken
  <2>2. PICK p \in 1 .. Len(found) : sorted[j] = found[p]  BY <1>3 DEF Holds
  <2> QED  BY <2>1, <2>2
<1> QED  BY <1>6, <1>8, <1>9, <1>10 DEF Chosen, files, preferred, limit

-------------------------------------------------------------------------------
(* Context.                                                                *)
Drawn(e, tokens) ==
  /\ e.of \in Texts
  /\ SliceWith(e.of, e.content, e.start) /\ e.content = Excerpt(e.of, tokens).content

Asking ==
  [kind : {"context"}, todo : Seq(File), query : Queries, tokens : SUBSET (Seq(Symbol) \ {<<>>}),
   found : Seq(FoundFile), files : Seq(FoundFile)]

ContextKept(r) ==
  /\ r \in Asking /\ IsFiniteSet(r.tokens)
  /\ \A i \in 1 .. Len(r.found) : Drawn(r.found[i], r.tokens)
  /\ r.todo = <<>> => Chosen(r.files, r.found, r.query)

ContextInv == reading.kind = "context" => ContextKept(reading)

(* The files have only the texts that they are saved with.                 *)
DiskInv == disk \in [File -> Texts]

(* Nothing else changes them here.                                         *)
LEMMA DiskInvStep == DiskInv /\ [ReadsNext]_readsVars => DiskInv'
<1> SUFFICES ASSUME DiskInv, [ReadsNext]_readsVars  PROVE DiskInv'
  OBVIOUS
<1>1. CASE UNCHANGED disk  BY <1>1 DEF DiskInv
<1>2. ASSUME NEW f \in File, NEW text \in Texts, EditFile(f, text)  PROVE DiskInv'
  BY <1>2 DEF EditFile, DiskInv
<1>3. Import \/ RestartWorkspaces => UNCHANGED disk  BY DEF Import, RestartWorkspaces
<1>4. ReadForContext \/ ReadForSearch => UNCHANGED disk  BY DEF ReadForContext, ReadForSearch, workVars
<1>5. \A query \in Queries : BeginContext(query) \/ BeginSearch(query.words) => UNCHANGED disk
  BY DEF BeginContext, BeginSearch, workVars
<1>6. \A f \in File : ReadFile(f) => UNCHANGED disk  BY DEF ReadFile, workVars
<1>7. \A path \in Entries : Tree(path) => UNCHANGED disk  BY DEF Tree, workVars
<1>8. UNCHANGED readsVars => UNCHANGED disk  BY DEF readsVars, workVars
<1> QED  BY <1>1, <1>2, <1>3, <1>4, <1>5, <1>6, <1>7, <1>8 DEF ReadsNext

(* A score is a number, for the words of a query are finitely many.        *)
LEMMA ScoreTyped ==
  ASSUME NEW f, NEW text, NEW tokens, IsFiniteSet(tokens)
  PROVE  Score(f, text, tokens) \in Nat
<1> DEFINE a == {token \in tokens : Range(token) \subseteq PathWords(f)}
           b == {token \in tokens : Has(ToLower(text), token)}
           c == IF f \in Manifest THEN 1 ELSE 0
<1>1. a \subseteq tokens /\ b \subseteq tokens  OBVIOUS
<1>2. Score(f, text, tokens) = 8 * Cardinality(a) + 2 * Cardinality(b) + c  BY DEF Score
<1>3. c \in Nat  OBVIOUS
<1> HIDE DEF a, b, c
<1>4. Cardinality(a) \in Nat /\ Cardinality(b) \in Nat  BY <1>1, FS_Subset, FS_CardinalityType
<1> QED  BY <1>2, <1>3, <1>4

(* So is the number of a line.                                             *)
LEMMA LineAtTyped ==
  ASSUME NEW text, NEW p \in Nat \ {0}
  PROVE  LineAt(text, p) \in Nat
<1>1. p - 1 \in Nat  OBVIOUS
<1>2. Cardinality(NewlinesIn(text, 1, p - 1)) \in Nat  BY <1>1, OneMoreNewline
<1> QED  BY <1>2 DEF LineAt

(* A candidate is drawn from the text that was read.                       *)
LEMMA CandidateIs ==
  ASSUME NEW f \in File, disk[f] \in Texts, reading.tokens \subseteq Seq(Symbol), IsFiniteSet(reading.tokens)
  PROVE  Candidate(f) \in FoundFile /\ Drawn(Candidate(f), reading.tokens)
<1> DEFINE text == disk[f]
           tokens == reading.tokens
           excerpt == Excerpt(text, tokens)
           content == excerpt.content
           line == excerpt.line
           score == Score(f, text, tokens)
           lines == LineCount(text)
           e == [file |-> f, content |-> content, start |-> line, score |-> score, lines |-> lines, of |-> text]
<1>0. text \in Seq(Symbol)  BY LowerTyped
<1>1. SliceWith(text, content, line)  BY ExcerptIsSlice
<1>2. content \in Seq(Symbol) /\ line \in Nat
  <2>1. PICK p \in Nat \ {0} : line = LineAt(text, p)  BY <1>1 DEF SliceWith
  <2>2. line \in Nat  BY <2>1, LineAtTyped
  <2> QED  BY <1>1, <2>2 DEF SliceWith
<1>3. score \in Nat  BY ScoreTyped
<1>4. lines \in Nat
  <2>1. Len(text) \in Nat  BY <1>0
  <2>2. Cardinality(NewlinesIn(text, 1, Len(text))) \in Nat  BY <2>1, OneMoreNewline
  <2> QED  BY <2>2 DEF LineCount
<1>5. Candidate(f) = e  BY DEF Candidate
<1>6. content = Excerpt(text, tokens).content /\ text \in Seq(Symbol) /\ text \in Texts  BY <1>0
<1> HIDE DEF content, line, score, lines, text, tokens, excerpt
<1>7. e \in FoundFile  BY <1>2, <1>3, <1>4, <1>6 DEF FoundFile
<1>8. e.of = text /\ e.content = content /\ e.start = line  OBVIOUS
<1> HIDE DEF e
<1>9. Drawn(e, tokens)  BY <1>1, <1>6, <1>8 DEF Drawn
<1> QED  BY <1>5, <1>7, <1>9 DEF tokens

(* A request for context begins with no candidate.                         *)
LEMMA ContextBegins ==
  ASSUME NEW query \in Queries
  PROVE  ContextKept([kind |-> "context", todo |-> PathOrder, query |-> query, tokens |-> Tokens(query.words),
                      found |-> <<>>, files |-> <<>>])
<1> DEFINE tokens == Tokens(query.words)
           r == [kind |-> "context", todo |-> PathOrder, query |-> query, tokens |-> tokens,
                 found |-> <<>>, files |-> <<>>]
<1>1. tokens \subseteq Seq(Symbol) \ {<<>>} /\ IsFiniteSet(tokens)
  <2>1. query.words \in Seq(Symbol) \ {<<>>}  BY ReadsAssumption
  <2> QED  BY <2>1, TokensTyped
<1>2. PathOrder \in Seq(File) /\ MaxContext \in Nat  BY ReadsAssumption
<1>3. <<>> \in Seq(FoundFile) /\ Len(<<>>) = 0 /\ 1 .. 0 = {}  OBVIOUS
<1>4. Total(<<>>) = 0 /\ 0 <= MaxContext  BY <1>2, TotalOf
<1>5. Chosen(<<>>, <<>>, query)  BY <1>3, <1>4 DEF Chosen
<1> HIDE DEF tokens
<1>6. r \in Asking  BY <1>1, <1>2, <1>3 DEF Asking
<1>7. r.found = <<>> /\ r.files = <<>> /\ r.query = query /\ r.tokens = tokens  OBVIOUS
<1> HIDE DEF r
<1>8. ContextKept(r)  BY <1>1, <1>3, <1>5, <1>6, <1>7 DEF ContextKept
<1> QED  BY <1>8 DEF r, tokens

(* It goes on with one candidate more, or none.                            *)
LEMMA ContextGoesOn ==
  ASSUME NEW r, ContextKept(r), r.todo # <<>>, NEW found \in Seq(FoundFile),
         \A i \in 1 .. Len(found) : Drawn(found[i], r.tokens)
  PROVE  ContextKept([r EXCEPT !.todo = Tail(@), !.found = found,
                               !.files = IF Tail(r.todo) = <<>> THEN Best(found, r.query) ELSE <<>>])
<1> DEFINE todo == Tail(r.todo)
           files == IF todo = <<>> THEN Best(found, r.query) ELSE <<>>
           s == [r EXCEPT !.todo = todo, !.found = found, !.files = files]
<1>1. r \in Asking /\ IsFiniteSet(r.tokens) /\ r.todo \in Seq(File)  BY DEF ContextKept, Asking
<1>2. todo \in Seq(File)  BY <1>1
<1>3. \A i \in 1 .. Len(found) : Len(found[i].content) <= MaxExcerpt  BY DEF Drawn, SliceWith
<1>4. Chosen(Best(found, r.query), found, r.query)  BY <1>3, BestIs
<1>5. files \in Seq(FoundFile) /\ (todo = <<>> => Chosen(files, found, r.query))
  <2>1. Best(found, r.query) \in Seq(FoundFile)  BY <1>4 DEF Chosen
  <2> QED  BY <1>4, <2>1
<1>6. s = [r EXCEPT !.todo = Tail(@), !.found = found,
                    !.files = IF Tail(r.todo) = <<>> THEN Best(found, r.query) ELSE <<>>]
  OBVIOUS
<1> HIDE DEF todo, files
<1>7. s \in Asking /\ s.todo = todo /\ s.found = found /\ s.files = files /\ s.tokens = r.tokens /\ s.query = r.query
  BY <1>1, <1>2, <1>5 DEF Asking
<1> HIDE DEF s
<1>8. ContextKept(s)  BY <1>1, <1>5, <1>7 DEF ContextKept
<1> QED  BY <1>6, <1>8

(* ReadForContext                                                          *)
LEMMA ContextReads ==
  ASSUME DiskInv, ContextInv, ReadForContext
  PROVE  ContextInv'
<1> DEFINE f == Head(reading.todo)
           e == Candidate(f)
           found == IF Readable(f) /\ e.score > 0 THEN Append(reading.found, e) ELSE reading.found
           files == IF Tail(reading.todo) = <<>> THEN Best(found, reading.query) ELSE <<>>
<1>1. ContextKept(reading) /\ reading.todo # <<>>  BY DEF ContextInv, ReadForContext
<1>2. /\ reading.todo \in Seq(File) /\ reading.found \in Seq(FoundFile)
      /\ reading.tokens \subseteq Seq(Symbol) /\ IsFiniteSet(reading.tokens)
      /\ \A i \in 1 .. Len(reading.found) : Drawn(reading.found[i], reading.tokens)
  <2>1. reading.tokens \subseteq Seq(Symbol) \ {<<>>}  BY <1>1 DEF ContextKept, Asking
  <2> QED  BY <1>1, <2>1 DEF ContextKept, Asking
<1>3. f \in File  BY <1>1, <1>2
<1>4. disk[f] \in Texts  BY <1>3 DEF DiskInv
<1>5. e \in FoundFile /\ Drawn(e, reading.tokens)
  <2> HIDE DEF f
  <2> QED  BY <1>2, <1>3, <1>4, CandidateIs
<1>6. reading' = [reading EXCEPT !.todo = Tail(@), !.found = found, !.files = files]
  BY DEF ReadForContext
<1> HIDE DEF e, f
<1>7. found \in Seq(FoundFile) /\ \A i \in 1 .. Len(found) : Drawn(found[i], reading.tokens)
  <2> DEFINE n == Len(reading.found)
             more == Append(reading.found, e)
  <2>1. more \in Seq(FoundFile) /\ Len(more) = n + 1 /\ more[n + 1] = e /\ \A i \in 1 .. n : more[i] = reading.found[i]
    BY <1>2, <1>5, AppendProperties
  <2>2. n \in Nat  BY <1>2
  <2>3. \A i \in 1 .. n + 1 : i \in 1 .. n \/ i = n + 1  BY <2>2
  <2> HIDE DEF more, n
  <2>4. \A i \in 1 .. n + 1 : Drawn(more[i], reading.tokens)
    <3>1. \A i \in 1 .. n : Drawn(more[i], reading.tokens)  BY <1>2, <2>1 DEF n
    <3> QED  BY <1>5, <2>1, <2>3, <3>1
  <2>5. found = more \/ found = reading.found  BY DEF more
  <2> HIDE DEF found
  <2> QED  BY <1>2, <2>1, <2>4, <2>5
<1> HIDE DEF found
<1>8. ContextKept(reading')  BY <1>1, <1>6, <1>7, ContextGoesOn
<1> QED  BY <1>8 DEF ContextInv

(* No other request changes what has been found.                           *)
LEMMA ContextInvStep ==
  DiskInv /\ ContextInv /\ [ReadsNext]_readsVars => ContextInv'
<1> SUFFICES ASSUME DiskInv, ContextInv, [ReadsNext]_readsVars  PROVE ContextInv'
  OBVIOUS
<1>1. CASE UNCHANGED reading
  <2>1. ContextInv' <=> ContextInv  BY <1>1 DEF ContextInv
  <2> QED  BY <2>1
<1>2. CASE ReadForContext  BY <1>2, ContextReads
<1>3. CASE ReadForSearch
  <2> DEFINE f == Head(reading.todo)
             hits == IF Readable(f) THEN ScanFile(reading.hits, f, reading.words) ELSE reading.hits
             of == Append(reading.of, IF Readable(f) THEN disk[f] ELSE <<>>)
  <2>1. reading.kind = "search" /\ reading' = [reading EXCEPT !.todo = Tail(@), !.hits = hits, !.of = of]
    BY <1>3 DEF ReadForSearch
  <2> HIDE DEF hits, of
  <2>2. reading'.kind = reading.kind  BY <2>1
  <2> QED  BY <2>1, <2>2 DEF ContextInv
<1>4. ASSUME NEW query \in Queries, BeginContext(query)  PROVE ContextInv'
  <2>1. ContextKept(reading')  BY <1>4, ContextBegins DEF BeginContext
  <2> QED  BY <2>1 DEF ContextInv
<1>5. ASSUME NEW query \in Queries, BeginSearch(query.words)  PROVE ContextInv'
  BY <1>5 DEF BeginSearch, ContextInv
<1>6. ASSUME NEW f \in File, ReadFile(f)  PROVE ContextInv'
  BY <1>6 DEF ReadFile, ContextInv
<1>7. ASSUME NEW path \in Entries, Tree(path)  PROVE ContextInv'
  BY <1>7 DEF Tree, ContextInv
<1>8. UNCHANGED readsVars => UNCHANGED reading  BY DEF readsVars
<1> QED  BY <1>1, <1>2, <1>3, <1>4, <1>5, <1>6, <1>7, <1>8 DEF ReadsNext

(* An excerpt that is cut for want of room is still a slice of its text.   *)
LEMMA CutNumbered ==
  ASSUME NEW x, NEW e, CutFrom(x, e), SliceWith(e.of, e.content, e.start), e.of \in Seq(Symbol)
  PROVE  Numbered(x) /\ Len(x.content) <= MaxExcerpt
<1> DEFINE text == e.of
<1>1. PICK p \in Nat \ {0}, q \in Nat :
        q <= Len(text) /\ p <= q + 1 /\ e.content = SubSeq(text, p, q) /\ e.start = LineAt(text, p)
  BY DEF SliceWith
<1>2. PICK k \in Nat : k <= Len(e.content) /\ x.content = SubSeq(e.content, 1, k)  BY DEF CutFrom
<1>3. x.of = text /\ x.start = e.start  BY DEF CutFrom
<1>4. MaxExcerpt \in Nat /\ Len(e.content) <= MaxExcerpt /\ Len(text) \in Nat  BY ReadsAssumption DEF SliceWith
<1>5. Len(e.content) = q - p + 1 /\ e.content \in Seq(Symbol)  BY <1>1, PartOf
<1> DEFINE r == p + k - 1
<1>6. r \in Nat /\ r <= q /\ r <= Len(text) /\ p <= r + 1 /\ k <= q - p + 1 /\ 1 <= k + 1 /\ p + 1 - 1 = p
  BY <1>1, <1>2, <1>4, <1>5
<1>7. x.content = SubSeq(text, p, r)
  <2>1. SubSeq(SubSeq(text, p, q), 1, k) = SubSeq(text, p + 1 - 1, p + k - 1)
    <3> HIDE DEF text
    <3>1. 1 \in Nat \ {0} /\ text \in Seq(Symbol)  BY DEF text
    <3> QED  BY <1>1, <1>6, <3>1, PartOfPart
  <2> QED  BY <1>1, <1>2, <1>6, <2>1
<1>8. Len(x.content) = k /\ k <= MaxExcerpt
  <2>1. Len(SubSeq(e.content, 1, k)) = k - 1 + 1
    <3>1. 1 \in Nat \ {0} /\ 1 <= k + 1  BY <1>6
    <3> QED  BY <1>2, <1>5, <3>1, PartOf
  <2>2. k - 1 + 1 = k /\ k <= MaxExcerpt
    <3>1. Len(e.content) \in Nat  BY <1>5
    <3> QED  BY <1>2, <1>4, <3>1
  <2> QED  BY <1>2, <2>1, <2>2
<1>9. Numbered(x)
  <2> HIDE DEF r
  <2>1. x.of \in Seq(Symbol) /\ r <= Len(x.of) /\ x.content = SubSeq(x.of, p, r) /\ x.start = LineAt(x.of, p)
    BY <1>1, <1>3, <1>6, <1>7
  <2> QED  BY <1>6, <2>1, SliceNumbered
<1> QED  BY <1>8, <1>9

(* What a request for context that is over shows.                          *)
LEMMA ContextTells == ContextInv => ContextAsRead
<1> SUFFICES ASSUME ContextInv, Complete("context")  PROVE ContextAsRead
  BY DEF ContextAsRead
<1> DEFINE files == reading.files
           found == reading.found
           query == reading.query
           tokens == reading.tokens
<1>1. ContextKept(reading) /\ reading.todo = <<>>  BY DEF ContextInv, Complete
<1>2. /\ files \in Seq(FoundFile) /\ found \in Seq(FoundFile) /\ tokens \subseteq Seq(Symbol)
      /\ tokens \subseteq Seq(Symbol) \ {<<>>}
      /\ \A i \in 1 .. Len(found) : Drawn(found[i], tokens)
      /\ Chosen(files, found, query)
  <2>1. tokens \subseteq Seq(Symbol) \ {<<>>}  BY <1>1 DEF ContextKept, Asking
  <2> QED  BY <1>1, <2>1 DEF ContextKept, Asking
<1>3. \A i \in 1 .. Len(found) : found[i].of \in Seq(Symbol)
  <2>1. \A i \in 1 .. Len(found) : found[i] \in FoundFile  BY <1>2
  <2> QED  BY <2>1 DEF FoundFile
<1>4. DOMAIN files = 1 .. Len(files) /\ DOMAIN found = 1 .. Len(found)  BY <1>2
<1>5. ASSUME NEW e \in Range(files)  PROVE Numbered(e) /\ Len(e.content) <= MaxExcerpt
  <2>1. PICK i \in 1 .. Len(files) : e = files[i]  BY <1>4, <1>5 DEF Range
  <2>2. PICK j \in 1 .. Len(found) : CutFrom(files[i], found[j])  BY <1>2 DEF Chosen
  <2>3. SliceWith(found[j].of, found[j].content, found[j].start)  BY <1>2 DEF Drawn
  <2>4. found[j].of \in Seq(Symbol)  BY <1>3
  <2> QED  BY <2>1, <2>2, <2>3, <2>4, CutNumbered
<1>6. ASSUME files # <<>>  PROVE ShowsMatch(files[1])
  <2>1. CASE ~(MaxContext >= MaxExcerpt)  BY <2>1 DEF ShowsMatch
  <2>2. CASE MaxContext >= MaxExcerpt
    <3>1. PICK j \in 1 .. Len(found) : files[1].content = found[j].content /\ files[1].of = found[j].of
      BY <1>2, <1>6, <2>2 DEF Chosen
    <3>2. found[j].content = Excerpt(found[j].of, tokens).content  BY <1>2 DEF Drawn
    <3>3. found[j].of \in Texts  BY <1>2 DEF Drawn
    <3>4. Shows(found[j].of, tokens, Excerpt(found[j].of, tokens).content)  BY <1>2, <3>3, ExcerptShows
    <3>5. Shows(files[1].of, tokens, files[1].content)  BY <3>1, <3>2, <3>4
    <3> QED  BY <3>5 DEF Shows, ShowsMatch
  <2> QED  BY <2>1, <2>2
<1>7. Total(files) <= MaxContext  BY <1>2 DEF Chosen
<1>8. NothingBetter
  <2> DEFINE named == {e \in Range(found) : e.file \in query.names}
             rivals == IF named = {} THEN Range(found) ELSE named
             left == {e \in rivals : e.file \notin {x.file : x \in Range(files)}}
  <2>1. rivals = Preferred(found, query) /\ rivals \subseteq Range(found)  BY DEF Preferred
  <2> HIDE DEF rivals
  <2>2. ASSUME NEW e \in left
        PROVE  /\ Len(files) = LimitOf(query) \/ Total(files) = MaxContext
               /\ \A i \in 1 .. Len(files) : files[i].score >= e.score
    <3>1. e \in rivals /\ e.file \notin {x.file : x \in Range(files)}  BY <2>2
    <3>2. PICK j \in 1 .. Len(found) : e = found[j]  BY <1>4, <2>1, <3>1 DEF Range
    <3>3. found[j] \in Preferred(found, query)  BY <2>1, <3>1, <3>2
    <3>4. \A i \in 1 .. Len(files) : files[i] \in Range(files)  BY <1>4 DEF Range
    <3>5. ~\E i \in 1 .. Len(files) : files[i].file = found[j].file  BY <3>1, <3>2, <3>4
    <3> QED  BY <1>2, <3>2, <3>3, <3>5 DEF Chosen
  <2>3. ASSUME NEW e \in left, NEW x \in Range(files)  PROVE e.score <= x.score
    <3>1. PICK i \in 1 .. Len(files) : x = files[i]  BY <1>4 DEF Range
    <3>2. x.score >= e.score  BY <2>2, <3>1
    <3>3. x \in FoundFile  BY <1>2, <3>1
    <3>4. e \in FoundFile
      <4>1. PICK j \in 1 .. Len(found) : e = found[j]  BY <1>4, <2>1 DEF Range
      <4> QED  BY <1>2, <4>1
    <3>5. x.score \in Nat /\ e.score \in Nat  BY <3>3, <3>4 DEF FoundFile
    <3> QED  BY <3>2, <3>5
  <2>4. left # {} => Len(files) = LimitOf(query) \/ Total(files) = MaxContext  BY <2>2
  <2> QED  BY <2>3, <2>4 DEF NothingBetter, rivals
<1> QED  BY <1>5, <1>6, <1>7, <1>8 DEF ContextAsRead

-------------------------------------------------------------------------------
(* ReadFile counts the lines of what it shows.                             *)
FileInv ==
  reading.kind = "file" => reading.content \in Seq(Symbol) /\ reading.lines = LineCount(reading.content)

(* The count is the number of lines by which a patch would name them.      *)
LEMMA FileTells ==
  FileInv /\ Complete("file") => reading.lines = Len(LineSeq(reading.content))
<1> SUFFICES ASSUME FileInv, Complete("file")  PROVE reading.lines = Len(LineSeq(reading.content))
  OBVIOUS
<1>1. reading.content \in Seq(Symbol) /\ reading.lines = LineCount(reading.content)  BY DEF FileInv, Complete
<1> QED  BY <1>1, LinesCounted

-------------------------------------------------------------------------------
(* Tree: the entries of a kind, in their order.                            *)
Pick(kind, s) == FoldLeft(LAMBDA those, c : IF c \in kind THEN Append(those, c) ELSE those, <<>>, s)

PickStep(kind, s) ==
  [z \in (1 .. Len(s)) \X Seq(kind) |-> IF s[z[1]] \in kind THEN Append(z[2], s[z[1]]) ELSE z[2]]

PickFold(iter, kind, s) ==
  iter = [i \in SUBSET DOMAIN s |->
            IF i = {} THEN <<>>
            ELSE IF s[Max(i)] \in kind THEN Append(iter[i \ {Max(i)}], s[Max(i)]) ELSE iter[i \ {Max(i)}]]

(* Picking the entries of a kind is a loop over them.                      *)
LEMMA PickHasRun ==
  ASSUME NEW S, NEW seq \in Seq(S), NEW kind
  PROVE  \E g : Loops(g, Len(seq), Seq(kind), <<>>, PickStep(kind, seq)) /\ Pick(kind, seq) = g[Len(seq)]
<1> DEFINE n == Len(seq)
           V == Seq(kind)
           step == PickStep(kind, seq)
           After(v, i) == IF seq[i] \in kind THEN Append(v, seq[i]) ELSE v
<1>0. n \in Nat /\ DOMAIN seq = 1 .. n /\ <<>> \in V  OBVIOUS
<1>1. \A i \in 1 .. n : \A v \in V : After(v, i) \in V  OBVIOUS
<1> HIDE DEF n, V
<1>2. step \in [(1 .. n) \X V -> V] /\ \A i \in 1 .. n : \A v \in V : step[<<i, v>>] = After(v, i)
  BY <1>1 DEF PickStep, n, V
<1> HIDE DEF step
<1>3. PICK h : Folds(h, n, V, <<>>, step)  BY <1>0, <1>2, FoldExists
<1>4. h \in [SUBSET (1 .. n) -> V]  BY <1>3 DEF Folds
<1>5. ASSUME NEW s \in SUBSET (1 .. n), s # {}  PROVE Max(s) \in 1 .. n /\ s \ {Max(s)} \in SUBSET (1 .. n)
  <2>1. s \in SUBSET (0 .. n)  BY <1>0
  <2>2. Max(s) \in s  BY <1>0, <1>5, <2>1, HasMax
  <2> QED  BY <2>2
<1>6. PickFold(h, kind, seq)
  <2>1. ASSUME NEW s \in SUBSET (1 .. n)
        PROVE  h[s] = IF s = {} THEN <<>> ELSE After(h[s \ {Max(s)}], Max(s))
    <3>1. CASE s = {}  BY <1>3, <3>1 DEF Folds
    <3>2. CASE s # {}
      <4>1. Max(s) \in 1 .. n /\ h[s \ {Max(s)}] \in V  BY <1>4, <1>5, <3>2
      <4>2. h[s] = step[<<Max(s), h[s \ {Max(s)}]>>]  BY <1>3, <3>2 DEF Folds
      <4> HIDE DEF After
      <4> QED  BY <1>2, <3>2, <4>1, <4>2
    <3> QED  BY <3>1, <3>2
  <2> QED  BY <1>0, <1>4, <2>1 DEF PickFold
<1> DEFINE iter == CHOOSE k : PickFold(k, kind, seq)
<1>7. PickFold(iter, kind, seq)  BY <1>6
<1>8. Pick(kind, seq) = iter[DOMAIN seq]  BY DEF Pick, FoldLeft, MapThenFoldSet, PickFold
<1> HIDE DEF iter
<1>9. FoldsAs(iter, n, V, <<>>, step)
  <2>1. iter[{}] = <<>>  BY <1>0, <1>7 DEF PickFold
  <2>2. ASSUME NEW s \in SUBSET (1 .. n), s # {}, iter[s \ {Max(s)}] \in V
        PROVE  iter[s] = step[<<Max(s), iter[s \ {Max(s)}]>>]
    <3>1. iter[s] = After(iter[s \ {Max(s)}], Max(s))  BY <1>0, <1>7, <2>2 DEF PickFold
    <3>2. Max(s) \in 1 .. n  BY <1>5, <2>2
    <3> HIDE DEF After
    <3> QED  BY <1>2, <2>2, <3>1, <3>2
  <2> QED  BY <2>1, <2>2 DEF FoldsAs
<1>a. LoopsTo(iter, n, V, <<>>, step)  BY <1>0, <1>2, <1>9, FoldLoops
<1>10. PICK g : Loops(g, n, V, <<>>, step) /\ g[n] = iter[1 .. n]  BY <1>a DEF LoopsTo
<1>11. Pick(kind, seq) = g[n]  BY <1>0, <1>8, <1>10
<1> QED  BY <1>10, <1>11 DEF n, step, V

(* s is what is of a kind among the first m of some entries.               *)
Picks(s, kind, of, m) ==
  /\ s \in Seq(kind)
  /\ \A i \in 1 .. Len(s) : \E j \in 1 .. m : s[i] = of[j]
  /\ \A j \in 1 .. m : of[j] \in kind => \E i \in 1 .. Len(s) : s[i] = of[j]

(* All of that kind are picked, and no other.                              *)
LEMMA PickIs ==
  ASSUME NEW S, NEW seq \in Seq(S), NEW kind
  PROVE  Picks(Pick(kind, seq), kind, seq, Len(seq))
<1> DEFINE n == Len(seq)
           step == PickStep(kind, seq)
<1>0. n \in Nat  OBVIOUS
<1>1. PICK g : Loops(g, n, Seq(kind), <<>>, step) /\ Pick(kind, seq) = g[n]  BY PickHasRun
<1>s. \A i \in 1 .. n : \A v \in Seq(kind) : step[<<i, v>>] = IF seq[i] \in kind THEN Append(v, seq[i]) ELSE v
  BY DEF PickStep
<1> HIDE DEF step, n
<1>2. /\ g \in [0 .. n -> Seq(kind)] /\ g[0] = <<>> /\ \A i \in 1 .. n : g[i] = step[<<i, g[i - 1]>>]
  BY <1>1 DEF Loops
<1> DEFINE T == {i \in Nat : i <= n => Picks(g[i], kind, seq, i)}
<1>3. 0 \in T
  <2>1. Len(g[0]) = 0 /\ g[0] \in Seq(kind) /\ 1 .. 0 = {}  BY <1>2
  <2> QED  BY <2>1 DEF Picks
<1>4. ASSUME NEW i \in Nat, i \in T  PROVE i + 1 \in T
  <2> SUFFICES ASSUME i + 1 <= n  PROVE Picks(g[i + 1], kind, seq, i + 1)
    OBVIOUS
  <2>1. i + 1 \in 1 .. n /\ i <= n /\ (i + 1) - 1 = i /\ i \in 0 .. n  BY <1>0
  <2>2. Picks(g[i], kind, seq, i) /\ g[i] \in Seq(kind)  BY <1>2, <1>4, <2>1
  <2>3. g[i + 1] = IF seq[i + 1] \in kind THEN Append(g[i], seq[i + 1]) ELSE g[i]  BY <1>s, <1>2, <2>1, <2>2
  <2>4. (\A j \in 1 .. i : j \in 1 .. i + 1) /\ i + 1 \in 1 .. i + 1 /\ \A j \in 1 .. i + 1 : j \in 1 .. i \/ j = i + 1
    OBVIOUS
  <2>5. CASE seq[i + 1] \notin kind
    <3>1. g[i + 1] = g[i]  BY <2>3, <2>5
    <3>2. \A j \in 1 .. i + 1 : seq[j] \in kind => j \in 1 .. i  BY <2>4, <2>5
    <3> QED  BY <2>2, <2>4, <3>1, <3>2 DEF Picks
  <2>6. CASE seq[i + 1] \in kind
    <3> DEFINE old == g[i]
               c == seq[i + 1]
               new == Append(old, c)
               k == Len(old)
    <3>1. /\ new \in Seq(kind) /\ Len(new) = k + 1 /\ new[k + 1] = c /\ \A j \in 1 .. k : new[j] = old[j]
      BY <2>2, <2>6, AppendProperties
    <3>2. k \in Nat /\ (\A j \in 1 .. k : j \in 1 .. k + 1) /\ k + 1 \in 1 .. k + 1
          /\ \A j \in 1 .. k + 1 : j \in 1 .. k \/ j = k + 1
      <4>1. k \in Nat  BY <2>2
      <4> HIDE DEF k
      <4> QED  BY <4>1
    <3>3. g[i + 1] = new  BY <2>3, <2>6
    <3>4. Picks(old, kind, seq, i)  BY <2>2
    <3> HIDE DEF new, old, k
    <3>5. \A p \in 1 .. k + 1 : \E j \in 1 .. i + 1 : new[p] = seq[j]
      <4> SUFFICES ASSUME NEW p \in 1 .. k + 1  PROVE \E j \in 1 .. i + 1 : new[p] = seq[j]
        OBVIOUS
      <4>1. CASE p \in 1 .. k
        <5>1. PICK j \in 1 .. i : old[p] = seq[j]  BY <3>4, <4>1 DEF Picks, k
        <5> QED  BY <2>4, <3>1, <4>1, <5>1
      <4>2. CASE p = k + 1  BY <2>4, <3>1, <4>2
      <4> QED  BY <3>2, <4>1, <4>2
    <3>6. \A j \in 1 .. i + 1 : seq[j] \in kind => \E p \in 1 .. k + 1 : new[p] = seq[j]
      <4> SUFFICES ASSUME NEW j \in 1 .. i + 1, seq[j] \in kind  PROVE \E p \in 1 .. k + 1 : new[p] = seq[j]
        OBVIOUS
      <4>1. CASE j \in 1 .. i
        <5>1. PICK p \in 1 .. k : old[p] = seq[j]  BY <3>4, <4>1 DEF Picks, k
        <5> QED  BY <3>1, <3>2, <5>1
      <4>2. CASE j = i + 1  BY <3>1, <3>2, <4>2
      <4> QED  BY <2>4, <4>1, <4>2
    <3>7. Picks(new, kind, seq, i + 1)  BY <3>1, <3>5, <3>6 DEF Picks
    <3> QED  BY <3>3, <3>7
  <2> QED  BY <2>5, <2>6
<1>5. Nat \subseteq T
  <2> HIDE DEF T
  <2> QED  BY <1>3, <1>4, NatInd
<1>6. n \in T
  <2> HIDE DEF T
  <2> QED  BY <1>0, <1>5
<1>7. n <= n  BY <1>0
<1>8. Picks(g[n], kind, seq, n)  BY <1>6, <1>7
<1> QED  BY <1>1, <1>8 DEF n

(* What is picked, as a set.                                               *)
LEMMA PicksRange ==
  ASSUME NEW s, NEW kind, NEW of, NEW n \in Nat, DOMAIN of = 1 .. n, DOMAIN s = 1 .. Len(s), Picks(s, kind, of, n)
  PROVE  Range(s) = Range(of) \cap kind
<1>1. \A i \in 1 .. Len(s) : s[i] \in kind /\ \E j \in 1 .. n : s[i] = of[j]  BY DEF Picks
<1>2. \A j \in 1 .. n : of[j] \in kind => \E i \in 1 .. Len(s) : s[i] = of[j]  BY DEF Picks
<1>3. ASSUME NEW x \in Range(s)  PROVE x \in Range(of) \cap kind
  <2>1. PICK i \in 1 .. Len(s) : x = s[i]  BY DEF Range
  <2>2. PICK j \in 1 .. n : s[i] = of[j]  BY <1>1
  <2> QED  BY <1>1, <2>1, <2>2 DEF Range
<1>4. ASSUME NEW x \in Range(of) \cap kind  PROVE x \in Range(s)
  <2>1. PICK j \in 1 .. n : x = of[j]  BY DEF Range
  <2>2. PICK i \in 1 .. Len(s) : s[i] = of[j]  BY <1>2, <2>1
  <2> QED  BY <2>1, <2>2 DEF Range
<1> QED  BY <1>3, <1>4

(* What a folder holds is an entry.                                        *)
LEMMA EntriesIn ==
  /\ Dirs \subseteq Entries
  /\ \A d : ShownIn(d) \subseteq Entries
  /\ \A d \in Dirs : Within(d) \in Seq(Range(Within(d))) /\ Range(Within(d)) \subseteq Entries
<1>1. \A d \in Dirs : Within(d) \in Seq(Range(Within(d)))  BY ReadsAssumption
<1>2. \A d \in Dirs : Range(Within(d)) \subseteq Entries  BY DEF Entries
<1> QED  BY <1>1, <1>2 DEF Entries, ShownIn, Open

(* What is in a folder, but for the folders that are ignored.              *)
LEMMA ChildrenAre ==
  ASSUME NEW e
  PROVE  Children(e) \in Seq(Entries) /\ Range(Children(e)) = ShownIn(e)
<1>1. CASE ~Open(e)
  <2>1. Children(e) = <<>> /\ ShownIn(e) = {}  BY <1>1 DEF Children, ShownIn
  <2>2. DOMAIN <<>> = {} /\ <<>> \in Seq(Entries)  OBVIOUS
  <2>3. Range(<<>>) = {}  BY <2>2 DEF Range
  <2> QED  BY <2>1, <2>2, <2>3
<1>2. CASE Open(e)
  <2> DEFINE w == Within(e)
             n == Len(w)
             a == Pick(Dirs \ Ignored, w)
             b == Pick(Entries \ Dirs, w)
  <2>1. w \in Seq(Range(w)) /\ Range(w) \subseteq Entries  BY <1>2, EntriesIn DEF Open
  <2>2. Picks(a, Dirs \ Ignored, w, n) /\ Picks(b, Entries \ Dirs, w, n)  BY <2>1, PickIs
  <2>3. Children(e) = a \o b  BY <1>2 DEF Children, Pick
  <2>4. ShownIn(e) = Range(w) \ (Ignored \cap Dirs)  BY <1>2 DEF ShownIn
  <2>5. n \in Nat /\ DOMAIN w = 1 .. n  BY <2>1
  <2> HIDE DEF w, n, a, b
  <2>6. a \in Seq(Dirs \ Ignored) /\ b \in Seq(Entries \ Dirs)  BY <2>2 DEF Picks
  <2>7. a \in Seq(Entries) /\ b \in Seq(Entries)
    <3>1. Dirs \ Ignored \subseteq Entries /\ Entries \ Dirs \subseteq Entries  BY EntriesIn
    <3>2. \A i \in 1 .. Len(a) : a[i] \in Dirs \ Ignored  BY <2>6
    <3>3. \A i \in 1 .. Len(b) : b[i] \in Entries \ Dirs  BY <2>6
    <3> QED  BY <2>6, <3>1
  <2>8. /\ a \o b \in Seq(Entries) /\ Len(a \o b) = Len(a) + Len(b)
        /\ \A i \in 1 .. Len(a) + Len(b) : (a \o b)[i] = IF i <= Len(a) THEN a[i] ELSE b[i - Len(a)]
    BY <2>7, ConcatProperties
  <2>9. Range(a \o b) = Range(a) \cup Range(b)  BY <2>7, RangeConcatenation
  <2>10. DOMAIN a = 1 .. Len(a) /\ DOMAIN b = 1 .. Len(b)  BY <2>7
  <2>11. Range(a) = Range(w) \cap (Dirs \ Ignored)  BY <2>2, <2>5, <2>10, PicksRange
  <2>12. Range(b) = Range(w) \cap (Entries \ Dirs)  BY <2>2, <2>5, <2>10, PicksRange
  <2>13. (Range(w) \cap (Dirs \ Ignored)) \cup (Range(w) \cap (Entries \ Dirs)) = Range(w) \ (Ignored \cap Dirs)
    <3>1. Range(w) \subseteq Entries  BY <2>1 DEF w
    <3> QED  BY <3>1
  <2> QED  BY <2>3, <2>4, <2>8, <2>9, <2>11, <2>12, <2>13
<1> QED  BY <1>1, <1>2

-------------------------------------------------------------------------------
(* What a tree that is whole shows: what is reached from its folder.       *)
Follows(X) == \A d \in X : ShownIn(d) \subseteq X

Reach(e) == {y \in Entries : \A X \in SUBSET Entries : e \in X /\ Follows(X) => y \in X}

(* It is the least set of entries with the folder and what its folders     *)
(* show.                                                                   *)
LEMMA ReachIs ==
  ASSUME NEW e \in Entries
  PROVE  /\ e \in Reach(e) /\ Reach(e) \subseteq Entries /\ Follows(Reach(e))
         /\ \A X \in SUBSET Entries : e \in X /\ Follows(X) => Reach(e) \subseteq X
<1>1. \A d : ShownIn(d) \subseteq Entries  BY EntriesIn
<1>2. ASSUME NEW d \in Reach(e), NEW y \in ShownIn(d)  PROVE y \in Reach(e)
  <2>1. y \in Entries  BY <1>1
  <2>2. ASSUME NEW X \in SUBSET Entries, e \in X, Follows(X)  PROVE y \in X
    <3>1. d \in X  BY <1>2, <2>2 DEF Reach
    <3> QED  BY <1>2, <2>2, <3>1 DEF Follows
  <2> QED  BY <2>1, <2>2 DEF Reach
<1>3. Follows(Reach(e))  BY <1>2 DEF Follows
<1> QED  BY <1>3 DEF Reach

(* The entries are finitely many.                                          *)
LEMMA EntriesFinite == IsFiniteSet(Entries)
<1> DEFINE held == {Range(Within(d)) : d \in Dirs}
           f == [d \in Dirs |-> Range(Within(d))]
<1>1. IsFiniteSet(Dirs)  BY ReadsAssumption
<1>2. IsFiniteSet(held)
  <2>1. f \in Surjection(Dirs, held)  BY DEF Surjection
  <2> HIDE DEF f, held
  <2> QED  BY <1>1, <2>1, FS_Surjection
<1>3. ASSUME NEW d \in Dirs  PROVE IsFiniteSet(Range(Within(d)))
  <2> DEFINE w == Within(d)
             S == Range(w)
  <2>1. w \in Seq(S)  BY EntriesIn
  <2>2. w \in Surjection(1 .. Len(w), S)
    <3>1. w \in [1 .. Len(w) -> S] /\ DOMAIN w = 1 .. Len(w)  BY <2>1
    <3>2. \A x \in S : \E i \in 1 .. Len(w) : w[i] = x  BY <3>1 DEF Range
    <3> HIDE DEF S, w
    <3> QED  BY <3>1, <3>2 DEF Surjection
  <2>3. IsFiniteSet(1 .. Len(w))
    <3>1. Len(w) \in Nat  BY <2>1
    <3> QED  BY <3>1, FS_Interval
  <2> HIDE DEF S, w
  <2>4. IsFiniteSet(S)  BY <2>2, <2>3, FS_Surjection
  <2> QED  BY <2>4 DEF S, w
<1>4. \A T \in held : IsFiniteSet(T)  BY <1>3
<1> HIDE DEF held
<1>5. IsFiniteSet(UNION held)  BY <1>2, <1>4, FS_UNION
<1>6. IsFiniteSet(Dirs \cup UNION held)  BY <1>1, <1>5, FS_Union
<1> QED  BY <1>6 DEF Entries, held

(* The loop of Below.                                                      *)
BelowOf(in, path) ==
  in = [n \in 0 .. Cardinality(Entries) |->
          IF n = 0 THEN {path} ELSE in[n - 1] \cup UNION {ShownIn(d) : d \in in[n - 1]}]

(* Below is that loop.                                                     *)
LEMMA BelowHasRun ==
  ASSUME NEW path \in Entries
  PROVE  \E in : BelowOf(in, path) /\ Below(path) = in[Cardinality(Entries)] \ Dangling
<1> DEFINE n == Cardinality(Entries)
           V == SUBSET Entries
           step == [z \in (1 .. n) \X V |-> z[2] \cup UNION {ShownIn(d) : d \in z[2]}]
<1>0. n \in Nat  BY EntriesFinite, FS_CardinalityType
<1>1. \A d : ShownIn(d) \subseteq Entries  BY EntriesIn
<1>2. step \in [(1 .. n) \X V -> V]
  <2>1. ASSUME NEW z \in (1 .. n) \X V  PROVE (z[2] \cup UNION {ShownIn(d) : d \in z[2]}) \in V
    <3>1. z[2] \subseteq Entries  OBVIOUS
    <3> QED  BY <1>1, <3>1
  <2> QED  BY <2>1
<1>3. {path} \in V  OBVIOUS
<1>4. \A p \in 1 .. n : \A v \in V : step[<<p, v>>] = v \cup UNION {ShownIn(d) : d \in v}  OBVIOUS
<1> HIDE DEF step, n, V
<1>5. PICK g : Loops(g, n, V, {path}, step)  BY <1>0, <1>2, <1>3, LoopExists
<1>6. /\ g \in [0 .. n -> V] /\ g[0] = {path} /\ \A p \in 1 .. n : g[p] = step[<<p, g[p - 1]>>]
  BY <1>5 DEF Loops
<1>7. BelowOf(g, path)
  <2>1. ASSUME NEW p \in 0 .. n
        PROVE  g[p] = IF p = 0 THEN {path} ELSE g[p - 1] \cup UNION {ShownIn(d) : d \in g[p - 1]}
    <3>1. CASE p = 0  BY <1>6, <3>1
    <3>2. CASE p # 0
      <4>1. p \in 1 .. n /\ p - 1 \in 0 .. n  BY <1>0, <3>2
      <4>2. g[p - 1] \in V  BY <1>6, <4>1
      <4> QED  BY <1>4, <1>6, <3>2, <4>1, <4>2
    <3> QED  BY <3>1, <3>2
  <2> QED  BY <1>6, <2>1 DEF BelowOf, n
<1> DEFINE in == CHOOSE k : BelowOf(k, path)
<1>8. BelowOf(in, path)  BY <1>7
<1>9. Below(path) = in[n] \ Dangling  BY DEF Below, BelowOf, n
<1> HIDE DEF in
<1> QED  BY <1>8, <1>9 DEF n

(* As each round but the last adds an entry, the loop ends with all that   *)
(* is reached.                                                             *)
LEMMA BelowIs ==
  ASSUME NEW path \in Entries
  PROVE  Below(path) = Reach(path) \ Dangling
<1> DEFINE n == Cardinality(Entries)
<1>0. n \in Nat  BY EntriesFinite, FS_CardinalityType
<1>1. PICK in : BelowOf(in, path) /\ Below(path) = in[n] \ Dangling  BY BelowHasRun
<1>2. in[0] = {path} /\ \A i \in 1 .. n : in[i] = in[i - 1] \cup UNION {ShownIn(d) : d \in in[i - 1]}
  <2>1. 0 \in 0 .. n /\ \A i \in 1 .. n : i \in 0 .. n /\ i # 0  BY <1>0
  <2> QED  BY <1>1, <2>1 DEF BelowOf, n
<1>3. path \in Reach(path) /\ Reach(path) \subseteq Entries /\ Follows(Reach(path))  BY ReachIs
<1> HIDE DEF n
<1> DEFINE Grown(k) == /\ path \in in[k] /\ in[k] \subseteq Reach(path)
                       /\ Follows(in[k]) \/ k + 1 <= Cardinality(in[k])
           S == {k \in Nat : k <= n => Grown(k)}
<1>4. 0 \in S
  <2>1. Cardinality({path}) = 1  BY FS_Singleton
  <2>2. in[0] \subseteq Reach(path)  BY <1>2, <1>3
  <2> QED  BY <1>2, <2>1, <2>2
<1>5. ASSUME NEW k \in Nat, k \in S  PROVE k + 1 \in S
  <2> SUFFICES ASSUME k + 1 <= n  PROVE Grown(k + 1)
    OBVIOUS
  <2>1. k + 1 \in 1 .. n /\ (k + 1) - 1 = k /\ k <= n  BY <1>0
  <2>2. in[k + 1] = in[k] \cup UNION {ShownIn(d) : d \in in[k]}  BY <1>2, <2>1
  <2>3. Grown(k)  BY <1>5, <2>1
  <2>4. path \in in[k + 1] /\ in[k + 1] \subseteq Reach(path)
    <3>1. path \in in[k] /\ in[k] \subseteq Reach(path)  BY <2>3
    <3>2. \A d \in in[k] : ShownIn(d) \subseteq Reach(path)  BY <1>3, <3>1 DEF Follows
    <3> QED  BY <2>2, <3>1, <3>2
  <2>5. CASE Follows(in[k])
    <3>1. in[k + 1] = in[k]  BY <2>2, <2>5 DEF Follows
    <3> QED  BY <2>4, <2>5, <3>1
  <2>6. CASE ~Follows(in[k])
    <3>d. PICK d \in in[k] : ~(ShownIn(d) \subseteq in[k])  BY <2>6 DEF Follows
    <3>1. PICK y \in ShownIn(d) : y \notin in[k]  BY <3>d
    <3>2. in[k] \cup {y} \subseteq in[k + 1]  BY <2>2, <3>1
    <3>3. IsFiniteSet(in[k + 1])
      <4>1. in[k + 1] \subseteq Entries  BY <1>3, <2>4
      <4> QED  BY <4>1, EntriesFinite, FS_Subset
    <3>4. IsFiniteSet(in[k])
      <4>1. in[k] \subseteq in[k + 1]  BY <3>2
      <4> QED  BY <3>3, <4>1, FS_Subset
    <3>5. Cardinality(in[k] \cup {y}) = Cardinality(in[k]) + 1  BY <3>1, <3>4, FS_AddElement
    <3>6. Cardinality(in[k] \cup {y}) <= Cardinality(in[k + 1])  BY <3>2, <3>3, FS_Subset
    <3>7. k + 1 <= Cardinality(in[k])  BY <2>3, <2>6
    <3>8. Cardinality(in[k]) \in Nat /\ Cardinality(in[k + 1]) \in Nat  BY <3>3, <3>4, FS_CardinalityType
    <3>9. (k + 1) + 1 <= Cardinality(in[k + 1])  BY <3>5, <3>6, <3>7, <3>8
    <3> QED  BY <2>4, <3>9
  <2> QED  BY <2>5, <2>6
<1>6. Nat \subseteq S
  <2> HIDE DEF S
  <2> QED  BY <1>4, <1>5, NatInd
<1>7. Grown(n)
  <2>1. n \in S
    <3> HIDE DEF S
    <3> QED  BY <1>0, <1>6
  <2>2. n <= n  BY <1>0
  <2> HIDE DEF Grown
  <2> QED  BY <2>1, <2>2
<1>8. in[n] \subseteq Entries  BY <1>3, <1>7
<1>9. Follows(in[n])
  <2>1. Cardinality(in[n]) <= n  BY <1>8, EntriesFinite, FS_Subset DEF n
  <2>2. Cardinality(in[n]) \in Nat
    <3>1. IsFiniteSet(in[n])  BY <1>8, EntriesFinite, FS_Subset
    <3> QED  BY <3>1, FS_CardinalityType
  <2>3. ~(n + 1 <= Cardinality(in[n]))  BY <1>0, <2>1, <2>2
  <2> QED  BY <1>7, <2>3
<1>10. Reach(path) \subseteq in[n]
  <2>1. path \in in[n]  BY <1>7
  <2> QED  BY <1>8, <1>9, <2>1, ReachIs
<1>11. in[n] = Reach(path)  BY <1>7, <1>10
<1> QED  BY <1>1, <1>11

-------------------------------------------------------------------------------
(* The loop of BuildTree.                                                  *)
Node == [left : Seq(Entries), nodes : SUBSET Entries, count : Nat]

CountOne(before) ==
  LET child == Head(before.left) IN
  IF before.left = <<>> THEN before
  ELSE [left |-> Children(child) \o Tail(before.left),
        nodes |-> before.nodes \cup ({child} \ Dangling), count |-> before.count + 1]

TreeOf(shown, path) ==
  shown = [n \in 0 .. MaxTreeEntries |->
             IF n = 0 THEN [left |-> Children(path), nodes |-> {path}, count |-> 0] ELSE CountOne(shown[n - 1])]

(* One entry more is counted.                                              *)
LEMMA VisitTyped ==
  ASSUME NEW v \in Node
  PROVE  CountOne(v) \in Node
<1>1. CASE v.left = <<>>  BY <1>1 DEF CountOne
<1>2. CASE v.left # <<>>
  <2> DEFINE child == Head(v.left)
             left == Children(child) \o Tail(v.left)
             nodes == v.nodes \cup ({child} \ Dangling)
             count == v.count + 1
  <2>1. v.left \in Seq(Entries) /\ v.nodes \subseteq Entries /\ v.count \in Nat  BY DEF Node
  <2>2. child \in Entries /\ Tail(v.left) \in Seq(Entries)  BY <1>2, <2>1
  <2>3. Children(child) \in Seq(Entries)  BY ChildrenAre
  <2>4. left \in Seq(Entries)  BY <2>2, <2>3, ConcatProperties
  <2>5. nodes \subseteq Entries /\ count \in Nat  BY <2>1, <2>2
  <2>6. CountOne(v) = [left |-> left, nodes |-> nodes, count |-> count]  BY <1>2 DEF CountOne
  <2> HIDE DEF left, nodes, count
  <2> QED  BY <2>4, <2>5, <2>6 DEF Node
<1> QED  BY <1>1, <1>2

(* BuildTree is that loop.                                                 *)
LEMMA TreeHasRun ==
  ASSUME NEW path \in Entries
  PROVE  \E shown : TreeOf(shown, path) /\ BuildTree(path) = shown[MaxTreeEntries]
<1> DEFINE n == MaxTreeEntries
           base == [left |-> Children(path), nodes |-> {path}, count |-> 0]
           step == [z \in (1 .. n) \X Node |-> CountOne(z[2])]
<1>0. n \in Nat  BY ReadsAssumption
<1>1. base \in Node
  <2>1. Children(path) \in Seq(Entries)  BY ChildrenAre
  <2> QED  BY <2>1 DEF Node
<1>2. step \in [(1 .. n) \X Node -> Node] /\ \A p \in 1 .. n : \A v \in Node : step[<<p, v>>] = CountOne(v)
  <2>1. \A z \in (1 .. n) \X Node : z[2] \in Node  OBVIOUS
  <2>2. \A z \in (1 .. n) \X Node : CountOne(z[2]) \in Node  BY <2>1, VisitTyped
  <2> QED  BY <2>2
<1> HIDE DEF step, n, base
<1>5. PICK g : Loops(g, n, Node, base, step)  BY <1>0, <1>1, <1>2, LoopExists
<1>6. /\ g \in [0 .. n -> Node] /\ g[0] = base /\ \A p \in 1 .. n : g[p] = step[<<p, g[p - 1]>>]
  BY <1>5 DEF Loops
<1>7. TreeOf(g, path)
  <2>1. ASSUME NEW p \in 0 .. n
        PROVE  g[p] = IF p = 0 THEN base ELSE CountOne(g[p - 1])
    <3>1. CASE p = 0  BY <1>6, <3>1
    <3>2. CASE p # 0
      <4>1. p \in 1 .. n /\ p - 1 \in 0 .. n  BY <1>0, <3>2
      <4>2. g[p - 1] \in Node  BY <1>6, <4>1
      <4> QED  BY <1>2, <1>6, <3>2, <4>1, <4>2
    <3> QED  BY <3>1, <3>2
  <2> QED  BY <1>6, <2>1 DEF TreeOf, n, base
<1> DEFINE shown == CHOOSE k : TreeOf(k, path)
<1>8. TreeOf(shown, path)  BY <1>7
<1>9. BuildTree(path) = shown[n]  BY DEF BuildTree, TreeOf, CountOne, n
<1> HIDE DEF shown
<1> QED  BY <1>8, <1>9 DEF n

(* v is what has been shown of a folder once k entries have been counted.  *)
Visited(v, path, k) ==
  /\ v \in Node /\ IsFiniteSet(v.nodes) /\ Cardinality(v.nodes) <= v.count + 1
  /\ v.count <= k /\ (v.left # <<>> => v.count = k)
  /\ Range(v.left) \subseteq Reach(path)
  /\ \E C \in SUBSET Reach(path) :
       /\ v.nodes = {path} \cup (C \ Dangling)
       /\ \A d \in {path} \cup C : ShownIn(d) \subseteq C \cup Range(v.left)

(* At first there is the folder, and what is in it is left.                *)
LEMMA VisitBegins ==
  ASSUME NEW path \in Entries
  PROVE  Visited([left |-> Children(path), nodes |-> {path}, count |-> 0], path, 0)
<1> DEFINE v == [left |-> Children(path), nodes |-> {path}, count |-> 0]
<1>1. Children(path) \in Seq(Entries) /\ Range(Children(path)) = ShownIn(path)  BY ChildrenAre
<1>2. v \in Node /\ v.left = Children(path) /\ v.nodes = {path} /\ v.count = 0  BY <1>1 DEF Node
<1> HIDE DEF v
<1>3. IsFiniteSet({path}) /\ Cardinality({path}) = 1  BY FS_Singleton
<1>4. ShownIn(path) \subseteq Reach(path)
  <2>1. path \in Reach(path) /\ Follows(Reach(path))  BY ReachIs
  <2> QED  BY <2>1 DEF Follows
<1>5. \E C \in SUBSET Reach(path) :
        /\ v.nodes = {path} \cup (C \ Dangling)
        /\ \A d \in {path} \cup C : ShownIn(d) \subseteq C \cup Range(v.left)
  <2>1. {} \in SUBSET Reach(path) /\ v.nodes = {path} \cup ({} \ Dangling)  BY <1>2
  <2>2. \A d \in {path} \cup {} : ShownIn(d) \subseteq {} \cup Range(v.left)  BY <1>1, <1>2
  <2> QED  BY <2>1, <2>2
<1>7. IsFiniteSet(v.nodes) /\ Cardinality(v.nodes) <= v.count + 1 /\ v.count <= 0 /\ v.count = 0  BY <1>2, <1>3
<1>8. Range(v.left) \subseteq Reach(path)  BY <1>1, <1>2, <1>4
<1>6. Visited(v, path, 0)
  <2> HIDE DEF Reach
  <2> QED  BY <1>2, <1>5, <1>7, <1>8 DEF Visited
<1> QED  BY <1>6 DEF v

(* What an entry that is counted shows is left, or has been counted.       *)
LEMMA VisitKeeps ==
  ASSUME NEW path \in Entries, NEW k \in Nat, NEW v, Visited(v, path, k)
  PROVE  Visited(CountOne(v), path, k + 1)
<1>0. /\ v \in Node /\ IsFiniteSet(v.nodes) /\ Cardinality(v.nodes) <= v.count + 1
      /\ v.count <= k /\ (v.left # <<>> => v.count = k) /\ Range(v.left) \subseteq Reach(path)
  BY DEF Visited
<1>1. v.left \in Seq(Entries) /\ v.nodes \subseteq Entries /\ v.count \in Nat  BY <1>0 DEF Node
<1>2. PICK C \in SUBSET Reach(path) :
        /\ v.nodes = {path} \cup (C \ Dangling)
        /\ \A d \in {path} \cup C : ShownIn(d) \subseteq C \cup Range(v.left)
  BY DEF Visited
<1>3. CASE v.left = <<>>
  <2>1. CountOne(v) = v  BY <1>3 DEF CountOne
  <2>2. v.count <= k + 1  BY <1>0, <1>1
  <2> QED  BY <1>0, <1>2, <1>3, <2>1, <2>2 DEF Visited
<1>4. CASE v.left # <<>>
  <2> DEFINE child == Head(v.left)
             rest == Tail(v.left)
             w == CountOne(v)
             D == C \cup {child}
  <2>1. /\ w.left = Children(child) \o rest /\ w.nodes = v.nodes \cup ({child} \ Dangling)
        /\ w.count = v.count + 1
    BY <1>4 DEF CountOne
  <2>2. w \in Node  BY <1>0, VisitTyped
  <2>3. child \in Range(v.left) /\ Range(rest) \subseteq Range(v.left) /\ rest \in Seq(Entries)
        /\ Range(v.left) = {child} \cup Range(rest)
    <3>1. v.left = <<child>> \o rest /\ <<child>> \in Seq(Entries) /\ rest \in Seq(Entries)  BY <1>1, <1>4
    <3>2. Range(v.left) = Range(<<child>>) \cup Range(rest)  BY <3>1, RangeConcatenation
    <3>3. Range(<<child>>) = {child}
      <4>1. DOMAIN <<child>> = {1} /\ <<child>>[1] = child  OBVIOUS
      <4> HIDE DEF child
      <4> QED  BY <4>1 DEF Range
    <3> QED  BY <3>1, <3>2, <3>3
  <2> HIDE DEF w, rest
  <2>4. Range(w.left) = ShownIn(child) \cup Range(rest)
    <3>1. Children(child) \in Seq(Entries) /\ Range(Children(child)) = ShownIn(child)  BY ChildrenAre
    <3> QED  BY <2>1, <2>3, <3>1, RangeConcatenation
  <2> HIDE DEF child
  <2>5. child \in Reach(path) /\ ShownIn(child) \subseteq Reach(path)
    <3>1. child \in Reach(path)  BY <1>0, <2>3
    <3>2. Follows(Reach(path))  BY ReachIs
    <3> QED  BY <3>1, <3>2 DEF Follows
  <2>6. Range(w.left) \subseteq Reach(path)  BY <1>0, <2>3, <2>4, <2>5
  <2>7. D \in SUBSET Reach(path)  BY <2>5
  <2>8. w.nodes = {path} \cup (D \ Dangling)  BY <1>2, <2>1
  <2>9. \A d \in {path} \cup D : ShownIn(d) \subseteq D \cup Range(w.left)
    <3> SUFFICES ASSUME NEW d \in {path} \cup D  PROVE ShownIn(d) \subseteq D \cup Range(w.left)
      OBVIOUS
    <3>1. CASE d = child  BY <2>4, <3>1
    <3>2. CASE d # child
      <4>1. d \in {path} \cup C  BY <3>2
      <4>2. ShownIn(d) \subseteq C \cup Range(v.left)  BY <1>2, <4>1
      <4> QED  BY <2>3, <2>4, <4>2
    <3> QED  BY <3>1, <3>2
  <2>10. IsFiniteSet(w.nodes) /\ Cardinality(w.nodes) <= w.count + 1
    <3>1. w.nodes = v.nodes \/ w.nodes = v.nodes \cup {child}  BY <2>1
    <3>2. IsFiniteSet(v.nodes \cup {child})
          /\ Cardinality(v.nodes \cup {child}) = IF child \in v.nodes THEN Cardinality(v.nodes)
                                                 ELSE Cardinality(v.nodes) + 1
      BY <1>0, FS_AddElement
    <3>3. Cardinality(v.nodes) \in Nat  BY <1>0, FS_CardinalityType
    <3>4. CASE w.nodes = v.nodes
      <4>1. Cardinality(v.nodes) <= (v.count + 1) + 1  BY <1>0, <1>1, <3>3
      <4> QED  BY <1>0, <2>1, <3>4, <4>1
    <3>5. CASE w.nodes = v.nodes \cup {child}
      <4>1. Cardinality(v.nodes \cup {child}) <= (v.count + 1) + 1  BY <1>0, <1>1, <3>2, <3>3
      <4> QED  BY <2>1, <3>2, <3>5, <4>1
    <3> QED  BY <3>1, <3>4, <3>5
  <2>11. w.count <= k + 1 /\ w.count = k + 1  BY <1>0, <1>4, <2>1
  <2> HIDE DEF D
  <2>12. \E E \in SUBSET Reach(path) :
           /\ w.nodes = {path} \cup (E \ Dangling)
           /\ \A d \in {path} \cup E : ShownIn(d) \subseteq E \cup Range(w.left)
    BY <2>7, <2>8, <2>9
  <2>13. Visited(w, path, k + 1)  BY <2>2, <2>6, <2>10, <2>11, <2>12 DEF Visited
  <2> QED  BY <2>13 DEF w
<1> QED  BY <1>3, <1>4

(* What a tree shows.                                                      *)
TreeIs(tree, path) ==
  /\ tree.nodes \subseteq Below(path)
  /\ ~(tree.count >= MaxTreeEntries) => tree.nodes = Below(path)
  /\ Cardinality(tree.nodes) <= MaxTreeEntries + 1

(* A tree that did not reach its limit has nothing left: it is all that is *)
(* reached.                                                                *)
LEMMA BuildTreeIs ==
  ASSUME NEW path \in Entries, path \notin Dangling
  PROVE  TreeIs(BuildTree(path), path)
<1> DEFINE n == MaxTreeEntries
           tree == BuildTree(path)
<1>0. n \in Nat  BY ReadsAssumption
<1>1. PICK shown : TreeOf(shown, path) /\ tree = shown[n]  BY TreeHasRun
<1> HIDE DEF tree
<1>2. /\ shown[0] = [left |-> Children(path), nodes |-> {path}, count |-> 0]
      /\ \A i \in 1 .. n : shown[i] = CountOne(shown[i - 1])
  <2>1. 0 \in 0 .. n /\ \A i \in 1 .. n : i \in 0 .. n /\ i # 0  BY <1>0
  <2> QED  BY <1>1, <2>1 DEF TreeOf
<1> HIDE DEF n
<1> DEFINE S == {k \in Nat : k <= n => Visited(shown[k], path, k)}
<1>3. 0 \in S  BY <1>2, VisitBegins
<1>4. ASSUME NEW k \in Nat, k \in S  PROVE k + 1 \in S
  <2> SUFFICES ASSUME k + 1 <= n  PROVE Visited(shown[k + 1], path, k + 1)
    OBVIOUS
  <2>1. k + 1 \in 1 .. n /\ (k + 1) - 1 = k /\ k <= n  BY <1>0
  <2>2. Visited(shown[k], path, k)  BY <1>4, <2>1
  <2>3. shown[k + 1] = CountOne(shown[k])  BY <1>2, <2>1
  <2> QED  BY <2>2, <2>3, VisitKeeps
<1>5. Nat \subseteq S
  <2> HIDE DEF S
  <2> QED  BY <1>3, <1>4, NatInd
<1>6. Visited(tree, path, n)
  <2>1. n \in S
    <3> HIDE DEF S
    <3> QED  BY <1>0, <1>5
  <2>2. n <= n  BY <1>0
  <2>3. Visited(shown[n], path, n)  BY <2>1, <2>2
  <2> QED  BY <1>1, <2>3
<1>7. /\ tree \in Node /\ IsFiniteSet(tree.nodes) /\ Cardinality(tree.nodes) <= tree.count + 1
      /\ tree.count <= n /\ (tree.left # <<>> => tree.count = n)
  BY <1>6 DEF Visited
<1>8. PICK C \in SUBSET Reach(path) :
        /\ tree.nodes = {path} \cup (C \ Dangling)
        /\ \A d \in {path} \cup C : ShownIn(d) \subseteq C \cup Range(tree.left)
  BY <1>6 DEF Visited
<1>9. Below(path) = Reach(path) \ Dangling /\ path \in Reach(path) /\ Reach(path) \subseteq Entries  BY BelowIs, ReachIs
<1>10. tree.nodes \subseteq Below(path)  BY <1>8, <1>9
<1>11. tree.count \in Nat /\ Cardinality(tree.nodes) \in Nat  BY <1>7, FS_CardinalityType DEF Node
<1>12. Cardinality(tree.nodes) <= n + 1  BY <1>0, <1>7, <1>11
<1>13. ASSUME ~(tree.count >= n)  PROVE tree.nodes = Below(path)
  <2>1. tree.left = <<>>  BY <1>0, <1>7, <1>11, <1>13
  <2>2. Range(tree.left) = {}
    <3>1. DOMAIN <<>> = {}  OBVIOUS
    <3> QED  BY <2>1, <3>1 DEF Range
  <2> DEFINE X == {path} \cup C
  <2>3. Follows(X)  BY <1>8, <2>2 DEF Follows
  <2>4. X \in SUBSET Entries /\ path \in X  BY <1>9
  <2> HIDE DEF X
  <2>5. Reach(path) \subseteq X  BY <2>3, <2>4, ReachIs
  <2> QED  BY <1>8, <1>9, <1>10, <2>5 DEF X
<1> QED  BY <1>10, <1>12, <1>13 DEF TreeIs, tree, n

-------------------------------------------------------------------------------
(* All of them together.                                                   *)
TreeInv ==
  reading.kind = "tree" =>
    /\ reading.path \in Entries \ Dangling /\ reading.nodes = BuildTree(reading.path).nodes
    /\ reading.truncated = (BuildTree(reading.path).count >= MaxTreeEntries)

(* So what Tree answers is whole, or says that it is not.                  *)
LEMMA TreeTells == TreeInv => TreeWhole
<1> SUFFICES ASSUME TreeInv, Complete("tree")  PROVE TreeWhole
  BY DEF TreeWhole
<1>1. /\ reading.path \in Entries \ Dangling /\ reading.nodes = BuildTree(reading.path).nodes
      /\ reading.truncated = (BuildTree(reading.path).count >= MaxTreeEntries)
  BY DEF TreeInv, Complete
<1>2. TreeIs(BuildTree(reading.path), reading.path)  BY <1>1, BuildTreeIs
<1> QED  BY <1>1, <1>2 DEF TreeIs, TreeWhole

(* Which request is under way, and what is left of it.                     *)
KindInv ==
  /\ reading.kind \in {"none", "context", "search", "file", "tree"}
  /\ reading.todo \in Seq(File)

(* The state of a request that its answer is true by.                      *)
ReadsInv == DiskInv /\ SearchInv /\ ContextInv /\ FileInv /\ TreeInv /\ KindInv

(* An answer stays as it was given until the next request.                 *)
LEMMA AnswersStep ==
  WorkTypeOK /\ ReadsInv /\ [ReadsNext]_readsVars => FileInv' /\ TreeInv' /\ KindInv'
<1> SUFFICES ASSUME WorkTypeOK, ReadsInv, [ReadsNext]_readsVars  PROVE FileInv' /\ TreeInv' /\ KindInv'
  OBVIOUS
<1>0. FileInv /\ TreeInv /\ KindInv  BY DEF ReadsInv
<1>1. CASE UNCHANGED reading
  <2>1. (FileInv' <=> FileInv) /\ (TreeInv' <=> TreeInv) /\ (KindInv' <=> KindInv)
    BY <1>1 DEF FileInv, TreeInv, KindInv
  <2> QED  BY <1>0, <2>1
<1>t. reading.todo # <<>> => Tail(reading.todo) \in Seq(File)  BY <1>0 DEF KindInv
<1>2. CASE ReadForContext
  <2> DEFINE found == IF Readable(Head(reading.todo)) /\ Candidate(Head(reading.todo)).score > 0
                      THEN Append(reading.found, Candidate(Head(reading.todo))) ELSE reading.found
             files == IF Tail(reading.todo) = <<>> THEN Best(found, reading.query) ELSE <<>>
  <2>1. reading' = [reading EXCEPT !.todo = Tail(@), !.found = found, !.files = files]
        /\ reading.kind = "context" /\ reading.todo # <<>>
    BY <1>2 DEF ReadForContext
  <2>2. reading \in Asking  BY <2>1 DEF ReadsInv, ContextInv, ContextKept
  <2> HIDE DEF found, files
  <2>3. reading'.kind = "context" /\ reading'.todo = Tail(reading.todo)  BY <2>1, <2>2 DEF Asking
  <2> QED  BY <1>t, <2>1, <2>3 DEF FileInv, TreeInv, KindInv
<1>3. CASE ReadForSearch
  <2> DEFINE f == Head(reading.todo)
             hits == IF Readable(f) THEN ScanFile(reading.hits, f, reading.words) ELSE reading.hits
             of == Append(reading.of, IF Readable(f) THEN disk[f] ELSE <<>>)
  <2>1. reading.kind = "search" /\ reading' = [reading EXCEPT !.todo = Tail(@), !.hits = hits, !.of = of]
        /\ reading.todo # <<>>
    BY <1>3 DEF ReadForSearch
  <2>2. reading \in Searching  BY <2>1 DEF ReadsInv, SearchInv, SearchKept
  <2> HIDE DEF hits, of
  <2>3. reading'.kind = "search" /\ reading'.todo = Tail(reading.todo)  BY <2>1, <2>2 DEF Searching
  <2> QED  BY <1>t, <2>1, <2>3 DEF FileInv, TreeInv, KindInv
<1>p. PathOrder \in Seq(File) /\ <<>> \in Seq(File)  BY ReadsAssumption
<1>4. ASSUME NEW query \in Queries, BeginContext(query) \/ BeginSearch(query.words)
      PROVE  FileInv' /\ TreeInv' /\ KindInv'
  <2>1. reading'.kind \in {"context", "search"} /\ reading'.todo = PathOrder  BY <1>4 DEF BeginContext, BeginSearch
  <2> QED  BY <1>p, <2>1 DEF FileInv, TreeInv, KindInv
<1>5. ASSUME NEW f \in File, ReadFile(f)  PROVE FileInv' /\ TreeInv' /\ KindInv'
  <2>1. disk[f] \in Seq(Symbol)  BY DEF WorkTypeOK
  <2>2. reading' = [kind |-> "file", todo |-> <<>>, content |-> disk[f], lines |-> LineCount(disk[f])]
    BY <1>5 DEF ReadFile
  <2>3. reading'.kind = "file" /\ reading'.todo = <<>> /\ reading'.content = disk[f] /\ reading'.lines = LineCount(disk[f])
    BY <2>2
  <2> QED  BY <1>p, <2>1, <2>3 DEF FileInv, TreeInv, KindInv
<1>6. ASSUME NEW path \in Entries, Tree(path)  PROVE FileInv' /\ TreeInv' /\ KindInv'
  <2>1. /\ path \notin Dangling /\ reading'.kind = "tree" /\ reading'.todo = <<>> /\ reading'.path = path
        /\ reading'.nodes = BuildTree(path).nodes
        /\ reading'.truncated = (BuildTree(path).count >= MaxTreeEntries)
    BY <1>6 DEF Tree
  <2> QED  BY <1>p, <2>1 DEF FileInv, TreeInv, KindInv
<1>7. UNCHANGED readsVars => UNCHANGED reading  BY DEF readsVars
<1> QED  BY <1>1, <1>2, <1>3, <1>4, <1>5, <1>6, <1>7 DEF ReadsNext

(* At the start nothing has been asked for.                                *)
LEMMA ReadsInvInit == ReadsInit => WorkTypeOK /\ PatchAnswers /\ ReadsInv
<1>1. ReadsInit => WorkTypeOK /\ PatchAnswers  BY WorkInitTyped DEF ReadsInit
<1>2. ReadsInit => reading = NoReading /\ DiskInv  BY DEF ReadsInit, WorkInit, DiskInv
<1>3. <<>> \in Seq(File)  OBVIOUS
<1>4. reading = NoReading /\ DiskInv => ReadsInv
  BY <1>3 DEF NoReading, ReadsInv, SearchInv, ContextInv, FileInv, TreeInv, KindInv
<1> QED  BY <1>1, <1>2, <1>4

(* Every step keeps all of it, with the files' types.                      *)
LEMMA ReadsInvStep ==
  WorkTypeOK /\ PatchAnswers /\ ReadsInv /\ [ReadsNext]_readsVars => WorkTypeOK' /\ PatchAnswers' /\ ReadsInv'
<1> SUFFICES ASSUME WorkTypeOK, PatchAnswers, ReadsInv, [ReadsNext]_readsVars
             PROVE  WorkTypeOK' /\ PatchAnswers' /\ ReadsInv'
  OBVIOUS
<1>1. WorkTypeOK' /\ PatchAnswers'  BY WorkStepTyped, ReadsAreSteps
<1>2. SearchInv' /\ ContextInv' /\ DiskInv'  BY SearchInvStep, ContextInvStep, DiskInvStep DEF ReadsInv
<1>3. FileInv' /\ TreeInv' /\ KindInv'  BY AnswersStep
<1> QED  BY <1>1, <1>2, <1>3 DEF ReadsInv

(* The state of the workspaces and of the request under way has its types. *)
THEOREM ReadsTypes == ReadsSpec => []ReadsTypeOK
<1>1. WorkTypeOK /\ ReadsInv => ReadsTypeOK
  <2> SUFFICES ASSUME WorkTypeOK, KindInv  PROVE ReadsTypeOK
    BY DEF ReadsInv
  <2>1. reading.todo \in Seq(File)  BY DEF KindInv
  <2>2. Range(reading.todo) \subseteq File  BY <2>1, RangeOfSeq
  <2> QED  BY <2>2 DEF ReadsTypeOK, KindInv
<1> QED  BY <1>1, ReadsInvInit, ReadsInvStep, PTL DEF ReadsSpec

(* What a client is shown of its files is what was there when they were    *)
(* read, by the numbers that a patch will use.  A tree is whole or said    *)
(* not to be; a search that is not full lacks nothing but lines from one   *)
(* on that is too long to scan, which the answer does not tell; and an     *)
(* excerpt shows the first place where a word of the query is, unless that *)
(* is far down a line or lower case changes the length of what is before   *)
(* it (workspace.Handler's Context, Search, Tree and ReadFile).            *)
THEOREM ReadsAreTrue == ReadsSpec => []ShownAsRead
<1>1. ReadsInv => ShownAsRead
  <2>1. ReadsInv => ContextAsRead  BY ContextTells DEF ReadsInv
  <2>2. ReadsInv => SearchWhole  BY SearchTells DEF ReadsInv
  <2>3. ReadsInv => TreeWhole  BY TreeTells DEF ReadsInv
  <2>4. ReadsInv /\ Complete("file") => reading.lines = Len(LineSeq(reading.content))  BY FileTells DEF ReadsInv
  <2> QED  BY <2>1, <2>2, <2>3, <2>4 DEF ShownAsRead, ListedWhole
<1> QED  BY <1>1, ReadsInvInit, ReadsInvStep, PTL DEF ReadsSpec
===================================================================================
