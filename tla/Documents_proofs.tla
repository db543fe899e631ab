---------------------------- MODULE Documents_proofs ----------------------------
(* Proofs about Documents: HeadingsOnce, that concurrent jobs segment every  *)
(* heading once, and ExportFollows, that whatever was in the file comes out  *)
(* of both exports. The second rests on an invariant of three parts          *)
(* (DocumentInv) and on what Parse does with any file, which is told item by *)
(* item: DocumentOK says what the document that is read has of the first n   *)
(* items, and ReadStep that one item more keeps it.                          *)
EXTENDS Documents, FiniteSetTheorems, SequenceTheorems, WellFoundedInduction, TLAPS

-------------------------------------------------------------------------------
(* Numbers, and the chapters that a file is divided into.                    *)

(* Induction over the numbers: a set of them has a least.                    *)
LEMMA Least ==
  ASSUME NEW T \in SUBSET Nat, T # {}
  PROVE  \E n \in T : \A m \in T : n <= m
<1>1. PICK n \in T : \A m \in T : ~(<<m, n>> \in OpToRel(<, Nat))
  BY NatLessThanWellFounded, WFMin, Zenon
<1>2. \A m \in T : m \in Nat /\ n \in Nat /\ ~(m < n)
  BY <1>1 DEF OpToRel
<1>3. QED
  BY <1>2

(* Min and Max, of numbers.                                                  *)
LEMMA MinIs ==
  ASSUME NEW S \in SUBSET Nat, S # {}
  PROVE  Min(S) \in S /\ \A x \in S : Min(S) <= x
  BY Least DEF Min

LEMMA MaxIs ==
  ASSUME NEW S \in SUBSET Nat, S # {}, NEW b \in Nat, \A x \in S : x <= b
  PROVE  Max(S) \in S /\ \A x \in S : x <= Max(S)
<1> DEFINE T == {b - x : x \in S}
<1>1. T \in SUBSET Nat /\ T # {}
  <2>1. \A x \in S : x \in Nat /\ x <= b
    OBVIOUS
  <2>2. \A x \in S : b - x \in Nat
    BY <2>1
  <2>3. QED
    BY <2>2
<1>2. PICK t \in T : \A u \in T : t <= u
  BY <1>1, Least
<1>3. PICK m \in S : t = b - m
  OBVIOUS
<1>4. \A x \in S : m >= x
  <2> TAKE x \in S
  <2>1. b - x \in T
    OBVIOUS
  <2>2. b - m <= b - x
    BY <1>2, <1>3, <2>1
  <2>3. QED
    BY <2>2
<1>5. Max(S) \in S /\ \A x \in S : Max(S) >= x
  BY <1>4 DEF Max
<1>6. QED
  BY <1>5

(* The greatest of a set is known when one element is.                       *)
LEMMA MaxOf ==
  ASSUME NEW S \in SUBSET Nat, NEW m \in S, \A x \in S : x <= m
  PROVE  Max(S) = m
<1>1. Max(S) \in S /\ \A x \in S : x <= Max(S)
  BY MaxIs
<1>2. Max(S) \in Nat /\ m \in Nat /\ m <= Max(S) /\ Max(S) <= m
  BY <1>1
<1>3. QED
  BY <1>2

-------------------------------------------------------------------------------
(* The chapters of a file.                                                   *)

Starts(i) == IF format = "docx" THEN file[i].kind = "heading" /\ file[i].level = 1 ELSE file[i].kind = "break"

(* The chapter of an item, of which the definition by recursion is known.    *)
LEMMA ChapterIs ==
  /\ \A n \in Nat : ChapterOf(n) \in Nat
  /\ ChapterOf(0) = 0
  /\ \A n \in Nat : ChapterOf(n + 1) = IF Starts(n + 1) THEN ChapterOf(n) + 1 ELSE ChapterOf(n)
<1> DEFINE T(n) == {j \in 1..n : Starts(j)}
<1>1. \A n : ChapterOf(n) = Cardinality(T(n))
  BY DEF ChapterOf, Starts
<1>2. ASSUME NEW n \in Nat PROVE IsFiniteSet(T(n)) /\ Cardinality(T(n)) \in Nat
  <2>1. IsFiniteSet(1..n) /\ T(n) \subseteq 1..n
    BY FS_Interval
  <2>2. QED
    BY <2>1, FS_Subset, FS_CardinalityType
<1>3. T(0) = {} /\ Cardinality({}) = 0
  BY FS_EmptySet
<1>4. ASSUME NEW n \in Nat
      PROVE  Cardinality(T(n + 1)) = IF Starts(n + 1) THEN Cardinality(T(n)) + 1 ELSE Cardinality(T(n))
  <2>1. CASE Starts(n + 1)
    <3>1. T(n + 1) = T(n) \union {n + 1} /\ n + 1 \notin T(n)
      BY <2>1
    <3>2. QED
      BY <1>2, <2>1, <3>1, FS_AddElement
  <2>2. CASE ~Starts(n + 1)
    <3>1. T(n + 1) = T(n)
      <4>1. \A j \in 1..(n + 1) : j \in 1..n \/ j = n + 1
        OBVIOUS
      <4>2. QED
        BY <2>2, <4>1
    <3>2. QED
      BY <2>2, <3>1
  <2>3. QED
    BY <2>1, <2>2
<1> HIDE DEF T
<1>5. QED
  BY <1>1, <1>2, <1>3, <1>4

(* Chapters follow one another.                                              *)
LEMMA ChapterGrows == \A n \in Nat : \A m \in Nat : m <= n => ChapterOf(m) <= ChapterOf(n)
<1> SUFFICES ASSUME NEW m \in Nat PROVE \A n \in Nat : m <= n => ChapterOf(m) <= ChapterOf(n)
  OBVIOUS
<1> DEFINE Bad == {n \in Nat : m <= n /\ ~(ChapterOf(m) <= ChapterOf(n))}
<1>1. SUFFICES ASSUME Bad # {} PROVE FALSE
  OBVIOUS
<1>2. PICK n \in Bad : \A k \in Bad : n <= k
  BY <1>1, Least
<1>3. n # m
  BY <1>2, ChapterIs
<1>4. n - 1 \in Nat /\ m <= n - 1 /\ n - 1 \notin Bad
  BY <1>2, <1>3
<1>5. ChapterOf(m) <= ChapterOf(n - 1)
  BY <1>4
<1>6. ChapterOf(n - 1) <= ChapterOf(n)
  <2>1. ChapterOf((n - 1) + 1) = IF Starts((n - 1) + 1) THEN ChapterOf(n - 1) + 1 ELSE ChapterOf(n - 1)
    BY <1>4, ChapterIs
  <2>2. (n - 1) + 1 = n
    BY <1>2
  <2>3. ChapterOf(n - 1) \in Nat
    BY <1>4, ChapterIs
  <2>4. QED
    BY <2>1, <2>2, <2>3
<1>7. QED
  BY <1>2, <1>4, <1>5, <1>6, ChapterIs

-------------------------------------------------------------------------------
(* Parse reads the file item by item.                                        *)

ReadItem(d, i) == IF format = "docx" THEN DocxItem(d, i) ELSE EpubElement(d, i)

Reading(g, n) == g = [i \in 0..n |-> IF i = 0 THEN NoDocument ELSE ReadItem(g[i - 1], i)]

(* The recursive function of Parse exists.                                   *)
LEMMA ReadingExists == \A n \in Nat : \E g : Reading(g, n)
<1> DEFINE Bad == {n \in Nat : ~\E g : Reading(g, n)}
<1>1. SUFFICES ASSUME Bad # {} PROVE FALSE
  OBVIOUS
<1>2. PICK n \in Bad : \A m \in Bad : n <= m
  BY <1>1, Least
<1>3. CASE n = 0
  <2> DEFINE g == [i \in 0..0 |-> NoDocument]
  <2>1. Reading(g, 0)
    BY DEF Reading
  <2>2. QED
    BY <1>2, <1>3, <2>1
<1>4. CASE n # 0
  <2>1. n - 1 \in Nat /\ n - 1 \notin Bad
    BY <1>2, <1>4
  <2>2. PICK g : Reading(g, n - 1)
    BY <2>1
  <2> DEFINE h == [i \in 0..n |-> IF i = n THEN ReadItem(g[n - 1], n) ELSE g[i]]
  <2>3. Reading(h, n)
    <3>1. \A i \in 0..(n - 1) : h[i] = g[i] /\ g[i] = IF i = 0 THEN NoDocument ELSE ReadItem(g[i - 1], i)
      BY <1>2, <2>1, <2>2 DEF Reading
    <3>2. \A i \in 0..n : h[i] = IF i = 0 THEN NoDocument ELSE ReadItem(h[i - 1], i)
      <4> TAKE i \in 0..n
      <4>1. CASE i = n
        BY <1>2, <1>4, <4>1, <3>1
      <4>2. CASE i # n
        BY <1>2, <1>4, <4>2, <3>1
      <4>3. QED
        BY <4>1, <4>2
    <3>3. QED
      BY <3>2 DEF Reading
  <2>4. QED
    BY <1>2, <2>3
<1>5. QED
  BY <1>3, <1>4

(* What Parse makes of the document that it has read.                        *)
Chapters(d) ==
  IF d.chapters = <<>> THEN <<Blank(BookTitle)>>
  ELSE IF format = "docx" /\ Len(d.chapters) = 1 /\ d.chapters[1].title = None
  THEN <<[d.chapters[1] EXCEPT !.title = BookTitle]>>
  ELSE d.chapters

Result(d) ==
  [chapters |-> [k \in DOMAIN Chapters(d) |->
                   Stored(Chapters(d)[k], IF format = "docx" THEN NotesOf(Chapters(d), k) ELSE <<>>)],
   assets   |-> d.assets]

(* Parse is the result of such a reading.                                    *)
LEMMA ParseReads ==
  ASSUME Len(file) \in Nat
  PROVE  \E g : Reading(g, Len(file)) /\ Parse = Result(Close(g[Len(file)]))
<1> DEFINE h == CHOOSE g : Reading(g, Len(file))
<1>1. Reading(h, Len(file))
  BY ReadingExists
<1> DEFINE r == CHOOSE g : g = [n \in 0..Len(file) |->
                      IF n = 0 THEN NoDocument
                      ELSE IF format = "docx" THEN DocxItem(g[n - 1], n) ELSE EpubElement(g[n - 1], n)]
           d == Close(r[Len(file)])
           untitled == format = "docx" /\ Len(d.chapters) = 1 /\ d.chapters[1].title = None
           chapters == CASE d.chapters = <<>> -> <<Blank(BookTitle)>>
                         [] untitled          -> <<[d.chapters[1] EXCEPT !.title = BookTitle]>>
                         [] OTHER             -> d.chapters
<1>2. r = h
  BY DEF Reading, ReadItem
<1>3. Parse = [chapters |-> [k \in DOMAIN chapters |->
                       Stored(chapters[k], IF format = "docx" THEN NotesOf(chapters, k) ELSE <<>>)],
               assets   |-> d.assets]
  BY DEF Parse
<1>4. chapters = Chapters(d)
  <2> HIDE DEF d
  <2>1. Len(<<>>) = 0
    OBVIOUS
  <2>2. d.chapters = <<>> => ~untitled
    BY <2>1
  <2>3. QED
    BY <2>2 DEF Chapters
<1> HIDE DEF chapters, h, r
<1>5. Parse = Result(d)
  BY <1>3, <1>4 DEF Result
<1>6. QED
  BY <1>1, <1>2, <1>5

-------------------------------------------------------------------------------
(* The types of what is read.                                                *)

AllItems == DocxItems \union EpubItems
NoteIds  == {0} \union Notes \union {item.note : item \in AllItems}
Pictures == {0} \union {item.image : item \in AllItems}
TextSet  == ({"item", "inner", "none", "title"} \X Nat) \union ({"note"} \X NoteIds)

BlockSet ==
  [type : {"heading", "text", "caption", "table", "note", "figure"}, text : TextSet, section : Nat,
   level : Levels, parts : Nat \ {0}, note : NoteIds, asset : Nat, target : Nat]

SectionSet == [level : Levels, title : TextSet, parent : Nat]

ChapterSet == [title : TextSet, sections : Seq(SectionSet), blocks : Seq(BlockSet),
               stack : [Levels -> Nat], section : Nat, target : Nat]

DocumentSet == [chapters : Seq(ChapterSet), current : ChapterSet, assets : Seq(Pictures)]

FileOK == /\ format \in Formats
          /\ file \in Seq(ItemsOf(format))

(* What is known of an item of either format.                                *)
LEMMA ItemIs ==
  ASSUME FileOK, NEW i \in 1..Len(file)
  PROVE  /\ i \in Nat /\ Len(file) \in Nat /\ DOMAIN file = 1..Len(file)
         /\ file[i] \in AllItems /\ file[i].level \in Levels /\ file[i].parts \in Nat \ {0}
         /\ file[i].note \in NoteIds /\ file[i].image \in Pictures
         /\ file[i].kind \in {"heading", "text", "quote", "caption", "table", "image", "aside", "break"}
         /\ format = "docx" => file[i].kind \in {"heading", "text", "caption", "table", "image"}
         /\ format # "docx" => (file[i].kind \in {"heading", "break"} => file[i].image = 0)
<1>1. Len(file) \in Nat /\ DOMAIN file = 1..Len(file) /\ file[i] \in ItemsOf(format)
  BY DEF FileOK
<1>2. /\ format = "docx" => file[i] \in DocxItems
      /\ format # "docx" => file[i] \in EpubItems
  BY <1>1 DEF ItemsOf
<1>3. file[i] \in AllItems
  BY <1>2 DEF AllItems
<1>4. /\ file[i].level \in Levels /\ file[i].parts \in Nat \ {0}
      /\ format = "docx" => file[i].kind \in {"heading", "text", "caption", "table", "image"}
      /\ format # "docx" =>
           /\ file[i].kind \in {"heading", "text", "quote", "caption", "table", "image", "aside", "break"}
           /\ file[i].kind \in {"heading", "break"} => file[i].image = 0
  BY <1>2, <1>3, DocumentsAssumption DEF AllItems
<1>5. file[i].note \in NoteIds /\ file[i].image \in Pictures
  BY <1>3 DEF NoteIds, Pictures
<1>6. QED
  BY <1>1, <1>3, <1>4, <1>5

(* The types of texts, chapters and blocks.                                  *)
LEMMA TextsAre ==
  /\ \A i \in Nat : Item(i) \in TextSet /\ Inner(i) \in TextSet
  /\ \A n \in NoteIds : Note(n) \in TextSet
  /\ None \in TextSet /\ BookTitle \in TextSet
  BY DEF Item, Inner, Note, None, BookTitle, TextSet

LEMMA BlankIs ==
  ASSUME NEW title \in TextSet
  PROVE  Blank(title) \in ChapterSet
  BY DEF Blank, ChapterSet, Levels

LEMMA BlockIs ==
  ASSUME FileOK, NEW c \in ChapterSet, NEW i \in 1..Len(file), NEW text \in TextSet,
         NEW type \in {"heading", "text", "caption", "table", "note", "figure"}
  PROVE  /\ Block(c, type, text, file[i]) \in BlockSet
         /\ Block(c, type, text, file[i]).type = type /\ Block(c, type, text, file[i]).text = text
         /\ Block(c, type, text, file[i]).section = c.section
         /\ Block(c, type, text, file[i]).target = 0
<1>1. file[i].level \in Levels /\ file[i].parts \in Nat \ {0} /\ file[i].note \in NoteIds
  BY ItemIs
<1>2. (IF type \in {"table", "figure"} THEN 0 ELSE file[i].note) \in NoteIds
  BY <1>1 DEF NoteIds
<1>3. c.section \in Nat
  BY DEF ChapterSet
<1>4. QED
  BY <1>1, <1>2, <1>3 DEF Block, BlockSet

(* One more block.                                                           *)
LEMMA AddIs ==
  ASSUME NEW c \in ChapterSet, NEW block \in BlockSet
  PROVE  /\ Add(c, block) \in ChapterSet
         /\ Add(c, block) = [c EXCEPT !.blocks = Append(c.blocks, block)]
         /\ Add(c, block).blocks = Append(c.blocks, block)
         /\ Add(c, block).title = c.title /\ Add(c, block).sections = c.sections
         /\ Add(c, block).stack = c.stack /\ Add(c, block).section = c.section
         /\ Add(c, block).target = c.target
<1> DEFINE more == Append(c.blocks, block)
<1>1. c.blocks \in Seq(BlockSet)
  BY DEF ChapterSet
<1>2. more \in Seq(BlockSet)
  BY <1>1
<1>3. Add(c, block) = [c EXCEPT !.blocks = more]
  BY DEF Add
<1> HIDE DEF more
<1>4. Add(c, block) \in ChapterSet
  BY <1>2, <1>3 DEF ChapterSet
<1>5. /\ Add(c, block).blocks = more
      /\ Add(c, block).title = c.title /\ Add(c, block).sections = c.sections
      /\ Add(c, block).stack = c.stack /\ Add(c, block).section = c.section
      /\ Add(c, block).target = c.target
  BY <1>3 DEF ChapterSet
<1>6. QED
  BY <1>3, <1>4, <1>5 DEF more

-------------------------------------------------------------------------------
(* StructureFollowsFile, of what is read so far.                             *)

TitleAt(c, s)    == IF s = 0 THEN None ELSE c.sections[s].title
TargetText(c, t) == IF t = 0 THEN None ELSE c.blocks[t].text

SectionsBefore(i) == Earlier(i, Section)
HigherBefore(i)   == Earlier(i, LAMBDA j : Section(j) /\ file[j].level < file[i].level)
TargetsBefore(i)  == Earlier(i, TargetAt)

(* The same at the end of the first n items.                                 *)
Sections(n)  == {j \in 1..n : ChapterOf(j) = ChapterOf(n) /\ Section(j)}
Higher(n, l) == {j \in Sections(n) : file[j].level < l}
Targets(n)   == {j \in 1..n : ChapterOf(j) = ChapterOf(n) /\ TargetAt(j)}

(* The headings that an item comes under are those that were read so far.    *)
LEMMA SetsBefore ==
  ASSUME NEW n \in Nat, ~Starts(n + 1)
  PROVE  /\ SectionsBefore(n + 1) = Sections(n)
         /\ HigherBefore(n + 1) = Higher(n, file[n + 1].level)
         /\ TargetsBefore(n + 1) = Targets(n)
<1>1. ChapterOf(n + 1) = ChapterOf(n) /\ (n + 1) - 1 = n
  BY ChapterIs
<1>2. QED
  BY <1>1 DEF SectionsBefore, HigherBefore, TargetsBefore, Earlier, Sections, Higher, Targets

(* An item more.                                                             *)
LEMMA SetsGrow ==
  ASSUME NEW n \in Nat, ~Starts(n + 1)
  PROVE  /\ Sections(n + 1) = Sections(n) \union (IF Section(n + 1) THEN {n + 1} ELSE {})
         /\ \A l : Higher(n + 1, l) = Higher(n, l) \union (IF Section(n + 1) /\ file[n + 1].level < l THEN {n + 1} ELSE {})
         /\ Targets(n + 1) = Targets(n) \union (IF TargetAt(n + 1) THEN {n + 1} ELSE {})
<1>1. ChapterOf(n + 1) = ChapterOf(n)
  BY ChapterIs
<1>2. 1..(n + 1) = (1..n) \union {n + 1}
  OBVIOUS
<1>3. Sections(n + 1) = Sections(n) \union (IF Section(n + 1) THEN {n + 1} ELSE {})
  BY <1>1, <1>2 DEF Sections
<1>4. Targets(n + 1) = Targets(n) \union (IF TargetAt(n + 1) THEN {n + 1} ELSE {})
  BY <1>1, <1>2 DEF Targets
<1>5. QED
  BY <1>3, <1>4 DEF Higher

(* A chapter that starts has no sections yet.                                *)
LEMMA SetsStart ==
  ASSUME FileOK, NEW n \in Nat, n + 1 \in 1..Len(file), Starts(n + 1)
  PROVE  Sections(n + 1) = {} /\ Targets(n + 1) = {} /\ \A l : Higher(n + 1, l) = {}
<1>1. ~Section(n + 1) /\ ~TargetAt(n + 1)
  BY ItemIs DEF Starts, Section, Title, Heading, TargetAt
<1>2. ASSUME NEW j \in 1..n PROVE ChapterOf(j) # ChapterOf(n + 1)
  <2>1. ChapterOf(j) <= ChapterOf(n) /\ ChapterOf(j) \in Nat /\ ChapterOf(n) \in Nat
    <3>1. j \in Nat /\ j <= n
      OBVIOUS
    <3>2. QED
      BY <3>1, ChapterIs, ChapterGrows
  <2>2. ChapterOf(n + 1) = ChapterOf(n) + 1
    BY ChapterIs
  <2>3. QED
    BY <2>1, <2>2
<1>3. 1..(n + 1) = (1..n) \union {n + 1}
  OBVIOUS
<1>4. QED
  BY <1>1, <1>2, <1>3 DEF Sections, Targets, Higher

(* The nearest of what was read is what was read last.                       *)
LEMMA NearestIs ==
  ASSUME NEW n \in Nat, NEW S \in SUBSET (1..n)
  PROVE  /\ Nearest({}) = None
         /\ Nearest(S \union {n + 1}) = Item(n + 1)
<1>1. S \union {n + 1} \in SUBSET Nat /\ n + 1 \in S \union {n + 1} /\ \A x \in S \union {n + 1} : x <= n + 1
  OBVIOUS
<1>2. Max(S \union {n + 1}) = n + 1
  BY <1>1, MaxOf
<1>3. QED
  BY <1>2 DEF Nearest

LEMMA SetsWithin == \A n \in Nat : \A l : Sections(n) \subseteq 1..n /\ Higher(n, l) \subseteq 1..n /\ Targets(n) \subseteq 1..n
  BY DEF Sections, Higher, Targets

SectionFollows(c, s) ==
  LET i == c.sections[s].title[2] IN TitleAt(c, c.sections[s].parent) = Nearest(HigherBefore(i))

(* A block, in a chapter with such sections and blocks.                      *)
BlockFollows(c, block) ==
  LET i == block.text[2] IN
  block.text[1] # "note" =>
    /\ block.type # "heading" => TitleAt(c, block.section) = Nearest(SectionsBefore(i))
    /\ block.type = "caption" => TargetText(c, block.target) = Nearest(TargetsBefore(i))

Follows(c) ==
  /\ \A s \in DOMAIN c.sections : c.sections[s].parent \in 0..Len(c.sections) /\ SectionFollows(c, s)
  /\ \A b \in DOMAIN c.blocks : /\ c.blocks[b].section \in 0..Len(c.sections)
                                /\ c.blocks[b].target \in 0..Len(c.blocks)
                                /\ BlockFollows(c, c.blocks[b])

(* StructureFollowsFile, chapter by chapter.                                 *)
LEMMA FollowsIs ==
  StructureFollowsFile <=>
    \A k \in DOMAIN parsed.chapters :
      /\ \A s \in DOMAIN parsed.chapters[k].sections : SectionFollows(parsed.chapters[k], s)
      /\ \A b \in DOMAIN parsed.chapters[k].blocks : BlockFollows(parsed.chapters[k], parsed.chapters[k].blocks[b])
  BY DEF StructureFollowsFile, SectionFollows, BlockFollows, TitleAt, TargetText, SectionsBefore, HigherBefore, TargetsBefore

LEMMA FollowsSame ==
  ASSUME NEW c, NEW d, d.sections = c.sections, d.blocks = c.blocks, Follows(c)
  PROVE  Follows(d)
  BY DEF Follows, SectionFollows, BlockFollows, TitleAt, TargetText

(* A block that follows the file can be added.                               *)
LEMMA AddFollows ==
  ASSUME NEW c \in ChapterSet, Follows(c), NEW block \in BlockSet,
         block.section \in 0..Len(c.sections), block.target \in 0..Len(c.blocks), BlockFollows(c, block)
  PROVE  Follows(Add(c, block))
<1> DEFINE d == Add(c, block)
<1>1. /\ d.blocks = Append(c.blocks, block) /\ d.sections = c.sections
      /\ c.blocks \in Seq(BlockSet) /\ c.sections \in Seq(SectionSet)
  BY AddIs DEF ChapterSet
<1>2. /\ Len(d.blocks) = Len(c.blocks) + 1 /\ DOMAIN d.blocks = 1..(Len(c.blocks) + 1)
      /\ DOMAIN c.blocks = 1..Len(c.blocks) /\ Len(c.blocks) \in Nat /\ Len(c.sections) \in Nat
      /\ d.blocks[Len(c.blocks) + 1] = block /\ \A b \in 1..Len(c.blocks) : d.blocks[b] = c.blocks[b]
  BY <1>1
<1> HIDE DEF d
<1>3. \A s : TitleAt(d, s) = TitleAt(c, s)
  BY <1>1 DEF TitleAt
<1>4. \A t \in 0..Len(c.blocks) : TargetText(d, t) = TargetText(c, t)
  BY <1>2 DEF TargetText
<1>5. ASSUME NEW s \in DOMAIN d.sections PROVE d.sections[s].parent \in 0..Len(d.sections) /\ SectionFollows(d, s)
  BY <1>1, <1>3, <1>5 DEF Follows, SectionFollows
<1>6. ASSUME NEW b \in DOMAIN d.blocks
      PROVE  /\ d.blocks[b].section \in 0..Len(d.sections) /\ d.blocks[b].target \in 0..Len(d.blocks)
             /\ BlockFollows(d, d.blocks[b])
  <2>1. PICK old \in BlockSet :
          /\ d.blocks[b] = old /\ old.section \in 0..Len(c.sections) /\ old.target \in 0..Len(c.blocks)
          /\ BlockFollows(c, old)
    <3>1. CASE b = Len(c.blocks) + 1
      BY <1>2, <3>1
    <3>2. CASE b # Len(c.blocks) + 1
      <4>1. b \in 1..Len(c.blocks) /\ d.blocks[b] = c.blocks[b] /\ c.blocks[b] \in BlockSet
        BY <1>1, <1>2, <3>2
      <4>2. QED
        BY <1>2, <4>1 DEF Follows
    <3>3. QED
      BY <3>1, <3>2
  <2>2. BlockFollows(d, old)
    BY <1>3, <1>4, <2>1 DEF BlockFollows
  <2>3. QED
    BY <1>1, <1>2, <2>1, <2>2
<1>7. QED
  BY <1>5, <1>6 DEF Follows, d

TopLevel == IF format = "docx" THEN 2 ELSE 1

Parent(c, l) ==
  LET above == {m \in TopLevel..(l - 1) : c.stack[m] # 0} IN IF above = {} THEN 0 ELSE c.stack[Max(above)]

(* The chapter c that is being read, after n items.                          *)
OnTrack(c, n) ==
  /\ c.section \in 0..Len(c.sections) /\ c.target \in 0..Len(c.blocks)
  /\ \A l \in Levels : c.stack[l] \in 0..Len(c.sections)
  /\ TitleAt(c, c.section) = Nearest(Sections(n))
  /\ \A l \in Levels : TitleAt(c, Parent(c, l)) = Nearest(Higher(n, l))
  /\ TargetText(c, c.target) = Nearest(Targets(n))

LEMMA ParentIs ==
  ASSUME NEW c \in ChapterSet, NEW l \in Levels, \A m \in Levels : c.stack[m] \in 0..Len(c.sections)
  PROVE  Parent(c, l) \in 0..Len(c.sections)
<1> DEFINE above == {m \in TopLevel..(l - 1) : c.stack[m] # 0}
<1>1. Len(c.sections) \in Nat
  BY DEF ChapterSet
<1>2. CASE above = {}
  BY <1>1, <1>2 DEF Parent
<1>3. CASE above # {}
  <2>1. above \in SUBSET Nat /\ above \subseteq Levels /\ \A x \in above : x <= 6
    BY DEF TopLevel, Levels
  <2>2. Max(above) \in above
    BY <1>3, <2>1, MaxIs
  <2>3. QED
    BY <1>3, <2>1, <2>2 DEF Parent
<1>4. QED
  BY <1>2, <1>3

(* A deeper section does not hide a higher one, but is the nearest to what   *)
(* is deeper still.                                                          *)
LEMMA ParentOpens ==
  ASSUME NEW c \in ChapterSet, NEW new \in Nat \ {0}, NEW v \in Levels, v >= TopLevel, NEW d,
         d.stack = [l \in Levels |-> CASE l < v -> c.stack[l] [] l = v -> new [] OTHER -> 0]
  PROVE  \A l \in Levels : Parent(d, l) = IF l <= v THEN Parent(c, l) ELSE new
<1> SUFFICES ASSUME NEW l \in Levels PROVE Parent(d, l) = IF l <= v THEN Parent(c, l) ELSE new
  OBVIOUS
<1>1. l \in Nat /\ v \in Nat /\ TopLevel \in {1, 2} /\ l <= 6 /\ v <= 6
  BY DEF Levels, TopLevel
<1>2. \A m \in TopLevel..(l - 1) : m \in Levels
  BY <1>1 DEF Levels
<1>3. \A m \in Levels : m < v => d.stack[m] = c.stack[m]
  <2>1. ASSUME NEW m \in Levels, m < v PROVE m # v
    BY <2>1, <1>1 DEF Levels
  <2>2. QED
    BY <2>1
<1>4. d.stack[v] = new
  <2>1. ~(v < v)
    BY <1>1
  <2>2. QED
    BY <2>1
<1>5. \A m \in Levels : m > v => d.stack[m] = 0
  <2>1. ASSUME NEW m \in Levels, m > v PROVE ~(m < v) /\ m # v
    BY <2>1, <1>1 DEF Levels
  <2>2. QED
    BY <2>1
<1> DEFINE above == {m \in TopLevel..(l - 1) : c.stack[m] # 0}
           there == {m \in TopLevel..(l - 1) : d.stack[m] # 0}
<1>6. CASE l <= v
  <2>1. \A m \in TopLevel..(l - 1) : d.stack[m] = c.stack[m]
    BY <1>1, <1>2, <1>3, <1>6
  <2>2. there = above
    BY <2>1
  <2>3. CASE above = {}
    BY <1>6, <2>2, <2>3 DEF Parent
  <2>4. CASE above # {}
    <3>1. above \in SUBSET Nat /\ \A x \in above : x <= 6
      BY <1>1
    <3>2. Max(above) \in TopLevel..(l - 1)
      BY <2>4, <3>1, MaxIs
    <3>3. QED
      BY <1>6, <2>1, <2>2, <2>4, <3>2 DEF Parent
  <2>5. QED
    BY <2>3, <2>4
<1>7. CASE ~(l <= v)
  <2>1. there \in SUBSET Nat /\ v \in there
    BY <1>1, <1>4, <1>7
  <2>2. \A x \in there : x <= v
    BY <1>1, <1>2, <1>5
  <2>3. Max(there) = v
    BY <2>1, <2>2, MaxOf
  <2>4. QED
    BY <1>4, <1>7, <2>1, <2>3 DEF Parent
<1>8. QED
  BY <1>6, <1>7

-------------------------------------------------------------------------------
(* What an item adds to the chapter that is read: texts and figures          *)
(* (_append_text_block, _paragraph_images), no section.                      *)

(* What an item that is no heading adds to its chapter: at most a text, the  *)
(* paragraph in it, and a figure.                                            *)
TypeOfItem(i) ==
  IF file[i].kind = "quote" THEN "text" ELSE IF file[i].kind = "aside" THEN "note" ELSE file[i].kind

TextBlock(c, i) ==
  [Block(c, TypeOfItem(i), Item(i), file[i]) EXCEPT !.target = IF file[i].kind = "caption" THEN c.target ELSE 0]

FigureBlock(c, assets, i) ==
  [Block(c, "figure", Item(i), file[i]) EXCEPT !.asset = SelectInSeq(assets, LAMBDA a : a = file[i].image)]

Grow(c, block, target) == [c EXCEPT !.blocks = Append(c.blocks, block), !.target = target]

TextRead(c, i) ==
  IF file[i].kind \in {"image", "break"} THEN c
  ELSE Grow(c, TextBlock(c, i), IF file[i].kind = "table" THEN Len(c.blocks) + 1 ELSE c.target)

QuoteRead(c, i) ==
  IF file[i].kind = "quote" THEN Grow(c, Block(c, "text", Inner(i), file[i]), c.target) ELSE c

FigureRead(c, assets, i) ==
  IF file[i].image = 0 THEN c ELSE Grow(c, FigureBlock(c, assets, i), Len(c.blocks) + 1)

(* A block more, of an item.                                                 *)
LEMMA GrowIs ==
  ASSUME NEW c \in ChapterSet, NEW block \in BlockSet, NEW target \in Nat
  PROVE  /\ Grow(c, block, target) \in ChapterSet
         /\ Grow(c, block, target).blocks = Append(c.blocks, block)
         /\ Grow(c, block, target).title = c.title /\ Grow(c, block, target).sections = c.sections
         /\ Grow(c, block, target).stack = c.stack /\ Grow(c, block, target).section = c.section
         /\ Grow(c, block, target).target = target
         /\ Add(c, block) = Grow(c, block, c.target)
         /\ [Add(c, block) EXCEPT !.target = target] = Grow(c, block, target)
<1> DEFINE more == Append(c.blocks, block)
<1>1. more \in Seq(BlockSet)
  BY DEF ChapterSet
<1>2. Grow(c, block, target) = [c EXCEPT !.blocks = more, !.target = target]
  BY DEF Grow
<1>3. Add(c, block) = [c EXCEPT !.blocks = more] /\ Grow(c, block, c.target) = [c EXCEPT !.blocks = more, !.target = c.target]
  BY AddIs DEF Grow
<1> HIDE DEF more
<1>4. Grow(c, block, target) \in ChapterSet
  BY <1>1, <1>2 DEF ChapterSet
<1>5. /\ Grow(c, block, target).blocks = more
      /\ Grow(c, block, target).title = c.title /\ Grow(c, block, target).sections = c.sections
      /\ Grow(c, block, target).stack = c.stack /\ Grow(c, block, target).section = c.section
      /\ Grow(c, block, target).target = target
  BY <1>2 DEF ChapterSet
<1>6. Add(c, block) = Grow(c, block, c.target)
  BY <1>3 DEF ChapterSet
<1>7. [Add(c, block) EXCEPT !.target = target] = Grow(c, block, target)
  BY <1>2, <1>3 DEF ChapterSet
<1>8. QED
  BY <1>4, <1>5, <1>6, <1>7 DEF more

LEMMA TextBlockIs ==
  ASSUME FileOK, NEW c \in ChapterSet, NEW i \in 1..Len(file), file[i].kind \notin {"image", "break"}
  PROVE  /\ TextBlock(c, i) \in BlockSet
         /\ TextBlock(c, i).type = TypeOfItem(i) /\ TextBlock(c, i).text = Item(i)
         /\ TextBlock(c, i).section = c.section
         /\ TextBlock(c, i).level = file[i].level /\ TextBlock(c, i).parts = file[i].parts
         /\ TextBlock(c, i).note = IF file[i].kind = "table" THEN 0 ELSE file[i].note
         /\ TextBlock(c, i).target = IF file[i].kind = "caption" THEN c.target ELSE 0
         /\ TypeOfItem(i) # "figure"
         /\ file[i].kind # "caption" => TextBlock(c, i) = Block(c, TypeOfItem(i), Item(i), file[i])
<1> DEFINE old == Block(c, TypeOfItem(i), Item(i), file[i])
           t == IF file[i].kind = "caption" THEN c.target ELSE 0
<1>1. /\ file[i].kind \in {"heading", "text", "quote", "caption", "table", "aside"} /\ i \in Nat
      /\ Item(i) \in TextSet
  BY ItemIs, TextsAre
<1>2. /\ TypeOfItem(i) \in {"heading", "text", "caption", "table", "note"}
      /\ TypeOfItem(i) = "table" <=> file[i].kind = "table"
  BY <1>1 DEF TypeOfItem
<1>3. /\ old \in BlockSet /\ old.type = TypeOfItem(i) /\ old.text = Item(i) /\ old.section = c.section /\ old.target = 0
  BY <1>1, <1>2, BlockIs
<1>4. old.level = file[i].level /\ old.parts = file[i].parts /\ old.note = IF file[i].kind = "table" THEN 0 ELSE file[i].note
  BY <1>2 DEF Block
<1>5. t \in Nat
  BY DEF ChapterSet
<1>6. TextBlock(c, i) = [old EXCEPT !.target = t]
  BY DEF TextBlock
<1> HIDE DEF old, t
<1>7. /\ TextBlock(c, i) \in BlockSet
      /\ TextBlock(c, i).type = old.type /\ TextBlock(c, i).text = old.text /\ TextBlock(c, i).section = old.section
      /\ TextBlock(c, i).level = old.level /\ TextBlock(c, i).parts = old.parts /\ TextBlock(c, i).note = old.note
      /\ TextBlock(c, i).target = t
      /\ t = old.target => TextBlock(c, i) = old
  BY <1>3, <1>5, <1>6 DEF BlockSet
<1>8. QED
  BY <1>2, <1>3, <1>4, <1>7 DEF t, old

LEMMA InnerBlockIs ==
  ASSUME FileOK, NEW c \in ChapterSet, NEW i \in 1..Len(file)
  PROVE  LET b == Block(c, "text", Inner(i), file[i]) IN
         /\ b \in BlockSet /\ b.type = "text" /\ b.text = Inner(i) /\ b.section = c.section
         /\ b.level = file[i].level /\ b.parts = file[i].parts /\ b.note = file[i].note /\ b.target = 0
<1>1. Inner(i) \in TextSet
  BY ItemIs, TextsAre
<1>2. QED
  BY <1>1, BlockIs DEF Block

(* An image is registered once, and keeps its number (_register_asset).      *)
LEMMA AssetsAre ==
  ASSUME NEW assets \in Seq(Pictures), NEW image \in Pictures
  PROVE  /\ Register(assets, image) \in Seq(Pictures)
         /\ Len(assets) <= Len(Register(assets, image))
         /\ \A a \in 1..Len(assets) : Register(assets, image)[a] = assets[a]
         /\ LET a == SelectInSeq(Register(assets, image), LAMBDA x : x = image) IN
            a \in 1..Len(Register(assets, image)) /\ Register(assets, image)[a] = image
<1> DEFINE now == Register(assets, image)
           I == {x \in 1..Len(now) : now[x] = image}
<1>1. /\ now \in Seq(Pictures) /\ Len(assets) <= Len(now) /\ \A a \in 1..Len(assets) : now[a] = assets[a]
  BY DEF Register
<1>2. I # {}
  <2>1. CASE Contains(assets, image)
    BY <2>1 DEF Contains, Register
  <2>2. CASE ~Contains(assets, image)
    <3>1. now = Append(assets, image)
      BY <2>2 DEF Register
    <3>2. Len(now) = Len(assets) + 1 /\ now[Len(assets) + 1] = image
      BY <3>1
    <3>3. QED
      BY <3>2
  <2>3. QED
    BY <2>1, <2>2
<1> HIDE DEF now
<1>3. SelectInSeq(now, LAMBDA x : x = image) = Min(I)
  BY <1>2 DEF SelectInSeq
<1>4. I \in SUBSET Nat
  OBVIOUS
<1>5. Min(I) \in I
  BY <1>2, <1>4, MinIs
<1>6. QED
  BY <1>1, <1>3, <1>5 DEF now

LEMMA FigureBlockIs ==
  ASSUME FileOK, NEW c \in ChapterSet, NEW i \in 1..Len(file), NEW assets \in Seq(Pictures)
  PROVE  LET now == Register(assets, file[i].image)
             b == FigureBlock(c, now, i)
         IN  /\ b \in BlockSet /\ b.type = "figure" /\ b.text = Item(i) /\ b.section = c.section
             /\ b.level = file[i].level /\ b.parts = file[i].parts /\ b.note = 0 /\ b.target = 0
             /\ b.asset \in 1..Len(now) /\ now[b.asset] = file[i].image
<1> DEFINE old == Block(c, "figure", Item(i), file[i])
           now == Register(assets, file[i].image)
           a == SelectInSeq(now, LAMBDA x : x = file[i].image)
           b == FigureBlock(c, now, i)
<1>1. Item(i) \in TextSet /\ file[i].image \in Pictures
  BY ItemIs, TextsAre
<1>2. old \in BlockSet /\ old.type = "figure" /\ old.text = Item(i) /\ old.section = c.section /\ old.target = 0
  BY <1>1, BlockIs
<1>3. old.level = file[i].level /\ old.parts = file[i].parts /\ old.note = 0
  BY DEF Block
<1>4. a \in 1..Len(now) /\ now[a] = file[i].image /\ now \in Seq(Pictures)
  BY <1>1, AssetsAre
<1>5. a \in Nat
  BY <1>4
<1>6. b = [old EXCEPT !.asset = a]
  BY DEF FigureBlock
<1> HIDE DEF old, a, b, now
<1>7. /\ b \in BlockSet
      /\ b.type = old.type /\ b.text = old.text /\ b.section = old.section
      /\ b.level = old.level /\ b.parts = old.parts /\ b.note = old.note /\ b.target = old.target
      /\ b.asset = a
  BY <1>2, <1>5, <1>6 DEF BlockSet
<1>8. QED
  BY <1>2, <1>3, <1>4, <1>7 DEF b, now

AssetsRead(d, i) == IF file[i].image = 0 THEN d.assets ELSE Register(d.assets, file[i].image)

ItemRead(d, i) ==
  [d EXCEPT !.current = FigureRead(QuoteRead(TextRead(@, i), i), AssetsRead(d, i), i),
            !.assets = AssetsRead(d, i)]

LEMMA ReadsAreChapters ==
  ASSUME FileOK, NEW c \in ChapterSet, NEW i \in 1..Len(file), NEW assets \in Seq(Pictures)
  PROVE  /\ TextRead(c, i) \in ChapterSet /\ QuoteRead(c, i) \in ChapterSet
         /\ file[i].image # 0 => FigureRead(c, Register(assets, file[i].image), i) \in ChapterSet
<1>1. c.target \in Nat /\ Len(c.blocks) + 1 \in Nat
  BY DEF ChapterSet
<1>2. TextRead(c, i) \in ChapterSet
  BY <1>1, TextBlockIs, GrowIs DEF TextRead
<1>3. QuoteRead(c, i) \in ChapterSet
  BY <1>1, InnerBlockIs, GrowIs DEF QuoteRead
<1>4. FigureBlock(c, Register(assets, file[i].image), i) \in BlockSet
  BY FigureBlockIs
<1>5. file[i].image # 0 => FigureRead(c, Register(assets, file[i].image), i) \in ChapterSet
  BY <1>1, <1>4, GrowIs DEF FigureRead
<1>6. QED
  BY <1>2, <1>3, <1>5

(* AddText adds at most a text, and the paragraph in a quotation.            *)
LEMMA AddTextIs ==
  ASSUME FileOK, NEW c \in ChapterSet, NEW i \in 1..Len(file), file[i].kind # "heading"
  PROVE  AddText(c, i, file[i]) = QuoteRead(TextRead(c, i), i)
<1> DEFINE item == file[i]
           b == TextBlock(c, i)
<1>1. item.kind \in {"text", "quote", "caption", "table", "image", "aside", "break"}
  BY ItemIs
<1>2. c.target \in Nat /\ Len(c.blocks) + 1 \in Nat
  BY DEF ChapterSet
<1>3. CASE item.kind \in {"image", "break"}
  BY <1>3 DEF AddText, TextRead, QuoteRead
<1>4. CASE item.kind = "table"
  <2>1. b = Block(c, "table", Item(i), item) /\ b \in BlockSet
    BY <1>4, TextBlockIs DEF TypeOfItem
  <2>2. AddText(c, i, item) = [Add(c, b) EXCEPT !.target = Len(c.blocks) + 1]
    BY <1>4, <2>1 DEF AddText
  <2>3. QuoteRead(TextRead(c, i), i) = Grow(c, b, Len(c.blocks) + 1)
    BY <1>4 DEF TextRead, QuoteRead
  <2>4. QED
    BY <1>2, <2>1, <2>2, <2>3, GrowIs
<1>5. CASE item.kind = "caption"
  <2>1. b = [Block(c, "caption", Item(i), item) EXCEPT !.target = c.target] /\ b \in BlockSet
    BY <1>5, TextBlockIs DEF TextBlock, TypeOfItem
  <2>2. AddText(c, i, item) = Add(c, b)
    BY <1>5, <2>1 DEF AddText
  <2>3. QuoteRead(TextRead(c, i), i) = Grow(c, b, c.target)
    BY <1>5 DEF TextRead, QuoteRead
  <2>4. QED
    BY <1>2, <2>1, <2>2, <2>3, GrowIs
<1>6. CASE item.kind = "quote"
  <2>1. b = Block(c, "text", Item(i), item) /\ b \in BlockSet
    BY <1>6, TextBlockIs DEF TypeOfItem
  <2> DEFINE e == Block(c, "text", Inner(i), item)
             f == Grow(c, b, c.target)
  <2>2. AddText(c, i, item) = Add(Add(c, b), e)
    BY <1>6, <2>1 DEF AddText
  <2>3. Add(c, b) = f /\ f \in ChapterSet /\ f.section = c.section
    BY <1>2, <2>1, GrowIs
  <2>4. Block(f, "text", Inner(i), item) = e
    BY <2>3 DEF Block
  <2>5. QuoteRead(TextRead(c, i), i) = Grow(f, e, f.target)
    BY <1>6, <2>4 DEF TextRead, QuoteRead
  <2>6. e \in BlockSet /\ f.target \in Nat
    BY <2>3, InnerBlockIs DEF ChapterSet
  <2>7. Add(f, e) = Grow(f, e, f.target)
    BY <2>3, <2>6, GrowIs
  <2>8. QED
    BY <2>2, <2>3, <2>5, <2>7
<1>7. CASE item.kind \in {"aside", "text"}
  <2>1. b \in BlockSet /\ b = Block(c, IF item.kind = "aside" THEN "note" ELSE "text", Item(i), item)
    BY <1>7, TextBlockIs DEF TypeOfItem
  <2>2. AddText(c, i, item) = Add(c, b)
    BY <1>7, <2>1 DEF AddText
  <2>3. QuoteRead(TextRead(c, i), i) = Grow(c, b, c.target)
    BY <1>7 DEF TextRead, QuoteRead
  <2>4. QED
    BY <1>2, <2>1, <2>2, <2>3, GrowIs
<1>8. QED
  BY <1>1, <1>3, <1>4, <1>5, <1>6, <1>7

(* An item that is no heading is read as ItemRead says.                      *)
LEMMA ItemReadIs ==
  ASSUME FileOK, NEW d \in DocumentSet, NEW i \in 1..Len(file), file[i].kind # "heading"
  PROVE  /\ AddFigure([d EXCEPT !.current = AddText(@, i, file[i])], i, file[i]) = ItemRead(d, i)
         /\ ItemRead(d, i) \in DocumentSet
         /\ ItemRead(d, i).chapters = d.chapters
         /\ ItemRead(d, i).current = FigureRead(QuoteRead(TextRead(d.current, i), i), AssetsRead(d, i), i)
         /\ ItemRead(d, i).assets = AssetsRead(d, i)
<1> DEFINE c == QuoteRead(TextRead(d.current, i), i)
           now == AssetsRead(d, i)
           f == FigureRead(c, now, i)
           e == [d EXCEPT !.current = c]
<1>1. d.current \in ChapterSet /\ d.assets \in Seq(Pictures) /\ d.chapters \in Seq(ChapterSet) /\ file[i].image \in Pictures
  BY ItemIs DEF DocumentSet
<1>2. c \in ChapterSet
  <2>1. TextRead(d.current, i) \in ChapterSet
    BY <1>1, ReadsAreChapters
  <2>2. QED
    BY <1>1, <2>1, ReadsAreChapters
<1>3. now \in Seq(Pictures)
  BY <1>1, AssetsAre DEF AssetsRead
<1>4. f \in ChapterSet
  <2>1. CASE file[i].image = 0
    BY <1>2, <2>1 DEF FigureRead
  <2>2. CASE file[i].image # 0
    BY <1>1, <1>2, <2>2, ReadsAreChapters DEF AssetsRead
  <2>3. QED
    BY <2>1, <2>2
<1>5. [d EXCEPT !.current = AddText(@, i, file[i])] = e
  BY <1>1, AddTextIs
<1>6. ItemRead(d, i) = [d EXCEPT !.current = f, !.assets = now]
  BY DEF ItemRead
<1>7. AddFigure(e, i, file[i]) = [d EXCEPT !.current = f, !.assets = now]
  <2>1. e.current = c /\ e.assets = d.assets /\ e.chapters = d.chapters
    BY DEF DocumentSet
  <2>2. CASE file[i].image = 0
    <3>1. f = c /\ now = d.assets
      BY <2>2 DEF FigureRead, AssetsRead
    <3> HIDE DEF c, f, now
    <3>2. AddFigure(e, i, file[i]) = e
      BY <2>2 DEF AddFigure
    <3>3. QED
      BY <3>1, <3>2 DEF DocumentSet
  <2>3. CASE file[i].image # 0
    <3> DEFINE fig == FigureBlock(c, now, i)
    <3>1. now = Register(d.assets, file[i].image) /\ f = Grow(c, fig, Len(c.blocks) + 1)
      BY <2>3 DEF AssetsRead, FigureRead
    <3>2. AddFigure(e, i, file[i]) = [e EXCEPT !.assets = now, !.current = [Add(c, fig) EXCEPT !.target = Len(c.blocks) + 1]]
      BY <2>1, <2>3, <3>1 DEF AddFigure, FigureBlock
    <3>3. fig \in BlockSet
      <4> HIDE DEF c
      <4>1. FigureBlock(c, Register(d.assets, file[i].image), i) \in BlockSet
        BY <1>1, <1>2, FigureBlockIs
      <4>2. QED
        BY <3>1, <4>1
    <3>4. Len(c.blocks) + 1 \in Nat
      <4> HIDE DEF c
      <4>1. QED
        BY <1>2 DEF ChapterSet
    <3>5. [Add(c, fig) EXCEPT !.target = Len(c.blocks) + 1] = f
      BY <1>2, <3>1, <3>3, <3>4, GrowIs
    <3> HIDE DEF c, f, now, fig
    <3>6. QED
      BY <3>2, <3>5 DEF DocumentSet
  <2>4. QED
    BY <2>2, <2>3
<1> HIDE DEF c, now, f
<1>8. /\ ItemRead(d, i) \in DocumentSet /\ ItemRead(d, i).chapters = d.chapters
      /\ ItemRead(d, i).current = f /\ ItemRead(d, i).assets = now
  BY <1>1, <1>3, <1>4, <1>6 DEF DocumentSet
<1>9. QED
  BY <1>5, <1>6, <1>7, <1>8 DEF f, c, now

-------------------------------------------------------------------------------
(* What a chapter has when the first n items of the file were read: each     *)
(* block and section comes from an item, in the file's order, and every text *)
(* of the chapter has its block.                                             *)

At(q, n) == {i \in 1..n : ChapterOf(i) = q}

Textual(i) == ~Title(i) /\ file[i].kind \notin {"image", "break"}

TitleReads(c, q, n) ==
  /\ c.title = None \/ \E i \in At(q, n) : Title(i) /\ c.title = Item(i)
  /\ \A i \in At(q, n) : Title(i) => c.title = Item(i)

SectionsRead(c, q, n) ==
  /\ \A s \in DOMAIN c.sections :
       \E i \in At(q, n) : Section(i) /\ c.sections[s].title = Item(i)
  /\ \A s, t \in DOMAIN c.sections : s < t => c.sections[s].title[2] < c.sections[t].title[2]

(* A block comes from an item.                                               *)
FromItem(c, block, i) ==
  /\ ~Title(i)
  /\ block.text = Item(i) \/ (block.text = Inner(i) /\ file[i].kind = "quote" /\ block.type = "text")
  /\ block.level = file[i].level /\ block.parts = file[i].parts
  /\ block.note = IF block.type \in {"table", "figure"} THEN 0 ELSE file[i].note
  /\ block.type # "figure" => file[i].kind \notin {"image", "break"} /\ block.type = TypeOfItem(i)
  /\ block.type = "figure" => file[i].image # 0
  /\ block.type = "heading" => block.section \in DOMAIN c.sections /\ c.sections[block.section].title = block.text

BlocksRead(c, q, n) ==
  /\ \A b \in DOMAIN c.blocks : \E i \in At(q, n) : FromItem(c, c.blocks[b], i)
  /\ \A a, b \in DOMAIN c.blocks : a < b => c.blocks[a].text[2] <= c.blocks[b].text[2]
  /\ \A a, b \in DOMAIN c.blocks :
       a # b /\ c.blocks[a].type # "figure" /\ c.blocks[b].type # "figure" => c.blocks[a].text # c.blocks[b].text

TextsRead(c, q, n) ==
  \A i \in At(q, n) : Textual(i) => \E b \in DOMAIN c.blocks : c.blocks[b].type # "figure" /\ c.blocks[b].text = Item(i)

FiguresRead(c, assets) ==
  \A b \in DOMAIN c.blocks : c.blocks[b].type = "figure" =>
    c.blocks[b].asset \in 1..Len(assets) /\ assets[c.blocks[b].asset] = file[c.blocks[b].text[2]].image

(* Texts of different items differ.                                          *)
LEMMA TextIs == \A i : /\ Item(i)[1] = "item" /\ Item(i)[2] = i /\ Inner(i)[1] = "inner" /\ Inner(i)[2] = i
                       /\ Note(i)[1] = "note" /\ Note(i)[2] = i /\ \A j : Item(i) # Inner(j)
                       /\ \A j : (Item(i) = Item(j) => i = j) /\ (Inner(i) = Inner(j) => i = j)
                       /\ Item(i) # None /\ Item(i) # BookTitle /\ Inner(i) # None /\ Inner(i) # BookTitle
                       /\ None # BookTitle
<1>1. TAKE i
<1>2. Item(i)[1] = "item" /\ Item(i)[2] = i /\ Inner(i)[1] = "inner" /\ Inner(i)[2] = i /\ Note(i)[1] = "note" /\ Note(i)[2] = i
  BY DEF Item, Inner, Note
<1>3. \A j : Item(i) # Inner(j)
  BY DEF Item, Inner
<1>4. \A j : (Item(i) = Item(j) => i = j) /\ (Inner(i) = Inner(j) => i = j)
  BY DEF Item, Inner
<1>5. Item(i) # None /\ Item(i) # BookTitle /\ Inner(i) # None /\ Inner(i) # BookTitle /\ None # BookTitle
  BY DEF Item, Inner, None, BookTitle
<1>6. QED
  BY <1>2, <1>3, <1>4, <1>5

LEMMA FromItemIs ==
  \A c, block, i : FromItem(c, block, i) => block.text[2] = i /\ block.text[1] \in {"item", "inner"}
  BY TextIs DEF FromItem

(* The items of a chapter, when one more is read.                            *)
LEMMA AtGrows ==
  ASSUME NEW n \in Nat, NEW q
  PROVE  /\ At(q, n) \subseteq At(q, n + 1)
         /\ ChapterOf(n + 1) = q => At(q, n + 1) = At(q, n) \union {n + 1} /\ n + 1 \in At(q, n + 1)
         /\ ChapterOf(n + 1) # q => At(q, n + 1) = At(q, n)
         /\ n + 1 \notin At(q, n)
<1>1. 1..(n + 1) = (1..n) \union {n + 1}
  OBVIOUS
<1>2. QED
  BY <1>1 DEF At

LEMMA GrowFollows ==
  ASSUME NEW c \in ChapterSet, Follows(c), NEW block \in BlockSet, NEW target \in Nat,
         block.section \in 0..Len(c.sections), block.target \in 0..Len(c.blocks), BlockFollows(c, block)
  PROVE  Follows(Grow(c, block, target))
<1>1. Follows(Add(c, block))
  BY AddFollows
<1>2. /\ Add(c, block).sections = c.sections /\ Add(c, block).blocks = Append(c.blocks, block)
      /\ Grow(c, block, target).sections = c.sections /\ Grow(c, block, target).blocks = Append(c.blocks, block)
  BY AddIs, GrowIs
<1>3. QED
  BY <1>1, <1>2, FollowsSame

LEMMA BlocksGrow ==
  ASSUME NEW c \in ChapterSet, NEW block \in BlockSet, NEW target \in Nat
  PROVE  LET d == Grow(c, block, target) IN
         /\ Len(c.blocks) \in Nat /\ DOMAIN c.blocks = 1..Len(c.blocks)
         /\ DOMAIN d.blocks = 1..(Len(c.blocks) + 1) /\ Len(d.blocks) = Len(c.blocks) + 1
         /\ d.blocks[Len(c.blocks) + 1] = block
         /\ \A b \in 1..Len(c.blocks) : d.blocks[b] = c.blocks[b]
         /\ \A b \in DOMAIN d.blocks : b \in DOMAIN c.blocks \/ b = Len(c.blocks) + 1
<1> DEFINE d == Grow(c, block, target)
<1>1. d.blocks = Append(c.blocks, block) /\ c.blocks \in Seq(BlockSet)
  BY GrowIs DEF ChapterSet
<1> HIDE DEF d
<1>2. QED
  BY <1>1 DEF d

(* A block of the item that is read can be added, if its text is new.        *)
LEMMA GrowReads ==
  ASSUME NEW c \in ChapterSet, NEW block \in BlockSet, NEW target \in Nat, NEW q, NEW n \in Nat,
         BlocksRead(c, q, n), n \in At(q, n), FromItem(c, block, n),
         block.type = "figure" \/ \A b \in DOMAIN c.blocks : c.blocks[b].type # "figure" => c.blocks[b].text # block.text
  PROVE  BlocksRead(Grow(c, block, target), q, n)
<1> DEFINE d == Grow(c, block, target)
           l == Len(c.blocks) + 1
<1>1. /\ Len(c.blocks) \in Nat /\ DOMAIN c.blocks = 1..Len(c.blocks) /\ DOMAIN d.blocks = 1..l
      /\ d.blocks[l] = block
      /\ \A b \in DOMAIN c.blocks : d.blocks[b] = c.blocks[b]
      /\ \A b \in DOMAIN d.blocks : b \in DOMAIN c.blocks \/ b = l
  BY BlocksGrow
<1>2. d.sections = c.sections
  BY GrowIs
<1> HIDE DEF d
<1>3. \A b \in DOMAIN d.blocks : \E i \in At(q, n) : FromItem(d, d.blocks[b], i)
  <2>1. \A e, i : FromItem(d, e, i) <=> FromItem(c, e, i)
    BY <1>2 DEF FromItem
  <2>2. QED
    BY <1>1, <2>1 DEF BlocksRead
<1>4. \A b \in DOMAIN c.blocks : c.blocks[b].text[2] \in Nat /\ c.blocks[b].text[2] <= n
  <2> TAKE b \in DOMAIN c.blocks
  <2>1. PICK i \in At(q, n) : FromItem(c, c.blocks[b], i)
    BY DEF BlocksRead
  <2>2. QED
    BY <2>1, FromItemIs DEF At
<1>5. block.text[2] = n
  BY FromItemIs
<1>6. ASSUME NEW a \in DOMAIN d.blocks, NEW b \in DOMAIN d.blocks, a < b PROVE d.blocks[a].text[2] <= d.blocks[b].text[2]
  <2>1. a \in DOMAIN c.blocks
    BY <1>1, <1>6
  <2>2. CASE b = l
    BY <1>1, <1>4, <1>5, <2>1, <2>2
  <2>3. CASE b # l
    BY <1>1, <1>6, <2>1, <2>3 DEF BlocksRead
  <2>4. QED
    BY <2>2, <2>3
<1>7. ASSUME NEW a \in DOMAIN d.blocks, NEW b \in DOMAIN d.blocks, a # b,
             d.blocks[a].type # "figure", d.blocks[b].type # "figure"
      PROVE  d.blocks[a].text # d.blocks[b].text
  <2>1. CASE a \in DOMAIN c.blocks /\ b \in DOMAIN c.blocks
    BY <1>1, <1>7, <2>1 DEF BlocksRead
  <2>2. CASE a = l /\ b \in DOMAIN c.blocks
    BY <1>1, <1>7, <2>2
  <2>3. CASE b = l /\ a \in DOMAIN c.blocks
    BY <1>1, <1>7, <2>3
  <2>4. QED
    BY <1>1, <1>7, <2>1, <2>2, <2>3
<1>8. QED
  BY <1>3, <1>6, <1>7 DEF BlocksRead, d

(* What was read stays read.                                                 *)
LEMMA ReadsLater ==
  ASSUME NEW c, NEW q, NEW n \in Nat
  PROVE  /\ BlocksRead(c, q, n) => BlocksRead(c, q, n + 1)
         /\ SectionsRead(c, q, n) => SectionsRead(c, q, n + 1)
         /\ TitleReads(c, q, n) /\ (ChapterOf(n + 1) = q => ~Title(n + 1)) => TitleReads(c, q, n + 1)
         /\ TextsRead(c, q, n) /\ (ChapterOf(n + 1) = q => ~Textual(n + 1)) => TextsRead(c, q, n + 1)
<1>1. At(q, n) \subseteq At(q, n + 1) /\ \A i \in At(q, n + 1) : i \in At(q, n) \/ (i = n + 1 /\ ChapterOf(n + 1) = q)
  BY AtGrows
<1>2. BlocksRead(c, q, n) => BlocksRead(c, q, n + 1)
  BY <1>1 DEF BlocksRead
<1>3. SectionsRead(c, q, n) => SectionsRead(c, q, n + 1)
  BY <1>1 DEF SectionsRead
<1>4. TitleReads(c, q, n) /\ (ChapterOf(n + 1) = q => ~Title(n + 1)) => TitleReads(c, q, n + 1)
  BY <1>1 DEF TitleReads
<1>5. TextsRead(c, q, n) /\ (ChapterOf(n + 1) = q => ~Textual(n + 1)) => TextsRead(c, q, n + 1)
  BY <1>1 DEF TextsRead
<1>6. QED
  BY <1>2, <1>3, <1>4, <1>5

(* A chapter that has read item n in part: what it adds only are blocks.     *)
Partly(c, e, q, n, text) ==
  /\ e \in ChapterSet /\ Follows(e) /\ BlocksRead(e, q, n)
  /\ e.title = c.title /\ e.sections = c.sections /\ e.stack = c.stack /\ e.section = c.section
  /\ Len(e.blocks) >= Len(c.blocks) /\ \A b \in DOMAIN c.blocks : e.blocks[b] = c.blocks[b]
  /\ e.target \in 0..Len(e.blocks) /\ TargetText(e, e.target) = text

LEMMA GrowKeeps ==
  \A c \in ChapterSet, block \in BlockSet, target \in Nat :
    LET f == Grow(c, block, target) IN
    /\ f \in ChapterSet /\ f.title = c.title /\ f.sections = c.sections /\ f.stack = c.stack
    /\ f.section = c.section /\ f.target = target
  BY GrowIs

(* Such a chapter can add a block of item n.                                 *)
LEMMA PartlyGrows ==
  ASSUME NEW c \in ChapterSet, NEW e, NEW q, NEW n \in Nat, NEW text, Partly(c, e, q, n, text),
         NEW block \in BlockSet, NEW target \in 0..(Len(e.blocks) + 1), n \in At(q, n), FromItem(e, block, n),
         block.type = "figure" \/ \A b \in DOMAIN e.blocks : e.blocks[b].type # "figure" => e.blocks[b].text # block.text,
         block.section \in 0..Len(e.sections), block.target \in 0..Len(e.blocks), BlockFollows(e, block),
         target = e.target \/ target = Len(e.blocks) + 1
  PROVE  Partly(c, Grow(e, block, target), q, n, IF target = Len(e.blocks) + 1 THEN block.text ELSE text)
<1> DEFINE f == Grow(e, block, target)
           l == Len(e.blocks)
<1>1. e \in ChapterSet /\ Follows(e) /\ BlocksRead(e, q, n) /\ target \in Nat
  BY DEF Partly
<1>2. /\ l \in Nat /\ DOMAIN e.blocks = 1..l /\ Len(f.blocks) = l + 1
      /\ f.blocks[l + 1] = block /\ \A b \in 1..l : f.blocks[b] = e.blocks[b]
  BY <1>1, BlocksGrow
<1>3. /\ f \in ChapterSet /\ f.title = e.title /\ f.sections = e.sections /\ f.stack = e.stack
      /\ f.section = e.section /\ f.target = target
  BY <1>1, GrowKeeps
<1>4. Follows(f)
  BY <1>1, GrowFollows
<1>5. BlocksRead(f, q, n)
  BY <1>1, GrowReads
<1> HIDE DEF f
<1>6. c.blocks \in Seq(BlockSet) /\ Len(c.blocks) \in Nat /\ DOMAIN c.blocks = 1..Len(c.blocks)
  BY DEF ChapterSet
<1>7. Len(f.blocks) >= Len(c.blocks) /\ \A b \in DOMAIN c.blocks : f.blocks[b] = c.blocks[b]
  <2>1. Len(e.blocks) >= Len(c.blocks) /\ \A b \in DOMAIN c.blocks : e.blocks[b] = c.blocks[b]
    BY DEF Partly
  <2>2. QED
    BY <1>2, <1>6, <2>1
<1>8. TargetText(f, target) = IF target = l + 1 THEN block.text ELSE text
  <2>1. CASE target = l + 1
    BY <1>2, <2>1 DEF TargetText
  <2>2. CASE target # l + 1
    <3>1. target = e.target /\ target \in 0..l /\ TargetText(e, target) = text
      BY <1>2, <2>2 DEF Partly
    <3>2. QED
      BY <1>2, <2>2, <3>1 DEF TargetText
  <2>3. QED
    BY <2>1, <2>2
<1>9. target \in 0..Len(f.blocks)
  BY <1>2
<1>10. f.title = c.title /\ f.sections = c.sections /\ f.stack = c.stack /\ f.section = c.section
  BY <1>3 DEF Partly
<1>11. QED
  BY <1>3, <1>4, <1>5, <1>7, <1>8, <1>9, <1>10 DEF Partly, f

(* The chapter that is being read, after n items.                            *)
CurrentOK(c, n) ==
  /\ c \in ChapterSet /\ Follows(c) /\ OnTrack(c, n)
  /\ TitleReads(c, ChapterOf(n), n) /\ SectionsRead(c, ChapterOf(n), n)
  /\ BlocksRead(c, ChapterOf(n), n) /\ TextsRead(c, ChapterOf(n), n)

TargetAfter(n) == IF file[n].kind = "table" THEN Item(n) ELSE Nearest(TargetsBefore(n))

(* The three parts of an item that is no heading, one after the other.       *)
LEMMA PartlyText ==
  ASSUME FileOK, NEW n \in Nat, n + 1 \in 1..Len(file), ~Starts(n + 1), ~Heading(n + 1), NEW c, CurrentOK(c, n)
  PROVE  Partly(c, TextRead(c, n + 1), ChapterOf(n), n + 1, TargetAfter(n + 1))
<1> DEFINE i == n + 1
           q == ChapterOf(n)
<1>1. /\ ChapterOf(i) = q /\ i \in At(q, i) /\ i \notin At(q, n) /\ i \in 1..Len(file)
      /\ TargetsBefore(i) = Targets(n) /\ SectionsBefore(i) = Sections(n)
  BY ChapterIs, AtGrows, SetsBefore
<1>2. /\ c \in ChapterSet /\ Follows(c) /\ OnTrack(c, n) /\ BlocksRead(c, q, n)
  BY DEF CurrentOK
<1>3. BlocksRead(c, q, i)
  BY <1>2, ReadsLater
<1>4. Partly(c, c, q, i, Nearest(TargetsBefore(i)))
  <2>1. c.blocks \in Seq(BlockSet)
    BY <1>2 DEF ChapterSet
  <2>2. c.target \in 0..Len(c.blocks) /\ TargetText(c, c.target) = Nearest(TargetsBefore(i))
    BY <1>1, <1>2 DEF OnTrack
  <2>3. QED
    BY <1>2, <1>3, <2>1, <2>2 DEF Partly
<1>5. CASE file[i].kind \in {"image", "break"}
  BY <1>4, <1>5 DEF TextRead, TargetAfter
<1>6. CASE file[i].kind \notin {"image", "break"}
  <2> DEFINE b == TextBlock(c, i)
             t == IF file[i].kind = "table" THEN Len(c.blocks) + 1 ELSE c.target
  <2>1. /\ b \in BlockSet /\ b.type = TypeOfItem(i) /\ b.text = Item(i) /\ b.section = c.section
        /\ b.level = file[i].level /\ b.parts = file[i].parts
        /\ b.note = IF file[i].kind = "table" THEN 0 ELSE file[i].note
        /\ b.target = IF file[i].kind = "caption" THEN c.target ELSE 0
        /\ TypeOfItem(i) # "figure"
    BY <1>1, <1>2, <1>6, TextBlockIs
  <2>2. /\ file[i].kind \in {"text", "quote", "caption", "table", "aside"}
        /\ ~Title(i)
    BY <1>1, <1>6, ItemIs DEF Title, Heading
  <2>3. /\ TypeOfItem(i) \in {"text", "caption", "table", "note"} /\ (TypeOfItem(i) = "table" <=> file[i].kind = "table")
        /\ (TypeOfItem(i) = "caption" <=> file[i].kind = "caption")
    BY <2>2 DEF TypeOfItem
  <2>4. /\ c.section \in 0..Len(c.sections) /\ c.target \in 0..Len(c.blocks)
        /\ TitleAt(c, c.section) = Nearest(Sections(n)) /\ TargetText(c, c.target) = Nearest(Targets(n))
    BY <1>2 DEF OnTrack
  <2>5. Len(c.blocks) \in Nat
    BY <1>2 DEF ChapterSet
  <2> HIDE DEF b
  <2>6. b.target \in 0..Len(c.blocks) /\ b.section \in 0..Len(c.sections)
    BY <2>1, <2>4, <2>5
  <2>7. FromItem(c, b, i)
    <3>1. b.type \notin {"figure", "heading"} /\ (b.type \in {"table", "figure"} <=> file[i].kind = "table")
      BY <2>1, <2>3
    <3>2. QED
      BY <1>6, <2>1, <2>2, <3>1 DEF FromItem
  <2>8. BlockFollows(c, b)
    <3>1. b.text[2] = i
      BY <2>1, TextIs
    <3>2. b.type = "caption" => b.target = c.target
      BY <2>1, <2>3
    <3>3. QED
      BY <1>1, <2>1, <2>4, <3>1, <3>2 DEF BlockFollows
  <2>9. \A a \in DOMAIN c.blocks : c.blocks[a].text # b.text
    <3> TAKE a \in DOMAIN c.blocks
    <3>1. PICK j \in At(q, n) : FromItem(c, c.blocks[a], j)
      BY <1>2 DEF BlocksRead
    <3>2. c.blocks[a].text[2] = j /\ j # i
      BY <1>1, <3>1, FromItemIs
    <3>3. QED
      BY <2>1, <3>2, TextIs
  <2>10. t \in 0..(Len(c.blocks) + 1) /\ (t = c.target \/ t = Len(c.blocks) + 1) /\ i \in Nat
         /\ (t = Len(c.blocks) + 1 <=> file[i].kind = "table")
    BY <2>4, <2>5
  <2> HIDE DEF t
  <2>11. Partly(c, Grow(c, b, t), q, i, IF t = Len(c.blocks) + 1 THEN b.text ELSE Nearest(TargetsBefore(i)))
    BY <1>1, <1>2, <1>4, <2>1, <2>6, <2>7, <2>8, <2>9, <2>10, PartlyGrows
  <2>12. TextRead(c, i) = Grow(c, b, t)
    BY <1>6 DEF TextRead, b, t
  <2>13. (IF t = Len(c.blocks) + 1 THEN b.text ELSE Nearest(TargetsBefore(i))) = TargetAfter(i)
    BY <2>1, <2>10 DEF TargetAfter
  <2>14. QED
    BY <2>11, <2>12, <2>13
<1>7. QED
  BY <1>5, <1>6

LEMMA PartlyQuote ==
  ASSUME FileOK, NEW n \in Nat, n + 1 \in 1..Len(file), ~Starts(n + 1), ~Heading(n + 1), NEW c, CurrentOK(c, n)
  PROVE  /\ Partly(c, QuoteRead(TextRead(c, n + 1), n + 1), ChapterOf(n), n + 1, TargetAfter(n + 1))
         /\ Textual(n + 1) => \E b \in DOMAIN QuoteRead(TextRead(c, n + 1), n + 1).blocks :
              /\ QuoteRead(TextRead(c, n + 1), n + 1).blocks[b].type # "figure"
              /\ QuoteRead(TextRead(c, n + 1), n + 1).blocks[b].text = Item(n + 1)
<1> DEFINE i == n + 1
           q == ChapterOf(n)
           e == TextRead(c, i)
           b == TextBlock(c, i)
<1>1. Partly(c, e, q, i, TargetAfter(i))
  BY PartlyText
<1>2. /\ ChapterOf(i) = q /\ i \in At(q, i) /\ i \notin At(q, n) /\ i \in 1..Len(file)
      /\ SectionsBefore(i) = Sections(n) /\ TargetsBefore(i) = Targets(n)
  BY ChapterIs, AtGrows, SetsBefore
<1>0. i \in Nat
  OBVIOUS
<1>3. c \in ChapterSet /\ BlocksRead(c, q, n) /\ OnTrack(c, n)
  BY DEF CurrentOK
<1>4. file[i].kind \notin {"image", "break"} =>
        /\ b \in BlockSet /\ b.text = Item(i) /\ b.type # "figure"
        /\ Len(e.blocks) = Len(c.blocks) + 1 /\ e.blocks[Len(c.blocks) + 1] = b
        /\ DOMAIN e.blocks = 1..(Len(c.blocks) + 1) /\ Len(c.blocks) \in Nat /\ DOMAIN c.blocks = 1..Len(c.blocks)
        /\ \A a \in 1..Len(c.blocks) : e.blocks[a] = c.blocks[a]
  <2> HAVE file[i].kind \notin {"image", "break"}
  <2>1. b \in BlockSet /\ b.text = Item(i) /\ b.type # "figure"
    BY <1>0, <1>2, <1>3, TextBlockIs
  <2> DEFINE t == IF file[i].kind = "table" THEN Len(c.blocks) + 1 ELSE c.target
  <2>2. t \in Nat
    BY <1>3 DEF ChapterSet
  <2>3. e = Grow(c, b, t)
    BY DEF TextRead
  <2> HIDE DEF b, t, e
  <2>4. QED
    BY <1>3, <2>1, <2>2, <2>3, BlocksGrow
<1>5. Textual(i) => \E a \in DOMAIN e.blocks : e.blocks[a].type # "figure" /\ e.blocks[a].text = Item(i)
  <2> SUFFICES ASSUME Textual(i) PROVE \E a \in DOMAIN e.blocks : e.blocks[a].type # "figure" /\ e.blocks[a].text = Item(i)
    OBVIOUS
  <2>1. file[i].kind \notin {"image", "break"}
    BY DEF Textual
  <2> HIDE DEF e, b
  <2>2. Len(c.blocks) + 1 \in DOMAIN e.blocks
    BY <1>4, <2>1
  <2>3. QED
    BY <1>4, <2>1, <2>2
<1>6. CASE file[i].kind # "quote"
  <2>1. QuoteRead(e, i) = e
    BY <1>6 DEF QuoteRead
  <2>2. QED
    BY <1>1, <1>5, <2>1
<1>7. CASE file[i].kind = "quote"
  <2> DEFINE f == Block(e, "text", Inner(i), file[i])
  <2>1. e \in ChapterSet
    BY <1>1 DEF Partly
  <2>2. /\ f \in BlockSet /\ f.type = "text" /\ f.text = Inner(i) /\ f.section = e.section
        /\ f.level = file[i].level /\ f.parts = file[i].parts /\ f.note = file[i].note /\ f.target = 0
    BY <1>2, <2>1, InnerBlockIs
  <2> HIDE DEF f
  <2>3. FromItem(e, f, i)
    <3>1. ~Title(i) /\ TypeOfItem(i) = "text"
      BY <1>7 DEF Title, TypeOfItem
    <3>2. f.type \notin {"table", "figure", "heading"}
      BY <2>2
    <3>3. QED
      BY <1>7, <2>2, <3>1, <3>2 DEF FromItem
  <2>4. \A a \in DOMAIN e.blocks : e.blocks[a].text # f.text
    <3> HIDE DEF e, b
    <3> TAKE a \in DOMAIN e.blocks
    <3>1. CASE a = Len(c.blocks) + 1
      BY <1>4, <1>7, <2>2, <3>1, TextIs
    <3>2. CASE a # Len(c.blocks) + 1
      <4>1. a \in DOMAIN c.blocks /\ e.blocks[a] = c.blocks[a]
        BY <1>4, <1>7, <3>2
      <4>2. PICK j \in At(q, n) : FromItem(c, c.blocks[a], j)
        BY <1>3, <4>1 DEF BlocksRead
      <4>3. c.blocks[a].text[2] = j /\ j # i
        BY <1>2, <4>2, FromItemIs
      <4>4. QED
        BY <2>2, <4>1, <4>3, TextIs
    <3>3. QED
      BY <3>1, <3>2
  <2>5. e.section = c.section /\ e.sections = c.sections /\ e.target \in 0..Len(e.blocks) /\ TargetText(e, e.target) = TargetAfter(i)
    BY <1>1 DEF Partly
  <2>6. c.section \in 0..Len(c.sections) /\ TitleAt(c, c.section) = Nearest(Sections(n))
    BY <1>3 DEF OnTrack
  <2>7. BlockFollows(e, f)
    <3>1. f.text[2] = i
      BY <2>2, TextIs
    <3>2. TitleAt(e, f.section) = Nearest(SectionsBefore(i))
      BY <1>2, <2>2, <2>5, <2>6 DEF TitleAt
    <3>3. QED
      BY <2>2, <3>1, <3>2 DEF BlockFollows
  <2>8. Len(e.blocks) \in Nat /\ e.target # Len(e.blocks) + 1 /\ e.target \in 0..(Len(e.blocks) + 1)
    <3>1. Len(e.blocks) \in Nat
      BY <2>1 DEF ChapterSet
    <3>2. QED
      BY <2>5, <3>1
  <2>9. f.section \in 0..Len(e.sections) /\ f.target \in 0..Len(e.blocks)
    BY <2>2, <2>5, <2>6, <2>8
  <2> HIDE DEF e
  <2>10. Partly(c, Grow(e, f, e.target), q, i, IF e.target = Len(e.blocks) + 1 THEN f.text ELSE TargetAfter(i))
    BY <1>1, <1>0, <1>2, <1>3, <2>2, <2>3, <2>4, <2>7, <2>8, <2>9, PartlyGrows
  <2>11. QuoteRead(e, i) = Grow(e, f, e.target)
    BY <1>7 DEF QuoteRead, f
  <2>12. Partly(c, QuoteRead(e, i), q, i, TargetAfter(i))
    BY <2>8, <2>10, <2>11
  <2>13. \A a \in DOMAIN e.blocks : a \in DOMAIN QuoteRead(e, i).blocks /\ QuoteRead(e, i).blocks[a] = e.blocks[a]
    <3>1. e.target \in Nat
      BY <2>8
    <3>2. /\ Len(e.blocks) \in Nat /\ DOMAIN e.blocks = 1..Len(e.blocks)
          /\ DOMAIN Grow(e, f, e.target).blocks = 1..(Len(e.blocks) + 1)
          /\ \A a \in 1..Len(e.blocks) : Grow(e, f, e.target).blocks[a] = e.blocks[a]
      BY <2>1, <2>2, <3>1, BlocksGrow
    <3>3. QED
      BY <2>11, <3>2
  <2>14. QED
    BY <1>5, <2>12, <2>13 DEF e
<1>8. QED
  BY <1>6, <1>7

LEMMA PartlyFigure ==
  ASSUME FileOK, NEW n \in Nat, n + 1 \in 1..Len(file), ~Starts(n + 1), ~Heading(n + 1), NEW c, CurrentOK(c, n),
         NEW e, Partly(c, e, ChapterOf(n), n + 1, TargetAfter(n + 1)),
         NEW assets \in Seq(Pictures), file[n + 1].image # 0
  PROVE  Partly(c, FigureRead(e, Register(assets, file[n + 1].image), n + 1), ChapterOf(n), n + 1, Item(n + 1))
<1> DEFINE i == n + 1
           q == ChapterOf(n)
           now == Register(assets, file[i].image)
           f == FigureBlock(e, now, i)
           l == Len(e.blocks)
<1>1. /\ ChapterOf(i) = q /\ i \in At(q, i) /\ i \in 1..Len(file)
      /\ SectionsBefore(i) = Sections(n) /\ TargetsBefore(i) = Targets(n)
  BY ChapterIs, AtGrows, SetsBefore
<1>0. i \in Nat
  OBVIOUS
<1>2. c \in ChapterSet /\ OnTrack(c, n)
  BY DEF CurrentOK
<1>3. e \in ChapterSet /\ e.section = c.section /\ e.sections = c.sections
  BY DEF Partly
<1>4. /\ f \in BlockSet /\ f.type = "figure" /\ f.text = Item(i) /\ f.section = e.section
      /\ f.level = file[i].level /\ f.parts = file[i].parts /\ f.note = 0 /\ f.target = 0
  BY <1>0, <1>1, <1>3, FigureBlockIs
<1>5. l \in Nat
  BY <1>3 DEF ChapterSet
<1> HIDE DEF f
<1>6. FromItem(e, f, i)
  <2>1. ~Title(i)
    BY DEF Title
  <2>2. f.type \in {"table", "figure"} /\ f.type # "heading"
    BY <1>4
  <2>3. QED
    BY <1>4, <2>1, <2>2 DEF FromItem
<1>7. BlockFollows(e, f)
  <2>1. f.text[2] = i
    BY <1>4, TextIs
  <2>2. TitleAt(e, f.section) = Nearest(SectionsBefore(i))
    BY <1>1, <1>0, <1>2, <1>3, <1>4 DEF TitleAt, OnTrack
  <2>3. QED
    BY <1>4, <2>1, <2>2 DEF BlockFollows
<1>8. f.section \in 0..Len(e.sections) /\ f.target \in 0..Len(e.blocks) /\ l + 1 \in 0..(l + 1)
  BY <1>0, <1>2, <1>3, <1>4, <1>5 DEF OnTrack
<1>9. Partly(c, Grow(e, f, l + 1), q, i, IF l + 1 = Len(e.blocks) + 1 THEN f.text ELSE TargetAfter(i))
  BY <1>0, <1>1, <1>2, <1>4, <1>6, <1>7, <1>8, PartlyGrows
<1>10. FigureRead(e, now, i) = Grow(e, f, l + 1)
  BY DEF FigureRead, f
<1>11. QED
  BY <1>4, <1>9, <1>10

LEMMA NoSectionReads ==
  ASSUME NEW n \in Nat, ~Starts(n + 1), ~Section(n + 1)
  PROVE  Sections(n + 1) = Sections(n) /\ \A l : Higher(n + 1, l) = Higher(n, l)
<1>1. Sections(n + 1) = Sections(n) \union (IF Section(n + 1) THEN {n + 1} ELSE {})
  BY SetsGrow
<1>2. Sections(n + 1) = Sections(n)
  BY <1>1
<1>3. QED
  BY <1>2 DEF Higher

(* What was on track stays so when a chapter gets blocks only.               *)
LEMMA TrackOn ==
  ASSUME NEW n \in Nat, ~Starts(n + 1), ~Section(n + 1), NEW c \in ChapterSet, OnTrack(c, n),
         NEW e, e.sections = c.sections, e.stack = c.stack, e.section = c.section,
         e.target \in 0..Len(e.blocks), TargetText(e, e.target) = Nearest(Targets(n + 1))
  PROVE  OnTrack(e, n + 1)
<1>1. Sections(n + 1) = Sections(n) /\ \A l : Higher(n + 1, l) = Higher(n, l)
  BY NoSectionReads
<1>2. \A s : TitleAt(e, s) = TitleAt(c, s)
  BY DEF TitleAt
<1>3. \A l : Parent(e, l) = Parent(c, l)
  BY DEF Parent
<1>4. QED
  BY <1>1, <1>2, <1>3 DEF OnTrack

(* So an item that is no heading keeps the chapter in order.                 *)
LEMMA ItemStep ==
  ASSUME FileOK, NEW n \in Nat, n + 1 \in 1..Len(file), ~Starts(n + 1), ~Heading(n + 1), NEW d \in DocumentSet,
         CurrentOK(d.current, n)
  PROVE  CurrentOK(ItemRead(d, n + 1).current, n + 1)
<1> DEFINE i == n + 1
           q == ChapterOf(n)
           c == d.current
           e == QuoteRead(TextRead(c, i), i)
           f == ItemRead(d, i).current
           text == IF TargetAt(i) THEN Item(i) ELSE Nearest(TargetsBefore(i))
<1>0. i \in Nat /\ i \in 1..Len(file)
  OBVIOUS
<1>1. /\ ChapterOf(i) = q /\ ~Title(i) /\ ~Section(i)
      /\ TargetsBefore(i) = Targets(n) /\ SectionsBefore(i) = Sections(n)
  BY ChapterIs, SetsBefore DEF Section, Title
<1>2. d.assets \in Seq(Pictures) /\ c \in ChapterSet
  BY DEF DocumentSet
<1>3. /\ Partly(c, e, q, i, TargetAfter(i))
      /\ Textual(i) => \E b \in DOMAIN e.blocks : e.blocks[b].type # "figure" /\ e.blocks[b].text = Item(i)
  BY PartlyQuote
<1>4. f = FigureRead(e, AssetsRead(d, i), i)
  BY <1>0, ItemReadIs DEF Heading
<1>5. TargetAt(i) <=> file[i].kind = "table" \/ file[i].image # 0
  BY DEF TargetAt
<1> HIDE DEF e, f, c
<1>6. Partly(c, f, q, i, text) /\ \A b \in DOMAIN e.blocks : b \in DOMAIN f.blocks /\ f.blocks[b] = e.blocks[b]
  <2>1. CASE file[i].image = 0
    <3>1. f = e
      BY <1>4, <2>1 DEF FigureRead
    <3>2. text = TargetAfter(i)
      BY <1>5, <2>1 DEF TargetAfter
    <3>3. QED
      BY <1>3, <3>1, <3>2
  <2>2. CASE file[i].image # 0
    <3> DEFINE now == Register(d.assets, file[i].image)
    <3>1. f = FigureRead(e, now, i) /\ text = Item(i)
      BY <1>4, <1>5, <2>2 DEF AssetsRead
    <3>2. Partly(c, f, q, i, text)
      <4>1. CurrentOK(c, n)
        BY DEF c
      <4>2. Partly(c, FigureRead(e, now, i), q, i, Item(i))
        BY <1>2, <1>3, <2>2, <4>1, PartlyFigure
      <4>3. QED
        BY <3>1, <4>2
    <3>3. \A b \in DOMAIN e.blocks : b \in DOMAIN f.blocks /\ f.blocks[b] = e.blocks[b]
      <4>1. e \in ChapterSet
        BY <1>3 DEF Partly
      <4>2. FigureBlock(e, now, i) \in BlockSet
        BY <1>0, <1>2, <4>1, FigureBlockIs
      <4>3. f = Grow(e, FigureBlock(e, now, i), Len(e.blocks) + 1) /\ Len(e.blocks) + 1 \in Nat
        BY <2>2, <3>1, <4>1 DEF FigureRead, ChapterSet
      <4> HIDE DEF now
      <4>4. QED
        BY <4>1, <4>2, <4>3, BlocksGrow
    <3>4. QED
      BY <3>2, <3>3
  <2>3. QED
    BY <2>1, <2>2
<1>7. text = Nearest(Targets(i))
  <2>1. Targets(i) = Targets(n) \union (IF TargetAt(i) THEN {i} ELSE {}) /\ Targets(n) \in SUBSET (1..n)
    BY SetsGrow, SetsWithin
  <2>2. Nearest(Targets(n) \union {i}) = Item(i)
    BY <2>1, NearestIs
  <2>3. Targets(n) \union {} = Targets(n)
    OBVIOUS
  <2>4. QED
    BY <1>1, <2>1, <2>2, <2>3
<1>8. CurrentOK(c, n)
  BY DEF c
<1>9. OnTrack(f, i)
  <2>1. OnTrack(c, n) /\ f.sections = c.sections /\ f.stack = c.stack /\ f.section = c.section
        /\ f.target \in 0..Len(f.blocks) /\ TargetText(f, f.target) = Nearest(Targets(i))
    BY <1>6, <1>7, <1>8 DEF CurrentOK, Partly
  <2>2. QED
    BY <1>1, <1>2, <2>1, TrackOn
<1>10. TitleReads(f, q, i) /\ SectionsRead(f, q, i)
  <2>1. TitleReads(c, q, i) /\ SectionsRead(c, q, i)
    BY <1>1, <1>8, ReadsLater DEF CurrentOK
  <2>2. f.title = c.title /\ f.sections = c.sections
    BY <1>6 DEF Partly
  <2>3. QED
    BY <2>1, <2>2 DEF TitleReads, SectionsRead
<1>11. TextsRead(f, q, i)
  <2>1. ASSUME NEW j \in At(q, i), Textual(j)
        PROVE  \E b \in DOMAIN f.blocks : f.blocks[b].type # "figure" /\ f.blocks[b].text = Item(j)
    <3>1. CASE j = i
      BY <1>3, <1>6, <2>1, <3>1
    <3>2. CASE j # i
      <4>1. j \in At(q, n)
        BY <1>1, <3>2, AtGrows
      <4>2. PICK b \in DOMAIN c.blocks : c.blocks[b].type # "figure" /\ c.blocks[b].text = Item(j)
        BY <1>8, <2>1, <4>1 DEF CurrentOK, TextsRead
      <4>3. b \in DOMAIN f.blocks /\ f.blocks[b] = c.blocks[b]
        <5>1. f.blocks \in Seq(BlockSet) /\ c.blocks \in Seq(BlockSet) /\ Len(f.blocks) >= Len(c.blocks)
              /\ f.blocks[b] = c.blocks[b]
          BY <1>2, <1>6, <4>2 DEF Partly, ChapterSet
        <5>2. QED
          BY <4>2, <5>1
      <4>4. QED
        BY <4>2, <4>3
    <3>3. QED
      BY <3>1, <3>2
  <2>2. QED
    BY <2>1 DEF TextsRead
<1>12. f \in ChapterSet /\ Follows(f) /\ BlocksRead(f, q, i)
  BY <1>6 DEF Partly
<1>13. QED
  BY <1>1, <1>9, <1>10, <1>11, <1>12 DEF CurrentOK, f

(* The figures of a chapter keep their images.                               *)
LEMMA FiguresStay ==
  ASSUME NEW c, NEW assets \in Seq(Pictures), NEW image \in Pictures, FiguresRead(c, assets)
  PROVE  FiguresRead(c, Register(assets, image))
<1>1. /\ Register(assets, image) \in Seq(Pictures) /\ Len(assets) <= Len(Register(assets, image))
      /\ \A a \in 1..Len(assets) : Register(assets, image)[a] = assets[a]
  BY AssetsAre
<1>2. Len(assets) \in Nat /\ Len(Register(assets, image)) \in Nat
  BY <1>1
<1>3. QED
  BY <1>1, <1>2 DEF FiguresRead

LEMMA FiguresGrow ==
  ASSUME NEW c \in ChapterSet, NEW block \in BlockSet, NEW target \in Nat, NEW assets, FiguresRead(c, assets),
         block.type = "figure" => block.asset \in 1..Len(assets) /\ assets[block.asset] = file[block.text[2]].image
  PROVE  FiguresRead(Grow(c, block, target), assets)
<1> DEFINE d == Grow(c, block, target)
<1>1. \A b \in DOMAIN d.blocks : d.blocks[b] = block \/ (b \in DOMAIN c.blocks /\ d.blocks[b] = c.blocks[b])
  BY BlocksGrow
<1> HIDE DEF d
<1>2. QED
  BY <1>1 DEF FiguresRead, d

LEMMA FiguresStep ==
  ASSUME FileOK, NEW i \in 1..Len(file), file[i].kind # "heading", NEW d \in DocumentSet, FiguresRead(d.current, d.assets)
  PROVE  FiguresRead(ItemRead(d, i).current, ItemRead(d, i).assets)
<1> DEFINE c == d.current
           e == TextRead(c, i)
           f == QuoteRead(e, i)
           now == Register(d.assets, file[i].image)
<1>1. d.assets \in Seq(Pictures) /\ c \in ChapterSet /\ file[i].image \in Pictures /\ c.target \in Nat /\ Len(c.blocks) + 1 \in Nat
  BY ItemIs DEF DocumentSet, ChapterSet
<1>2. e \in ChapterSet /\ f \in ChapterSet
  BY <1>1, ReadsAreChapters
<1>3. FiguresRead(e, d.assets)
  <2>1. CASE file[i].kind \in {"image", "break"}
    BY <2>1 DEF TextRead
  <2>2. CASE file[i].kind \notin {"image", "break"}
    <3>1. TextBlock(c, i) \in BlockSet /\ TextBlock(c, i).type # "figure"
      BY <1>1, <2>2, TextBlockIs
    <3> HIDE DEF c
    <3>2. QED
      BY <1>1, <2>2, <3>1, FiguresGrow DEF TextRead, c
  <2>3. QED
    BY <2>1, <2>2
<1>4. FiguresRead(f, d.assets)
  <2>1. CASE file[i].kind # "quote"
    BY <1>3, <2>1 DEF QuoteRead
  <2>2. CASE file[i].kind = "quote"
    <3> HIDE DEF e
    <3>1. Block(e, "text", Inner(i), file[i]) \in BlockSet /\ Block(e, "text", Inner(i), file[i]).type # "figure" /\ e.target \in Nat
      BY <1>2, InnerBlockIs DEF ChapterSet
    <3>2. QED
      BY <1>2, <1>3, <2>2, <3>1, FiguresGrow DEF QuoteRead
  <2>3. QED
    BY <2>1, <2>2
<1>5. ItemRead(d, i).current = FigureRead(f, AssetsRead(d, i), i) /\ ItemRead(d, i).assets = AssetsRead(d, i)
  BY ItemReadIs
<1> HIDE DEF f
<1>6. CASE file[i].image = 0
  BY <1>4, <1>5, <1>6 DEF FigureRead, AssetsRead
<1>7. CASE file[i].image # 0
  <2> DEFINE b == FigureBlock(f, now, i)
  <2>1. b \in BlockSet /\ b.text = Item(i) /\ b.asset \in 1..Len(now) /\ now[b.asset] = file[i].image
    BY <1>1, <1>2, FigureBlockIs
  <2>2. FiguresRead(f, now)
    BY <1>1, <1>4, FiguresStay
  <2>3. b.text[2] = i
    BY <2>1, TextIs
  <2>4. Len(f.blocks) + 1 \in Nat
    BY <1>2 DEF ChapterSet
  <2> HIDE DEF b, now
  <2>5. FiguresRead(Grow(f, b, Len(f.blocks) + 1), now)
    BY <1>2, <2>1, <2>2, <2>3, <2>4, FiguresGrow
  <2>6. QED
    BY <1>5, <1>7, <2>5 DEF FigureRead, AssetsRead, b, now
<1>8. QED
  BY <1>6, <1>7

-------------------------------------------------------------------------------
(* A heading opens a section, under the nearest section above it.            *)

Opened(c, i) ==
  [c EXCEPT !.sections = Append(c.sections, [level |-> file[i].level, title |-> Item(i), parent |-> Parent(c, file[i].level)]),
            !.stack = [l \in Levels |-> CASE l < file[i].level -> c.stack[l] [] l = file[i].level -> Len(c.sections) + 1 [] OTHER -> 0],
            !.section = Len(c.sections) + 1]

HeadingBlock(c, i) == Block(Opened(c, i), "heading", Item(i), file[i])

(* A section that is opened is the last, and its parent is found on the      *)
(* stack.                                                                    *)
LEMMA OpenedIs ==
  ASSUME FileOK, NEW i \in 1..Len(file), NEW c \in ChapterSet, \A m \in Levels : c.stack[m] \in 0..Len(c.sections)
  PROVE  /\ Opened(c, i) \in ChapterSet
         /\ Opened(c, i).title = c.title /\ Opened(c, i).blocks = c.blocks /\ Opened(c, i).target = c.target
         /\ Opened(c, i).section = Len(c.sections) + 1
         /\ Len(Opened(c, i).sections) = Len(c.sections) + 1
         /\ DOMAIN Opened(c, i).sections = 1..(Len(c.sections) + 1)
         /\ Opened(c, i).sections[Len(c.sections) + 1] =
              [level |-> file[i].level, title |-> Item(i), parent |-> Parent(c, file[i].level)]
         /\ \A s \in 1..Len(c.sections) : Opened(c, i).sections[s] = c.sections[s]
         /\ Opened(c, i).stack = [l \in Levels |-> CASE l < file[i].level -> c.stack[l]
                                                    [] l = file[i].level -> Len(c.sections) + 1 [] OTHER -> 0]
         /\ HeadingBlock(c, i) \in BlockSet
         /\ HeadingBlock(c, i).type = "heading" /\ HeadingBlock(c, i).text = Item(i)
         /\ HeadingBlock(c, i).section = Len(c.sections) + 1 /\ HeadingBlock(c, i).target = 0
         /\ HeadingBlock(c, i).level = file[i].level /\ HeadingBlock(c, i).parts = file[i].parts
         /\ HeadingBlock(c, i).note = file[i].note
         /\ OpenSection(c, i, file[i], TopLevel) = Grow(Opened(c, i), HeadingBlock(c, i), c.target)
<1> DEFINE v == file[i].level
           new == Len(c.sections) + 1
           section == [level |-> v, title |-> Item(i), parent |-> Parent(c, v)]
           stack == [l \in Levels |-> CASE l < v -> c.stack[l] [] l = v -> new [] OTHER -> 0]
           sections == Append(c.sections, section)
           o == Opened(c, i)
           h == HeadingBlock(c, i)
<1>1. v \in Levels /\ v \in Nat /\ Item(i) \in TextSet /\ file[i].parts \in Nat \ {0} /\ file[i].note \in NoteIds
  BY ItemIs, TextsAre DEF Levels
<1>2. c.sections \in Seq(SectionSet) /\ Len(c.sections) \in Nat /\ new \in Nat
  BY DEF ChapterSet
<1>3. Parent(c, v) \in Nat
  BY <1>1, <1>2, ParentIs
<1>4. section \in SectionSet
  BY <1>1, <1>3 DEF SectionSet
<1>5. stack \in [Levels -> Nat]
  <2>1. \A l \in Levels : c.stack[l] \in Nat /\ l \in Nat
    BY <1>2 DEF Levels
  <2>2. \A l \in Levels : (CASE l < v -> c.stack[l] [] l = v -> new [] OTHER -> 0) \in Nat
    <3> TAKE l \in Levels
    <3>1. CASE l < v
      <4>1. l # v
        BY <1>1, <2>1, <3>1
      <4>2. QED
        BY <2>1, <3>1, <4>1
    <3>2. CASE l = v
      <4>1. ~(l < v)
        BY <1>1, <3>2
      <4>2. QED
        BY <1>2, <3>2, <4>1
    <3>3. CASE ~(l < v) /\ l # v
      BY <3>3
    <3>4. QED
      BY <3>1, <3>2, <3>3
  <2>3. QED
    BY <2>2
<1>6. /\ sections \in Seq(SectionSet) /\ Len(sections) = new /\ DOMAIN sections = 1..new
      /\ sections[new] = section /\ \A s \in 1..Len(c.sections) : sections[s] = c.sections[s]
  <2> HIDE DEF section
  <2>1. QED
    BY <1>2, <1>4
<1>7. o = [c EXCEPT !.sections = sections, !.stack = stack, !.section = new]
  BY DEF Opened
<1> HIDE DEF sections, stack
<1>8. /\ o \in ChapterSet /\ o.title = c.title /\ o.blocks = c.blocks /\ o.target = c.target
      /\ o.section = new /\ o.sections = sections /\ o.stack = stack
  BY <1>2, <1>5, <1>6, <1>7 DEF ChapterSet
<1>9. /\ h \in BlockSet /\ h.type = "heading" /\ h.text = Item(i) /\ h.section = o.section /\ h.target = 0
  BY <1>1, <1>8, BlockIs DEF HeadingBlock
<1>10. h.level = v /\ h.parts = file[i].parts /\ h.note = file[i].note
  BY DEF HeadingBlock, Block
<1>11. OpenSection(c, i, file[i], TopLevel) = Add(o, h)
  <2>1. o = [c EXCEPT !.sections = Append(@, [level |-> file[i].level, title |-> Item(i), parent |-> Parent(c, v)]),
                      !.stack = [l \in Levels |-> CASE l < file[i].level -> @[l] [] l = file[i].level -> new [] OTHER -> 0],
                      !.section = new]
    BY DEF Opened
  <2>2. QED
    BY <2>1 DEF OpenSection, HeadingBlock, Parent
<1>12. Add(o, h) = Grow(o, h, o.target)
  <2>1. c.target \in Nat
    BY DEF ChapterSet
  <2>2. QED
    BY <1>8, <1>9, <2>1, GrowIs
<1>13. OpenSection(c, i, file[i], TopLevel) = Grow(o, h, c.target)
  BY <1>8, <1>11, <1>12
<1>14. o.stack = [l \in Levels |-> CASE l < file[i].level -> c.stack[l] [] l = file[i].level -> Len(c.sections) + 1 [] OTHER -> 0]
  BY <1>8 DEF stack
<1> HIDE DEF o, h
<1>15. QED
  BY <1>6, <1>8, <1>9, <1>10, <1>13, <1>14 DEF o, h

LEMMA OpenedFollows ==
  ASSUME FileOK, NEW n \in Nat, n + 1 \in 1..Len(file), ~Starts(n + 1), Section(n + 1), NEW c, CurrentOK(c, n)
  PROVE  LET o == Opened(c, n + 1) IN
         /\ o \in ChapterSet /\ Follows(o) /\ BlocksRead(o, ChapterOf(n), n + 1)
         /\ SectionsRead(o, ChapterOf(n), n + 1)
         /\ \A s \in 0..Len(c.sections) : TitleAt(o, s) = TitleAt(c, s)
         /\ TitleAt(o, Len(c.sections) + 1) = Item(n + 1)
<1> DEFINE i == n + 1
           q == ChapterOf(n)
           o == Opened(c, i)
           new == Len(c.sections) + 1
           v == file[i].level
<1>1. c \in ChapterSet /\ Follows(c) /\ OnTrack(c, n) /\ SectionsRead(c, q, n) /\ BlocksRead(c, q, n)
  BY DEF CurrentOK
<1>2. /\ i \in Nat /\ i \in 1..Len(file) /\ v \in Levels
  BY ItemIs
<1>3. /\ ChapterOf(i) = q /\ i \in At(q, i) /\ HigherBefore(i) = Higher(n, v)
  BY ChapterIs, AtGrows, SetsBefore
<1>4. \A m \in Levels : c.stack[m] \in 0..Len(c.sections)
  BY <1>1 DEF OnTrack
<1>5. /\ o \in ChapterSet /\ o.blocks = c.blocks
      /\ DOMAIN o.sections = 1..new /\ Len(o.sections) = new
      /\ o.sections[new] = [level |-> v, title |-> Item(i), parent |-> Parent(c, v)]
      /\ \A s \in 1..Len(c.sections) : o.sections[s] = c.sections[s]
  BY <1>1, <1>2, <1>4, OpenedIs
<1>6. Len(c.sections) \in Nat /\ DOMAIN c.sections = 1..Len(c.sections) /\ Len(c.blocks) \in Nat
      /\ c.sections \in Seq(SectionSet)
  BY <1>1 DEF ChapterSet
<1> HIDE DEF o
<1>7. o.sections[new].title = Item(i) /\ o.sections[new].parent = Parent(c, v)
  BY <1>5
<1>8. \A s \in 0..Len(c.sections) : TitleAt(o, s) = TitleAt(c, s)
  BY <1>5, <1>6 DEF TitleAt
<1>9. TitleAt(o, new) = Item(i)
  BY <1>6, <1>7 DEF TitleAt
<1>10. ASSUME NEW s \in DOMAIN o.sections PROVE o.sections[s].parent \in 0..Len(o.sections) /\ SectionFollows(o, s)
  <2>1. CASE s = new
    <3>1. Parent(c, v) \in 0..Len(c.sections)
      BY <1>1, <1>2, <1>4, ParentIs
    <3>2. TitleAt(o, Parent(c, v)) = Nearest(HigherBefore(i))
      BY <1>1, <1>2, <1>3, <1>8, <3>1 DEF OnTrack
    <3>3. o.sections[s].title[2] = i
      BY <1>7, <2>1, TextIs
    <3>4. QED
      BY <1>5, <1>6, <1>7, <2>1, <3>1, <3>2, <3>3 DEF SectionFollows
  <2>2. CASE s # new
    <3>1. s \in 1..Len(c.sections) /\ o.sections[s] = c.sections[s]
      BY <1>5, <1>6, <2>2
    <3>2. c.sections[s].parent \in 0..Len(c.sections) /\ SectionFollows(c, s)
      BY <1>1, <1>6, <3>1 DEF Follows
    <3>3. QED
      BY <1>5, <1>6, <1>8, <3>1, <3>2 DEF SectionFollows
  <2>3. QED
    BY <2>1, <2>2
<1>11. ASSUME NEW b \in DOMAIN o.blocks
       PROVE  o.blocks[b].section \in 0..Len(o.sections) /\ o.blocks[b].target \in 0..Len(o.blocks) /\ BlockFollows(o, o.blocks[b])
  <2> DEFINE block == c.blocks[b]
  <2>1. block.section \in 0..Len(c.sections) /\ block.target \in 0..Len(c.blocks) /\ BlockFollows(c, block)
    BY <1>1, <1>5, <1>11 DEF Follows
  <2>2. o.blocks[b] = block
    BY <1>5
  <2> HIDE DEF block
  <2>3. TitleAt(o, block.section) = TitleAt(c, block.section) /\ TargetText(o, block.target) = TargetText(c, block.target)
    BY <1>5, <1>8, <2>1 DEF TargetText
  <2>4. BlockFollows(o, block)
    BY <2>1, <2>3 DEF BlockFollows
  <2>5. QED
    BY <1>5, <1>6, <2>1, <2>2, <2>4
<1>12. Follows(o)
  BY <1>10, <1>11 DEF Follows
<1>13. BlocksRead(o, q, i)
  <2>1. BlocksRead(c, q, i)
    BY <1>1, ReadsLater
  <2>2. ASSUME NEW e, NEW j, FromItem(c, e, j) PROVE FromItem(o, e, j)
    <3>1. e.type = "heading" => e.section \in DOMAIN o.sections /\ o.sections[e.section].title = e.text
      BY <1>5, <1>6, <2>2 DEF FromItem
    <3>2. QED
      BY <2>2, <3>1 DEF FromItem
  <2>3. QED
    BY <1>5, <2>1, <2>2 DEF BlocksRead
<1>14. SectionsRead(o, q, i)
  <2>1. SectionsRead(c, q, i)
    BY <1>1, ReadsLater
  <2>2. ASSUME NEW s \in DOMAIN o.sections PROVE \E j \in At(q, i) : Section(j) /\ o.sections[s].title = Item(j)
    <3>1. CASE s = new
      BY <1>3, <1>7, <3>1
    <3>2. CASE s # new
      BY <1>5, <1>6, <2>1, <3>2 DEF SectionsRead
    <3>3. QED
      BY <3>1, <3>2
  <2>3. ASSUME NEW s \in DOMAIN o.sections, NEW t \in DOMAIN o.sections, s < t
        PROVE  o.sections[s].title[2] < o.sections[t].title[2]
    <3>1. s \in DOMAIN c.sections /\ o.sections[s] = c.sections[s]
      BY <1>5, <1>6, <2>3
    <3>2. CASE t = new
      <4>1. PICK j \in At(q, n) : c.sections[s].title = Item(j)
        BY <1>1, <3>1 DEF SectionsRead
      <4>2. o.sections[s].title[2] = j /\ o.sections[t].title[2] = i /\ j \in 1..n
        BY <1>7, <3>1, <3>2, <4>1, TextIs DEF At
      <4>3. QED
        BY <4>2
    <3>3. CASE t # new
      <4>1. t \in DOMAIN c.sections /\ o.sections[t] = c.sections[t]
        BY <1>5, <1>6, <3>3
      <4>2. QED
        BY <2>1, <2>3, <3>1, <4>1 DEF SectionsRead
    <3>4. QED
      BY <3>2, <3>3
  <2>4. QED
    BY <2>2, <2>3 DEF SectionsRead
<1>15. QED
  BY <1>5, <1>8, <1>9, <1>12, <1>13, <1>14 DEF o

(* A heading keeps the chapter in order.                                     *)
LEMMA OpenStep ==
  ASSUME FileOK, NEW n \in Nat, n + 1 \in 1..Len(file), ~Starts(n + 1), Section(n + 1), file[n + 1].level >= TopLevel,
         NEW c, CurrentOK(c, n)
  PROVE  CurrentOK(OpenSection(c, n + 1, file[n + 1], TopLevel), n + 1)
<1> DEFINE i == n + 1
           q == ChapterOf(n)
           o == Opened(c, i)
           h == HeadingBlock(c, i)
           d == OpenSection(c, i, file[i], TopLevel)
           new == Len(c.sections) + 1
           v == file[i].level
<1>1. c \in ChapterSet /\ OnTrack(c, n) /\ TitleReads(c, q, n) /\ BlocksRead(c, q, n) /\ TextsRead(c, q, n)
  BY DEF CurrentOK
<1>2. /\ i \in Nat /\ i \in 1..Len(file) /\ v \in Levels
  BY ItemIs
<1>3. /\ ChapterOf(i) = q /\ i \in At(q, i) /\ i \notin At(q, n)
      /\ At(q, i) = At(q, n) \union {i}
  BY ChapterIs, AtGrows
<1>4. \A m \in Levels : c.stack[m] \in 0..Len(c.sections)
  BY <1>1 DEF OnTrack
<1>5. Len(c.sections) \in Nat /\ DOMAIN c.sections = 1..Len(c.sections) /\ Len(c.blocks) \in Nat
      /\ DOMAIN c.blocks = 1..Len(c.blocks) /\ c.target \in Nat
  BY <1>1 DEF ChapterSet
<1>6. /\ o \in ChapterSet /\ o.title = c.title /\ o.blocks = c.blocks /\ o.target = c.target
      /\ o.section = new /\ Len(o.sections) = new /\ DOMAIN o.sections = 1..new
      /\ o.stack = [l \in Levels |-> CASE l < file[i].level -> c.stack[l] [] l = file[i].level -> new [] OTHER -> 0]
  BY <1>1, <1>2, <1>4, OpenedIs
<1>7. o.sections[new].title = Item(i)
  <2>1. o.sections[new] = [level |-> file[i].level, title |-> Item(i), parent |-> Parent(c, file[i].level)]
    BY <1>1, <1>2, <1>4, OpenedIs
  <2> HIDE DEF o
  <2>2. QED
    BY <2>1
<1>8. /\ h \in BlockSet /\ h.type = "heading" /\ h.text = Item(i) /\ h.section = new /\ h.target = 0
      /\ h.level = v /\ h.parts = file[i].parts /\ h.note = file[i].note
  BY <1>1, <1>2, <1>4, OpenedIs
<1>9. d = Grow(o, h, c.target)
  BY <1>1, <1>2, <1>4, OpenedIs
<1>10. /\ Follows(o) /\ BlocksRead(o, q, i) /\ SectionsRead(o, q, i)
       /\ \A s \in 0..Len(c.sections) : TitleAt(o, s) = TitleAt(c, s)
       /\ TitleAt(o, new) = Item(i)
  BY OpenedFollows
<1> HIDE DEF o, h, d
<1>11. ~Title(i) /\ file[i].kind = "heading"
  BY DEF Section, Heading
<1>12. FromItem(o, h, i)
  <2>1. TypeOfItem(i) = "heading"
    BY <1>11 DEF TypeOfItem
  <2>2. h.section \in DOMAIN o.sections /\ o.sections[h.section].title = h.text
    BY <1>5, <1>6, <1>7, <1>8
  <2>3. QED
    BY <1>8, <1>11, <2>1, <2>2 DEF FromItem
<1>13. \A a \in DOMAIN o.blocks : o.blocks[a].text # h.text
  <2> TAKE a \in DOMAIN o.blocks
  <2>1. PICK j \in At(q, n) : FromItem(c, c.blocks[a], j)
    BY <1>1, <1>6 DEF BlocksRead
  <2>2. c.blocks[a].text[2] = j /\ j # i
    BY <1>3, <2>1, FromItemIs
  <2>3. QED
    BY <1>6, <1>8, <2>2, TextIs
<1>14. BlockFollows(o, h)
  BY <1>8 DEF BlockFollows
<1>15. h.section \in 0..Len(o.sections) /\ h.target \in 0..Len(o.blocks)
  BY <1>5, <1>6, <1>8
<1>16. Follows(d)
  BY <1>5, <1>6, <1>8, <1>9, <1>10, <1>14, <1>15, GrowFollows
<1>17. BlocksRead(d, q, i)
  BY <1>2, <1>3, <1>5, <1>6, <1>8, <1>9, <1>10, <1>12, <1>13, GrowReads
<1>18. /\ d \in ChapterSet /\ d.title = c.title /\ d.sections = o.sections /\ d.stack = o.stack
       /\ d.section = new /\ d.target = c.target
  BY <1>5, <1>6, <1>8, <1>9, GrowKeeps
<1>19. /\ DOMAIN d.blocks = 1..(Len(c.blocks) + 1) /\ Len(d.blocks) = Len(c.blocks) + 1
       /\ d.blocks[Len(c.blocks) + 1] = h
       /\ \A b \in 1..Len(c.blocks) : d.blocks[b] = c.blocks[b]
  BY <1>5, <1>6, <1>8, <1>9, BlocksGrow
<1>20. SectionsRead(d, q, i)
  BY <1>10, <1>18 DEF SectionsRead
<1>21. TitleReads(d, q, i)
  <2>1. TitleReads(c, q, i)
    BY <1>1, <1>11, ReadsLater
  <2>2. QED
    BY <1>18, <2>1 DEF TitleReads
<1>22. TextsRead(d, q, i)
  <2>1. ASSUME NEW j \in At(q, i), Textual(j)
        PROVE  \E b \in DOMAIN d.blocks : d.blocks[b].type # "figure" /\ d.blocks[b].text = Item(j)
    <3>1. CASE j = i
      <4>1. Len(c.blocks) + 1 \in DOMAIN d.blocks
        BY <1>5, <1>19
      <4>2. QED
        BY <1>8, <1>19, <3>1, <4>1
    <3>2. CASE j # i
      <4>1. PICK b \in DOMAIN c.blocks : c.blocks[b].type # "figure" /\ c.blocks[b].text = Item(j)
        BY <1>1, <1>3, <2>1, <3>2 DEF TextsRead
      <4>2. b \in DOMAIN d.blocks /\ d.blocks[b] = c.blocks[b]
        BY <1>5, <1>19, <4>1
      <4>3. QED
        BY <4>1, <4>2
    <3>3. QED
      BY <3>1, <3>2
  <2>2. QED
    BY <2>1 DEF TextsRead
<1>23. OnTrack(d, i)
  <2>1. /\ Sections(i) = Sections(n) \union {i} /\ ~TargetAt(i)
        /\ \A l : Higher(i, l) = Higher(n, l) \union (IF v < l THEN {i} ELSE {})
        /\ Targets(i) = Targets(n) \union {}
    <3>1. ~TargetAt(i)
      BY <1>11 DEF TargetAt, Heading
    <3>2. QED
      BY <3>1, SetsGrow
  <2>2. /\ Nearest(Sections(n) \union {i}) = Item(i) /\ \A l : Nearest(Higher(n, l) \union {i}) = Item(i)
    BY SetsWithin, NearestIs
  <2>3. \A s : TitleAt(d, s) = TitleAt(o, s)
    BY <1>18 DEF TitleAt
  <2>4. \A l \in Levels : d.stack[l] \in 0..Len(d.sections)
    <3> TAKE l \in Levels
    <3>1. d.stack[l] = CASE l < v -> c.stack[l] [] l = v -> new [] OTHER -> 0
      BY <1>6, <1>18
    <3>2. c.stack[l] \in 0..Len(c.sections) /\ l \in Nat /\ v \in Nat
      <4>1. l \in Nat /\ v \in Nat
        BY <1>2 DEF Levels
      <4>2. QED
        BY <1>4, <4>1
    <3>3. d.stack[l] \in {c.stack[l], new, 0}
      <4>1. CASE l < v
        <5>1. l # v
          BY <3>2, <4>1
        <5>2. QED
          BY <3>1, <4>1, <5>1
      <4>2. CASE l = v
        <5>1. ~(l < v)
          BY <3>2, <4>2
        <5>2. QED
          BY <3>1, <4>2, <5>1
      <4>3. CASE ~(l < v) /\ l # v
        BY <3>1, <4>3
      <4>4. QED
        BY <4>1, <4>2, <4>3
    <3>4. QED
      BY <1>5, <1>6, <1>18, <3>2, <3>3
  <2>5. \A l \in Levels : Parent(d, l) = IF l <= v THEN Parent(c, l) ELSE new
    <3>1. new \in Nat \ {0}
      BY <1>5
    <3>2. d.stack = [l \in Levels |-> CASE l < v -> c.stack[l] [] l = v -> new [] OTHER -> 0]
      BY <1>6, <1>18
    <3> HIDE DEF new
    <3>3. QED
      BY <1>1, <1>2, <3>1, <3>2, ParentOpens
  <2>6. ASSUME NEW l \in Levels PROVE TitleAt(d, Parent(d, l)) = Nearest(Higher(i, l))
    <3>0. l \in Nat /\ v \in Nat
      BY <1>2 DEF Levels
    <3>1. CASE l <= v
      <4>1. Higher(i, l) = Higher(n, l)
        <5>1. ~(v < l)
          BY <3>0, <3>1
        <5>2. Higher(i, l) = Higher(n, l) \union {}
          BY <2>1, <5>1
        <5>3. QED
          BY <5>2
      <4>2. Parent(d, l) = Parent(c, l) /\ Parent(c, l) \in 0..Len(c.sections)
        BY <1>1, <1>4, <2>5, <3>1, ParentIs
      <4>3. TitleAt(c, Parent(c, l)) = Nearest(Higher(n, l))
        BY <1>1 DEF OnTrack
      <4>4. QED
        BY <1>10, <2>3, <4>1, <4>2, <4>3
    <3>2. CASE ~(l <= v)
      <4>1. Higher(i, l) = Higher(n, l) \union {i}
        BY <2>1, <3>0, <3>2
      <4>2. QED
        BY <1>10, <2>2, <2>3, <2>5, <3>2, <4>1
    <3>3. QED
      BY <3>1, <3>2
  <2>7. d.target \in 0..Len(d.blocks) /\ TargetText(d, d.target) = Nearest(Targets(i))
    <3>1. c.target \in 0..Len(c.blocks) /\ TargetText(c, c.target) = Nearest(Targets(n))
      BY <1>1 DEF OnTrack
    <3>2. QED
      BY <1>5, <1>18, <1>19, <2>1, <3>1 DEF TargetText
  <2>8. d.section \in 0..Len(d.sections) /\ TitleAt(d, d.section) = Nearest(Sections(i))
    <3>1. d.section \in 0..Len(d.sections)
      BY <1>5, <1>6, <1>18
    <3>2. TitleAt(d, d.section) = Item(i)
      BY <1>10, <1>18, <2>3
    <3>3. QED
      BY <2>1, <2>2, <3>1, <3>2
  <2>9. QED
    BY <2>4, <2>6, <2>7, <2>8 DEF OnTrack
<1>24. QED
  BY <1>3, <1>16, <1>17, <1>18, <1>20, <1>21, <1>22, <1>23 DEF CurrentOK, d

-------------------------------------------------------------------------------
(* Sequences that are joined. FlattenSeq is a recursive function: what it    *)
(* makes of a sequence is told by the least number of its elements for which *)
(* it would not hold.                                                        *)

(* FlattenSeq, of which only the definition is known.                        *)
Flattens(f, S, n) == f = [i \in 1..n |-> IF i = 1 THEN S[i] ELSE f[i - 1] \o S[i]]

(* It is known at every number.                                              *)
LEMMA FlattensAt == \A f, S, n : Flattens(f, S, n) => \A i \in 1..n : f[i] = IF i = 1 THEN S[i] ELSE f[i - 1] \o S[i]
  BY DEF Flattens

(* It exists.                                                                *)
LEMMA FlattensExists == \A S : \A n \in Nat : \E f : Flattens(f, S, n)
<1> TAKE S
<1> DEFINE Bad == {n \in Nat : ~\E f : Flattens(f, S, n)}
<1>1. SUFFICES ASSUME Bad # {} PROVE FALSE
  OBVIOUS
<1>2. PICK n \in Bad : \A m \in Bad : n <= m
  BY <1>1, Least
<1>3. CASE n = 0
  <2> DEFINE f == [i \in 1..0 |-> S]
  <2>1. Flattens(f, S, 0)
    BY DEF Flattens
  <2>2. QED
    BY <1>2, <1>3, <2>1
<1>4. CASE n # 0
  <2>1. n - 1 \in Nat /\ n - 1 \notin Bad /\ n \in Nat
    BY <1>2, <1>4
  <2>2. PICK f : Flattens(f, S, n - 1)
    BY <2>1
  <2> DEFINE g == [i \in 1..n |-> IF i = n THEN (IF n = 1 THEN S[n] ELSE f[n - 1] \o S[n]) ELSE f[i]]
  <2>3. \A i \in 1..(n - 1) : g[i] = f[i] /\ f[i] = IF i = 1 THEN S[i] ELSE f[i - 1] \o S[i]
    <3>1. \A i \in 1..(n - 1) : f[i] = IF i = 1 THEN S[i] ELSE f[i - 1] \o S[i]
      BY <2>2, FlattensAt
    <3>2. \A i \in 1..(n - 1) : g[i] = f[i]
      BY <2>1
    <3>3. QED
      BY <3>1, <3>2
  <2>4. \A i \in 1..n : g[i] = IF i = 1 THEN S[i] ELSE g[i - 1] \o S[i]
    <3> TAKE i \in 1..n
    <3>1. CASE i = n
      <4>1. g[n] = IF n = 1 THEN S[n] ELSE f[n - 1] \o S[n]
        BY <2>1, <1>4
      <4>2. n # 1 => n - 1 \in 1..(n - 1)
        BY <2>1, <1>4
      <4>3. QED
        BY <2>3, <3>1, <4>1, <4>2
    <3>2. CASE i # n
      <4>1. i \in 1..(n - 1) /\ (i # 1 => i - 1 \in 1..(n - 1))
        BY <2>1, <3>2
      <4>2. QED
        BY <2>3, <4>1
    <3>3. QED
      BY <3>1, <3>2
  <2>5. Flattens(g, S, n)
    <3>1. g = [i \in 1..n |-> g[i]]
      OBVIOUS
    <3> HIDE DEF g
    <3>2. QED
      BY <2>4, <3>1 DEF Flattens
  <2>6. QED
    BY <1>2, <2>5
<1>5. QED
  BY <1>3, <1>4

LEMMA FlattenIs ==
  ASSUME NEW S, Len(S) \in Nat, Len(S) # 0
  PROVE  \E f : Flattens(f, S, Len(S)) /\ FlattenSeq(S) = f[Len(S)]
<1> DEFINE h == CHOOSE f : Flattens(f, S, Len(S))
           g == CHOOSE f : f = [i \in 1..Len(S) |-> IF i = 1 THEN S[i] ELSE f[i - 1] \o S[i]]
<1>1. Flattens(h, S, Len(S))
  BY FlattensExists
<1>2. g = h
  BY DEF Flattens
<1>3. FlattenSeq(S) = g[Len(S)]
  BY DEF FlattenSeq
<1> HIDE DEF g, h
<1>4. QED
  BY <1>1, <1>2, <1>3

(* It depends on nothing else.                                               *)
LEMMA FlattensSame ==
  ASSUME NEW S, NEW T, NEW n \in Nat, NEW f, NEW g, Flattens(f, S, n), NEW m \in Nat, Flattens(g, T, m), n <= m,
         \A i \in 1..n : S[i] = T[i]
  PROVE  \A i \in 1..n : f[i] = g[i]
<1> DEFINE Bad == {i \in Nat : i \in 1..n /\ f[i] # g[i]}
<1>1. SUFFICES ASSUME Bad # {} PROVE FALSE
  OBVIOUS
<1>2. PICK i \in Bad : \A k \in Bad : i <= k
  BY <1>1, Least
<1>3. /\ i \in 1..n /\ i \in 1..m /\ S[i] = T[i]
  BY <1>2
<1>4. f[i] = (IF i = 1 THEN S[i] ELSE f[i - 1] \o S[i]) /\ g[i] = (IF i = 1 THEN T[i] ELSE g[i - 1] \o T[i])
  BY <1>3 DEF Flattens
<1>5. CASE i = 1
  BY <1>2, <1>3, <1>4, <1>5
<1>6. CASE i # 1
  <2>1. i - 1 \in 1..n /\ i - 1 \in Nat /\ i - 1 \notin Bad
    BY <1>2, <1>3, <1>6
  <2>2. f[i - 1] = g[i - 1]
    BY <2>1
  <2>3. QED
    BY <1>2, <1>3, <1>4, <1>6, <2>2
<1>7. QED
  BY <1>5, <1>6

LEMMA FlattenEmpty == FlattenSeq(<<>>) = <<>>
  BY DEF FlattenSeq

LEMMA FlattenExtends ==
  ASSUME NEW S, NEW T, NEW n \in Nat, n # 0, NEW m \in Nat, m = n + 1, Len(S) = n, Len(T) = m,
         \A i \in 1..n : S[i] = T[i]
  PROVE  FlattenSeq(T) = FlattenSeq(S) \o T[m]
<1>1. PICK g : Flattens(g, T, m) /\ FlattenSeq(T) = g[m]
  BY FlattenIs
<1>2. PICK f : Flattens(f, S, n) /\ FlattenSeq(S) = f[n]
  BY FlattenIs
<1>3. m \in 1..m /\ n \in 1..n /\ n <= m /\ m - 1 = n /\ m # 1
  OBVIOUS
<1>4. g[m] = IF m = 1 THEN T[m] ELSE g[m - 1] \o T[m]
  <2>1. \A i \in 1..m : g[i] = IF i = 1 THEN T[i] ELSE g[i - 1] \o T[i]
    BY <1>1, FlattensAt
  <2>2. QED
    BY <1>3, <2>1
<1>5. Flattens(g, T, m) /\ Flattens(f, S, n)
  BY <1>1, <1>2
<1>6. \A i \in 1..n : f[i] = g[i]
  BY <1>3, <1>5, FlattensSame
<1>7. f[n] = g[n]
  BY <1>3, <1>6
<1>8. QED
  BY <1>1, <1>2, <1>3, <1>4, <1>7

(* One more sequence.                                                        *)
LEMMA FlattenAppends ==
  ASSUME NEW U, NEW S \in Seq(Seq(U)), NEW T \in Seq(Seq(U)), NEW n \in Nat, Len(S) = n, Len(T) = n + 1,
         \A i \in 1..n : S[i] = T[i]
  PROVE  FlattenSeq(T) = FlattenSeq(S) \o T[n + 1]
<1>1. CASE n = 0
  <2>1. S = <<>>
    BY <1>1
  <2>2. Len(T) = 1 /\ n + 1 = 1
    BY <1>1
  <2>3. T[1] \in Seq(U)
    BY <2>2
  <2>4. FlattenSeq(S) = <<>>
    BY <2>1, FlattenEmpty
  <2>5. PICK g : Flattens(g, T, 1) /\ FlattenSeq(T) = g[1]
    BY <2>2, FlattenIs
  <2>6. g[1] = T[1]
    BY <2>5, FlattensAt
  <2>7. QED
    BY <2>4, <2>5, <2>6, <2>2, <2>3
<1>2. CASE n # 0
  <2>1. n + 1 \in Nat
    OBVIOUS
  <2>2. QED
    BY <1>2, <2>1, FlattenExtends
<1>3. QED
  BY <1>1, <1>2

(* Sequences of one kind are joined to such a sequence.                      *)
LEMMA FlattenTyped ==
  ASSUME NEW U, NEW S \in Seq(Seq(U))
  PROVE  FlattenSeq(S) \in Seq(U)
<1> DEFINE n == Len(S)
<1>1. CASE n = 0
  <2>1. S = <<>>
    BY <1>1
  <2>2. <<>> \in Seq(U)
    OBVIOUS
  <2>3. QED
    BY <2>1, <2>2, FlattenEmpty
<1>2. CASE n # 0
  <2>1. PICK f : Flattens(f, S, n) /\ FlattenSeq(S) = f[n]
    BY <1>2, FlattenIs
  <2> DEFINE Bad == {i \in Nat : i \in 1..n /\ f[i] \notin Seq(U)}
  <2>2. SUFFICES ASSUME Bad # {} PROVE FALSE
    BY <1>2, <2>1
  <2>3. PICK i \in Bad : \A k \in Bad : i <= k
    BY <2>2, Least
  <2>4. i \in 1..n /\ S[i] \in Seq(U) /\ f[i] = IF i = 1 THEN S[i] ELSE f[i - 1] \o S[i]
    BY <2>1, <2>3, FlattensAt
  <2>5. CASE i = 1
    BY <2>3, <2>4, <2>5
  <2>6. CASE i # 1
    <3>1. i - 1 \in 1..n /\ i - 1 \in Nat /\ i - 1 \notin Bad
      BY <2>3, <2>4, <2>6
    <3>2. f[i - 1] \in Seq(U)
      BY <3>1
    <3>3. f[i - 1] \o S[i] \in Seq(U)
      BY <2>4, <3>2
    <3>4. QED
      BY <2>3, <2>4, <2>6, <3>3
  <2>7. QED
    BY <2>5, <2>6
<1>3. QED
  BY <1>1, <1>2

(* The first n sequences of F, one after the other.                          *)
Flat(F, n) == FlattenSeq([i \in 1..n |-> F[i]])

(* Flat, by recursion.                                                       *)
LEMMA FlatIs ==
  ASSUME NEW U, NEW F, NEW n \in Nat, \A i \in 1..(n + 1) : F[i] \in Seq(U)
  PROVE  /\ Flat(F, 0) = <<>>
         /\ Flat(F, n) \in Seq(U)
         /\ Flat(F, n + 1) = Flat(F, n) \o F[n + 1]
<1> DEFINE S == [i \in 1..n |-> F[i]]
           T == [i \in 1..(n + 1) |-> F[i]]
<1>1. S \in Seq(Seq(U)) /\ Len(S) = n
  BY SeqDef
<1>2. T \in Seq(Seq(U)) /\ Len(T) = n + 1 /\ T[n + 1] = F[n + 1]
  <2>1. T \in [1..(n + 1) -> Seq(U)] /\ n + 1 \in Nat
    OBVIOUS
  <2>2. QED
    BY <2>1
<1>3. \A i \in 1..n : S[i] = T[i]
  OBVIOUS
<1> HIDE DEF S, T
<1>4. FlattenSeq(T) = FlattenSeq(S) \o T[n + 1]
  BY <1>1, <1>2, <1>3, FlattenAppends
<1>5. FlattenSeq(S) \in Seq(U)
  BY <1>1, FlattenTyped
<1>6. Flat(F, 0) = <<>>
  <2>1. [i \in 1..0 |-> F[i]] = <<>>
    OBVIOUS
  <2>2. QED
    BY <2>1, FlattenEmpty DEF Flat
<1>7. QED
  BY <1>2, <1>4, <1>5, <1>6 DEF Flat, S, T

LEMMA FlatSame ==
  ASSUME NEW F, NEW G, NEW n, \A i \in 1..n : F[i] = G[i]
  PROVE  Flat(F, n) = Flat(G, n)
<1>1. [i \in 1..n |-> F[i]] = [i \in 1..n |-> G[i]]
  OBVIOUS
<1>2. QED
  BY <1>1 DEF Flat

(* Empty sequences make no difference.                                       *)
SeqsIn(F, n, U)         == \A c \in 1..n : F[c] \in Seq(U)
Picks(F, G, num, m)     == \A k \in 1..m : G[k] = F[num[k]]
Rising(num, m)          == \A j, k \in 1..m : j < k => num[j] < num[k]
Elsewhere(F, num, n, m) == \A c \in 1..n : (\A k \in 1..m : num[k] # c) => F[c] = <<>>

LEMMA FlatSkips ==
  ASSUME NEW U, NEW n \in Nat, NEW m \in Nat, NEW F, NEW G, NEW num \in [1..m -> 1..n],
         SeqsIn(F, n, U), Picks(F, G, num, m), Rising(num, m), Elsewhere(F, num, n, m)
  PROVE  Flat(G, m) = Flat(F, n)
<1> DEFINE Upto(j, a) == \A k \in 1..m : k <= j <=> num[k] <= a
           Good(a) == \A j \in 0..m : Upto(j, a) => Flat(G, j) = Flat(F, a)
           Bad == {a \in 0..n : ~Good(a)}
<1> USE DEF SeqsIn, Picks, Rising, Elsewhere
<1>1. ASSUME NEW a \in 0..n PROVE Good(a)
  <2>1. SUFFICES ASSUME Bad # {} PROVE FALSE
    BY <1>1
  <2>2. PICK b \in Bad : \A x \in Bad : b <= x
    <3>1. Bad \in SUBSET Nat
      OBVIOUS
    <3>2. QED
      BY <2>1, <3>1, Least
  <2>3. PICK j \in 0..m : Upto(j, b) /\ Flat(G, j) # Flat(F, b)
    BY <2>2
  <2>4. \A k \in 1..m : num[k] \in 1..n /\ k \in Nat /\ num[k] \in Nat
    OBVIOUS
  <2>5. \A k \in 1..m : G[k] \in Seq(U)
    BY <2>4
  <2>6. b \in 0..n /\ j \in Nat /\ b \in Nat
    BY <2>2, <2>3
  <2>7. CASE b = 0
    <3>1. j = 0
      <4>1. SUFFICES ASSUME j # 0 PROVE FALSE
        OBVIOUS
      <4>2. j \in 1..m /\ j <= j
        BY <2>3, <2>6, <4>1
      <4>3. num[j] <= b
        BY <2>3, <4>2
      <4>4. QED
        BY <2>4, <2>7, <4>2, <4>3
    <3>2. Flat(G, 0) = <<>> /\ Flat(F, 0) = <<>>
      <4>1. [i \in 1..0 |-> G[i]] = <<>> /\ [i \in 1..0 |-> F[i]] = <<>>
        OBVIOUS
      <4>2. QED
        BY <4>1, FlattenEmpty DEF Flat
    <3>3. QED
      BY <2>3, <2>7, <3>1, <3>2
  <2>8. CASE b # 0
    <3>1. PICK p \in Nat : b = p + 1 /\ p \in 0..n
      <4>1. b - 1 \in Nat /\ b = (b - 1) + 1 /\ b - 1 \in 0..n
        BY <2>6, <2>8
      <4>2. QED
        BY <4>1
    <3>2. Good(p)
      BY <2>2, <3>1
    <3>3. Flat(F, b) = Flat(F, p) \o F[b] /\ Flat(F, p) \in Seq(U) /\ F[b] \in Seq(U)
      <4>1. \A i \in 1..(p + 1) : F[i] \in Seq(U)
        BY <2>6, <3>1
      <4>2. b \in 1..n
        BY <2>6, <2>8
      <4>3. QED
        BY <3>1, <4>1, <4>2, FlatIs
    <3>4. CASE \E k \in 1..m : num[k] = b
      <4>1. PICK k \in 1..m : num[k] = b
        BY <3>4
      <4>2. k <= j
        BY <2>3, <2>6, <4>1
      <4>3. k = j
        <5>1. SUFFICES ASSUME k < j PROVE FALSE
          BY <2>4, <2>6, <4>1, <4>2
        <5>2. j \in 1..m /\ j <= j
          BY <2>3, <2>4, <2>6, <4>1, <5>1
        <5>3. num[k] < num[j] /\ num[j] <= b
          BY <2>3, <4>1, <5>1, <5>2
        <5>4. QED
          BY <2>4, <2>6, <4>1, <5>2, <5>3
      <4>4. PICK i \in Nat : j = i + 1 /\ i \in 0..m
        <5>1. j - 1 \in Nat /\ j = (j - 1) + 1 /\ j - 1 \in 0..m
          BY <2>3, <2>4, <4>1, <4>3
        <5>2. QED
          BY <5>1
      <4>5. Upto(i, p)
        <5> TAKE l \in 1..m
        <5>1. l \in Nat /\ num[l] \in Nat
          BY <2>4
        <5>2. CASE l <= i
          <6>1. l < j /\ j \in 1..m
            BY <4>1, <4>3, <4>4, <5>1, <5>2
          <6>2. num[l] < num[j] /\ num[j] = b
            BY <4>1, <4>3, <6>1
          <6>3. QED
            BY <3>1, <5>1, <5>2, <6>2
        <5>3. CASE ~(l <= i)
          <6>1. l = j \/ ~(l <= j)
            BY <2>6, <4>4, <5>1, <5>3
          <6>2. l = j => num[l] = b
            BY <4>1, <4>3
          <6>3. ~(l <= j) => ~(num[l] <= b)
            BY <2>3
          <6>4. ~(num[l] <= p)
            BY <2>6, <3>1, <5>1, <6>1, <6>2, <6>3
          <6>5. QED
            BY <5>3, <6>4
        <5>4. QED
          BY <5>2, <5>3
      <4>6. Flat(G, i) = Flat(F, p)
        BY <3>2, <4>4, <4>5
      <4>7. Flat(G, j) = Flat(G, i) \o G[j]
        <5>1. \A x \in 1..(i + 1) : G[x] \in Seq(U)
          BY <2>3, <2>5, <4>4
        <5>2. QED
          BY <4>4, <5>1, FlatIs
      <4>8. G[j] = F[b]
        BY <4>1, <4>3
      <4>9. QED
        BY <2>3, <3>3, <4>6, <4>7, <4>8
    <3>5. CASE ~\E k \in 1..m : num[k] = b
      <4>1. F[b] = <<>>
        <5>1. b \in 1..n
          BY <2>6, <2>8
        <5>2. QED
          BY <3>5, <5>1
      <4>2. Upto(j, p)
        <5> TAKE l \in 1..m
        <5>1. num[l] <= b <=> num[l] <= p
          BY <2>4, <2>6, <3>1, <3>5
        <5>2. QED
          BY <2>3, <5>1
      <4>3. Flat(G, j) = Flat(F, p)
        BY <2>3, <3>2, <4>2
      <4>4. QED
        BY <2>3, <3>3, <4>1, <4>3
    <3>6. QED
      BY <3>4, <3>5
  <2>9. QED
    BY <2>7, <2>8
<1>2. Upto(m, n)
  OBVIOUS
<1>3. QED
  BY <1>1, <1>2

-------------------------------------------------------------------------------
(* What a chapter prints, before anything is stored: the lines of its        *)
(* blocks, told from the items of the file that they come from.              *)

(* What a block prints, told from the file.                                  *)
Sayings == {<<>>} \union {Reads(Item(i), i) : i \in Nat} \union {Reads(Inner(i), i) : i \in Nat}
             \union {<<<<text, 1, Done(text, 1)>>>> : text \in TextSet}

Lines == [as : {"heading", "text", "caption", "table", "note", "figure"}, level : Nat, says : Sayings,
          shows : Pictures, note : NoteIds]

PrintOf(block, to) ==
  LET i    == block.text[2]
      note == IF to = "docx" /\ format = "docx" THEN block.note ELSE 0
  IN  IF block.type = "note" THEN (IF to = "docx" THEN <<>> ELSE Printed("note", 0, Reads(block.text, i), 0, block.note))
      ELSE IF block.type = "figure" THEN Printed("figure", 0, <<>>, file[i].image, 0)
      ELSE IF block.type = "heading"
      THEN Printed("heading", IF to = "docx" THEN block.level ELSE Max({2, block.level}),
                   <<<<block.text, 1, Done(block.text, 1)>>>>, 0, note)
      ELSE Printed(block.type, 0, Reads(block.text, i), 0, note)

Prints(c, to) == [b \in DOMAIN c.blocks |-> PrintOf(c.blocks[b], to)]
BodyOf(c, to) == Flat(Prints(c, to), Len(c.blocks))

BodyItems(q, to)   == [i \in DOMAIN file |-> IF ChapterOf(i) = q /\ ~Title(i) THEN Expected(i, to) ELSE <<>>]
BodyUpTo(q, n, to) == Flat(BodyItems(q, to), n)

(* The types of what is printed.                                             *)
LEMMA PrintedTyped ==
  ASSUME NEW as \in {"heading", "text", "caption", "table", "note", "figure"}, NEW level \in Nat, NEW says \in Sayings,
         NEW shows \in Pictures, NEW note \in NoteIds
  PROVE  Printed(as, level, says, shows, note) \in Seq(Lines)
<1>1. [as |-> as, level |-> level, says |-> says, shows |-> shows, note |-> note] \in Lines
  BY DEF Lines
<1>2. QED
  BY <1>1 DEF Printed

LEMMA LevelsAre == \A level \in Levels : level \in Nat /\ Max({2, level}) \in Nat
<1> TAKE level \in Levels
<1>1. {2, level} \in SUBSET Nat /\ {2, level} # {} /\ \A x \in {2, level} : x <= 6
  BY DEF Levels
<1>2. Max({2, level}) \in {2, level}
  BY <1>1, MaxIs
<1>3. QED
  BY <1>1, <1>2

LEMMA SayingsAre ==
  /\ <<>> \in Sayings
  /\ \A i \in Nat : Reads(Item(i), i) \in Sayings /\ Reads(Inner(i), i) \in Sayings
  /\ \A text \in TextSet : <<<<text, 1, Done(text, 1)>>>> \in Sayings
  BY DEF Sayings

LEMMA PrintOfTyped ==
  ASSUME FileOK, NEW block \in BlockSet, NEW c, NEW i \in 1..Len(file), FromItem(c, block, i), NEW to
  PROVE  PrintOf(block, to) \in Seq(Lines)
<1>1. block.text[2] = i /\ i \in Nat /\ file[i].image \in Pictures
  BY FromItemIs, ItemIs
<1>2. Reads(block.text, i) \in Sayings
  BY <1>1, SayingsAre DEF FromItem
<1>3. block.text \in TextSet /\ block.level \in Levels /\ block.note \in NoteIds
      /\ block.type \in {"heading", "text", "caption", "table", "note", "figure"}
  BY DEF BlockSet
<1>4. 0 \in NoteIds /\ 0 \in Pictures /\ 0 \in Nat
  BY DEF NoteIds, Pictures
<1>5. /\ Printed("note", 0, Reads(block.text, i), 0, block.note) \in Seq(Lines)
      /\ Printed("figure", 0, <<>>, file[i].image, 0) \in Seq(Lines)
  BY <1>1, <1>2, <1>3, <1>4, PrintedTyped, SayingsAre
<1> DEFINE note == IF to = "docx" /\ format = "docx" THEN block.note ELSE 0
           level == IF to = "docx" THEN block.level ELSE Max({2, block.level})
<1>6. note \in NoteIds /\ level \in Nat
  BY <1>3, <1>4, LevelsAre
<1> HIDE DEF note, level
<1>7. /\ Printed("heading", level, <<<<block.text, 1, Done(block.text, 1)>>>>, 0, note) \in Seq(Lines)
      /\ Printed(block.type, 0, Reads(block.text, i), 0, note) \in Seq(Lines)
  BY <1>2, <1>3, <1>4, <1>6, PrintedTyped, SayingsAre
<1>8. <<>> \in Seq(Lines)
  OBVIOUS
<1>9. QED
  BY <1>1, <1>5, <1>7, <1>8 DEF PrintOf, note, level

(* The parts of what is expected of an item.                                 *)
NoteOn(i, to) == IF to = "docx" THEN NoteAt(i) ELSE 0

TextExpected(i, to) ==
  IF Heading(i) THEN Printed("heading", IF Title(i) THEN 1 ELSE IF to = "docx" THEN file[i].level ELSE Max({2, file[i].level}),
                             <<<<Item(i), 1, Done(Item(i), 1)>>>>, 0, NoteOn(i, to))
  ELSE IF file[i].kind = "aside"
  THEN (IF to = "docx" THEN <<>> ELSE Printed("note", 0, Reads(Item(i), i), 0, file[i].note))
  ELSE IF file[i].kind \in {"image", "break"} THEN <<>>
  ELSE Printed(IF file[i].kind = "quote" THEN "text" ELSE file[i].kind, 0, Reads(Item(i), i), 0, NoteOn(i, to))

QuoteExpected(i, to) ==
  IF file[i].kind = "quote" THEN Printed("text", 0, Reads(Inner(i), i), 0, NoteOn(i, to)) ELSE <<>>

FigureExpected(i) ==
  IF file[i].image = 0 \/ Heading(i) THEN <<>> ELSE Printed("figure", 0, <<>>, file[i].image, 0)

(* ExpectedFile has of an item what it has of its three parts.               *)
LEMMA ExpectedIs == \A i, to : Expected(i, to) = TextExpected(i, to) \o QuoteExpected(i, to) \o FigureExpected(i)
<1> TAKE i, to
<1> DEFINE item  == file[i]
           note  == IF to = "docx" THEN NoteAt(i) ELSE 0
           type  == IF item.kind = "quote" THEN "text" ELSE item.kind
           level == IF Title(i) THEN 1 ELSE IF to = "docx" THEN item.level ELSE Max({2, item.level})
           first == CASE Heading(i)                       -> Printed("heading", level, <<<<Item(i), 1, Done(Item(i), 1)>>>>, 0, note)
                      [] item.kind = "aside"              -> IF to = "docx" THEN <<>> ELSE Printed("note", 0, Reads(Item(i), i), 0, item.note)
                      [] item.kind \in {"image", "break"} -> <<>>
                      [] OTHER                            -> Printed(type, 0, Reads(Item(i), i), 0, note)
           second == IF item.kind = "quote" THEN Printed(type, 0, Reads(Inner(i), i), 0, note) ELSE <<>>
<1>1. Expected(i, to) = first \o second \o FigureExpected(i)
  BY DEF Expected, FigureExpected
<1>2. first = TextExpected(i, to)
  <2>1. CASE Heading(i)
    BY <2>1 DEF TextExpected, NoteOn, Heading
  <2>2. CASE item.kind = "aside"
    BY <2>2 DEF TextExpected, Heading
  <2>3. CASE item.kind \in {"image", "break"}
    BY <2>3 DEF TextExpected, Heading
  <2>4. CASE ~Heading(i) /\ item.kind # "aside" /\ item.kind \notin {"image", "break"}
    BY <2>4 DEF TextExpected, NoteOn
  <2>5. QED
    BY <2>1, <2>2, <2>3, <2>4
<1>3. second = QuoteExpected(i, to)
  BY DEF QuoteExpected, NoteOn
<1> HIDE DEF first, second
<1>4. QED
  BY <1>1, <1>2, <1>3

LEMMA ExpectedTyped ==
  ASSUME FileOK, NEW i \in 1..Len(file), NEW to
  PROVE  /\ TextExpected(i, to) \in Seq(Lines) /\ QuoteExpected(i, to) \in Seq(Lines) /\ FigureExpected(i) \in Seq(Lines)
         /\ Expected(i, to) \in Seq(Lines)
<1>1. /\ i \in Nat /\ file[i].level \in Levels /\ file[i].note \in NoteIds /\ file[i].image \in Pictures
      /\ file[i].kind \in {"heading", "text", "quote", "caption", "table", "image", "aside", "break"}
  BY ItemIs
<1>2. /\ Item(i) \in TextSet /\ Reads(Item(i), i) \in Sayings /\ Reads(Inner(i), i) \in Sayings /\ <<>> \in Sayings
      /\ <<<<Item(i), 1, Done(Item(i), 1)>>>> \in Sayings
  BY <1>1, TextsAre, SayingsAre
<1>3. 0 \in NoteIds /\ 0 \in Pictures /\ 0 \in Nat /\ 1 \in Nat
  BY DEF NoteIds, Pictures
<1>4. NoteOn(i, to) \in NoteIds
  BY <1>1, <1>3 DEF NoteOn, NoteAt
<1>5. <<>> \in Seq(Lines)
  OBVIOUS
<1>6. TextExpected(i, to) \in Seq(Lines)
  <2> DEFINE level == IF Title(i) THEN 1 ELSE IF to = "docx" THEN file[i].level ELSE Max({2, file[i].level})
             type == IF file[i].kind = "quote" THEN "text" ELSE file[i].kind
  <2>1. level \in Nat
    BY <1>1, <1>3, LevelsAre
  <2> HIDE DEF level
  <2>2. Printed("heading", level, <<<<Item(i), 1, Done(Item(i), 1)>>>>, 0, NoteOn(i, to)) \in Seq(Lines)
    BY <1>2, <1>3, <1>4, <2>1, PrintedTyped
  <2>3. Printed("note", 0, Reads(Item(i), i), 0, file[i].note) \in Seq(Lines)
    BY <1>1, <1>2, <1>3, PrintedTyped
  <2>4. ASSUME ~Heading(i), file[i].kind # "aside", file[i].kind \notin {"image", "break"}
        PROVE  Printed(type, 0, Reads(Item(i), i), 0, NoteOn(i, to)) \in Seq(Lines)
    <3>1. type \in {"heading", "text", "caption", "table", "note", "figure"}
      BY <1>1, <2>4 DEF Heading
    <3> HIDE DEF type
    <3>2. QED
      BY <1>2, <1>3, <1>4, <3>1, PrintedTyped
  <2>5. QED
    BY <1>5, <2>2, <2>3, <2>4 DEF TextExpected, level
<1>7. QuoteExpected(i, to) \in Seq(Lines)
  BY <1>2, <1>3, <1>4, <1>5, PrintedTyped DEF QuoteExpected
<1>8. FigureExpected(i) \in Seq(Lines)
  BY <1>1, <1>2, <1>3, <1>5, PrintedTyped DEF FigureExpected
<1>9. Expected(i, to) \in Seq(Lines)
  <2>1. \A a, b, c \in Seq(Lines) : a \o b \o c \in Seq(Lines)
    OBVIOUS
  <2>2. QED
    BY <1>6, <1>7, <1>8, <2>1, ExpectedIs
<1>10. QED
  BY <1>6, <1>7, <1>8, <1>9

BlocksFromFile(c) == \A b \in DOMAIN c.blocks : \E i \in 1..Len(file) : FromItem(c, c.blocks[b], i)

(* Each of a chapter's blocks comes from an item, and so it prints.          *)
LEMMA BodyTyped ==
  ASSUME FileOK, NEW c \in ChapterSet, BlocksFromFile(c), NEW to
  PROVE  /\ \A b \in 1..Len(c.blocks) : Prints(c, to)[b] \in Seq(Lines)
         /\ BodyOf(c, to) \in Seq(Lines)
         /\ c.blocks = <<>> => BodyOf(c, to) = <<>>
<1>1. c.blocks \in Seq(BlockSet) /\ Len(c.blocks) \in Nat /\ DOMAIN c.blocks = 1..Len(c.blocks)
  BY DEF ChapterSet
<1>2. \A b \in 1..Len(c.blocks) : Prints(c, to)[b] = PrintOf(c.blocks[b], to) /\ PrintOf(c.blocks[b], to) \in Seq(Lines)
  <2> TAKE b \in 1..Len(c.blocks)
  <2>1. c.blocks[b] \in BlockSet
    BY <1>1
  <2>2. PrintOf(c.blocks[b], to) \in Seq(Lines)
    BY <1>1, <2>1, PrintOfTyped DEF BlocksFromFile
  <2>3. QED
    BY <1>1, <2>2 DEF Prints
<1> DEFINE F == [b \in 1..Len(c.blocks) |-> Prints(c, to)[b]]
<1>3. F \in Seq(Seq(Lines))
  BY <1>1, <1>2
<1>4. FlattenSeq(F) \in Seq(Lines)
  BY <1>3, FlattenTyped
<1>5. BodyOf(c, to) \in Seq(Lines)
  BY <1>4 DEF BodyOf, Flat
<1>6. ASSUME c.blocks = <<>> PROVE BodyOf(c, to) = <<>>
  <2>1. Len(c.blocks) = 0
    BY <1>6
  <2>2. F = <<>>
    BY <2>1
  <2>3. QED
    BY <2>2, FlattenEmpty DEF BodyOf, Flat
<1>7. QED
  BY <1>2, <1>5, <1>6

(* A block more, a line more.                                                *)
LEMMA PrintsGrow ==
  ASSUME FileOK, NEW c \in ChapterSet, BlocksFromFile(c), NEW block \in BlockSet, NEW target \in Nat,
         NEW i \in 1..Len(file), FromItem(c, block, i), NEW to
  PROVE  /\ BodyOf(Grow(c, block, target), to) = BodyOf(c, to) \o PrintOf(block, to)
         /\ BlocksFromFile(Grow(c, block, target))
<1> DEFINE d == Grow(c, block, target)
           n == Len(c.blocks)
<1>1. /\ n \in Nat /\ DOMAIN c.blocks = 1..n /\ DOMAIN d.blocks = 1..(n + 1) /\ Len(d.blocks) = n + 1
      /\ d.blocks[n + 1] = block
      /\ \A b \in 1..n : d.blocks[b] = c.blocks[b]
      /\ \A b \in DOMAIN d.blocks : b \in DOMAIN c.blocks \/ b = n + 1
  BY BlocksGrow
<1>2. d.sections = c.sections
  BY GrowIs
<1> HIDE DEF d
<1>3. \A e, j : FromItem(d, e, j) <=> FromItem(c, e, j)
  BY <1>2 DEF FromItem
<1>4. \A b \in DOMAIN d.blocks : \E j \in 1..Len(file) : FromItem(d, d.blocks[b], j)
  BY <1>1, <1>3 DEF BlocksFromFile
<1>5. \A b \in 1..n : Prints(c, to)[b] = Prints(d, to)[b] /\ Prints(c, to)[b] \in Seq(Lines)
  <2>1. \A b \in 1..n : Prints(c, to)[b] \in Seq(Lines)
    BY BodyTyped
  <2>2. \A b \in 1..n : Prints(c, to)[b] = Prints(d, to)[b]
    BY <1>1 DEF Prints
  <2>3. QED
    BY <2>1, <2>2
<1>6. Prints(d, to)[n + 1] = PrintOf(block, to) /\ PrintOf(block, to) \in Seq(Lines)
  <2>1. n + 1 \in DOMAIN d.blocks
    BY <1>1
  <2>2. QED
    BY <1>1, <2>1, PrintOfTyped DEF Prints
<1>7. Flat(Prints(d, to), n + 1) = Flat(Prints(d, to), n) \o Prints(d, to)[n + 1]
  <2>1. \A b \in 1..(n + 1) : Prints(d, to)[b] \in Seq(Lines)
    BY <1>1, <1>5, <1>6
  <2>2. QED
    BY <1>1, <2>1, FlatIs
<1>8. Flat(Prints(c, to), n) = Flat(Prints(d, to), n)
  BY <1>5, FlatSame
<1>9. QED
  BY <1>1, <1>4, <1>6, <1>7, <1>8 DEF BodyOf, BlocksFromFile, d

LEMMA ReadsFromFile ==
  ASSUME FileOK, NEW c, NEW q, NEW n, n \in 0..Len(file), BlocksRead(c, q, n)
  PROVE  BlocksFromFile(c)
<1>1. At(q, n) \subseteq 1..Len(file)
  <2>1. Len(file) \in Nat
    BY DEF FileOK
  <2>2. QED
    BY <2>1 DEF At
<1>2. QED
  BY <1>1 DEF BlocksRead, BlocksFromFile

(* A block prints what is expected of its item.                              *)
LEMMA BlockPrints ==
  ASSUME FileOK, NEW c \in ChapterSet, NEW i \in 1..Len(file), NEW to \in Formats
  PROVE  /\ ~Heading(i) /\ file[i].kind \notin {"image", "break"} => PrintOf(TextBlock(c, i), to) = TextExpected(i, to)
         /\ file[i].kind = "quote" => PrintOf(Block(c, "text", Inner(i), file[i]), to) = QuoteExpected(i, to)
         /\ \A assets \in Seq(Pictures) : ~Heading(i) /\ file[i].image # 0 =>
              PrintOf(FigureBlock(c, Register(assets, file[i].image), i), to) = FigureExpected(i)
<1>1. /\ file[i].kind \in {"heading", "text", "quote", "caption", "table", "image", "aside", "break"}
      /\ format = "docx" => file[i].kind \in {"heading", "text", "caption", "table", "image"}
  BY ItemIs
<1>2. ASSUME ~Heading(i), file[i].kind \notin {"image", "break"} PROVE PrintOf(TextBlock(c, i), to) = TextExpected(i, to)
  <2> DEFINE b == TextBlock(c, i)
  <2>1. /\ b.type = TypeOfItem(i) /\ b.text = Item(i) /\ b.note = IF file[i].kind = "table" THEN 0 ELSE file[i].note
    BY <1>2, TextBlockIs
  <2>2. b.text[2] = i
    BY <2>1, TextIs
  <2>3. file[i].kind \in {"text", "quote", "caption", "table", "aside"} /\ ~Title(i)
    BY <1>1, <1>2 DEF Heading, Title
  <2> HIDE DEF b
  <2>4. CASE file[i].kind = "aside"
    <3>1. b.type = "note" /\ b.note = file[i].note
      BY <2>1, <2>4 DEF TypeOfItem
    <3>2. PrintOf(b, to) = IF to = "docx" THEN <<>> ELSE Printed("note", 0, Reads(b.text, i), 0, b.note)
      BY <2>2, <3>1 DEF PrintOf
    <3>3. TextExpected(i, to) = IF to = "docx" THEN <<>> ELSE Printed("note", 0, Reads(Item(i), i), 0, file[i].note)
      BY <1>2, <2>4 DEF TextExpected
    <3>4. QED
      BY <2>1, <3>1, <3>2, <3>3 DEF b
  <2>5. CASE file[i].kind # "aside"
    <3>1. b.type \notin {"note", "figure", "heading"}
      BY <2>1, <2>3, <2>5 DEF TypeOfItem
    <3>2. NoteOn(i, to) = IF to = "docx" /\ format = "docx" THEN b.note ELSE 0
      BY <2>1, <2>3 DEF NoteOn, NoteAt
    <3>3. b.type = IF file[i].kind = "quote" THEN "text" ELSE file[i].kind
      BY <2>1, <2>5 DEF TypeOfItem
    <3>4. TextExpected(i, to) = Printed(b.type, 0, Reads(Item(i), i), 0, NoteOn(i, to))
      BY <1>2, <2>5, <3>3 DEF TextExpected
    <3>5. PrintOf(b, to) = Printed(b.type, 0, Reads(b.text, i), 0, NoteOn(i, to))
      BY <2>2, <3>1, <3>2 DEF PrintOf
    <3>6. QED
      BY <2>1, <3>4, <3>5 DEF b
  <2>6. QED
    BY <2>4, <2>5 DEF b
<1>3. ASSUME file[i].kind = "quote" PROVE PrintOf(Block(c, "text", Inner(i), file[i]), to) = QuoteExpected(i, to)
  <2> DEFINE b == Block(c, "text", Inner(i), file[i])
  <2>1. b.type = "text" /\ b.text = Inner(i) /\ b.note = file[i].note
    BY InnerBlockIs
  <2>2. b.text[2] = i
    BY <2>1, TextIs
  <2>3. ~Title(i) /\ format # "docx"
    BY <1>1, <1>3 DEF Heading, Title
  <2> HIDE DEF b
  <2>4. NoteOn(i, to) = IF to = "docx" /\ format = "docx" THEN b.note ELSE 0
    BY <2>3 DEF NoteOn, NoteAt
  <2>5. PrintOf(b, to) = Printed("text", 0, Reads(Inner(i), i), 0, NoteOn(i, to))
    BY <2>1, <2>2, <2>4 DEF PrintOf
  <2>6. QED
    BY <1>3, <2>5 DEF QuoteExpected, b
<1>4. ASSUME NEW assets \in Seq(Pictures), ~Heading(i), file[i].image # 0
      PROVE  PrintOf(FigureBlock(c, Register(assets, file[i].image), i), to) = FigureExpected(i)
  <2> DEFINE b == FigureBlock(c, Register(assets, file[i].image), i)
  <2>1. b.type = "figure" /\ b.text = Item(i)
    BY FigureBlockIs
  <2>2. b.text[2] = i
    BY <2>1, TextIs
  <2> HIDE DEF b
  <2>3. PrintOf(b, to) = Printed("figure", 0, <<>>, file[i].image, 0)
    BY <2>1, <2>2 DEF PrintOf
  <2>4. QED
    BY <1>4, <2>3 DEF FigureExpected, b
<1>5. QED
  BY <1>2, <1>3, <1>4

(* So does an item, and so does a heading that opens a section.              *)
LEMMA ItemPrints ==
  ASSUME FileOK, NEW n \in Nat, n + 1 \in 1..Len(file), ~Starts(n + 1), ~Heading(n + 1), NEW d \in DocumentSet,
         CurrentOK(d.current, n), NEW to \in Formats
  PROVE  BodyOf(ItemRead(d, n + 1).current, to) = BodyOf(d.current, to) \o Expected(n + 1, to)
<1> DEFINE i == n + 1
           q == ChapterOf(n)
           c == d.current
           e == TextRead(c, i)
           f == QuoteRead(e, i)
           g == ItemRead(d, i).current
           A == TextExpected(i, to)
           B == QuoteExpected(i, to)
           C == FigureExpected(i)
<1>0. i \in Nat /\ i \in 1..Len(file) /\ n \in 0..Len(file) /\ i \in 0..Len(file)
  <2>1. Len(file) \in Nat
    BY DEF FileOK
  <2>2. QED
    BY <2>1
<1>1. d.assets \in Seq(Pictures) /\ c \in ChapterSet /\ file[i].image \in Pictures
  BY ItemIs DEF DocumentSet
<1>2. Partly(c, e, q, i, TargetAfter(i)) /\ Partly(c, f, q, i, TargetAfter(i))
  BY PartlyText, PartlyQuote
<1>3. e \in ChapterSet /\ f \in ChapterSet /\ BlocksFromFile(c) /\ BlocksFromFile(e) /\ BlocksFromFile(f)
  <2>1. e \in ChapterSet /\ BlocksRead(e, q, i)
    BY <1>2 DEF Partly
  <2>2. f \in ChapterSet /\ BlocksRead(f, q, i)
    BY <1>2 DEF Partly
  <2>3. BlocksRead(c, q, n)
    BY DEF CurrentOK
  <2> HIDE DEF e, f
  <2>4. QED
    BY <1>0, <2>1, <2>2, <2>3, ReadsFromFile
<1>4. A \in Seq(Lines) /\ B \in Seq(Lines) /\ C \in Seq(Lines) /\ Expected(i, to) = A \o B \o C
  BY ExpectedTyped, ExpectedIs
<1>5. c.target \in Nat /\ Len(c.blocks) + 1 \in Nat
  BY <1>1 DEF ChapterSet
<1>6. BodyOf(c, to) \in Seq(Lines)
  BY <1>1, <1>3, BodyTyped
<1> HIDE DEF A, B, C
<1>7. BodyOf(e, to) = BodyOf(c, to) \o A
  <2>1. CASE file[i].kind \in {"image", "break"}
    <3>1. e = c
      BY <2>1 DEF TextRead
    <3>2. A = <<>>
      BY <2>1 DEF A, TextExpected
    <3>3. QED
      BY <1>6, <3>1, <3>2
  <2>2. CASE file[i].kind \notin {"image", "break"}
    <3> DEFINE b == TextBlock(c, i)
               t == IF file[i].kind = "table" THEN Len(c.blocks) + 1 ELSE c.target
    <3>1. b \in BlockSet /\ t \in Nat /\ e = Grow(c, b, t) /\ PrintOf(b, to) = A
      BY <1>0, <1>1, <1>5, <2>2, TextBlockIs, BlockPrints DEF TextRead, A
    <3>2. FromItem(c, b, i)
      <4>1. /\ b.type = TypeOfItem(i) /\ b.text = Item(i)
            /\ b.level = file[i].level /\ b.parts = file[i].parts
            /\ b.note = IF file[i].kind = "table" THEN 0 ELSE file[i].note
        BY <1>0, <1>1, <2>2, TextBlockIs
      <4>2. file[i].kind \in {"text", "quote", "caption", "table", "aside"} /\ ~Title(i)
        BY <2>2, ItemIs DEF Heading, Title
      <4>3. b.type \notin {"figure", "heading"} /\ (b.type = "table" <=> file[i].kind = "table")
        BY <4>1, <4>2 DEF TypeOfItem
      <4> HIDE DEF b
      <4>4. QED
        BY <2>2, <4>1, <4>2, <4>3 DEF FromItem
    <3> HIDE DEF b, t, e, c
    <3>3. BodyOf(Grow(c, b, t), to) = BodyOf(c, to) \o PrintOf(b, to)
      BY <1>0, <1>1, <1>3, <3>1, <3>2, PrintsGrow
    <3>4. QED
      BY <3>1, <3>3
  <2>3. QED
    BY <2>1, <2>2
<1>8. BodyOf(f, to) = BodyOf(e, to) \o B
  <2>1. BodyOf(e, to) \in Seq(Lines)
    <3> HIDE DEF e
    <3>1. QED
      BY <1>3, BodyTyped
  <2>2. CASE file[i].kind # "quote"
    <3>1. f = e
      BY <2>2 DEF QuoteRead
    <3>2. B = <<>>
      BY <2>2 DEF B, QuoteExpected
    <3>3. QED
      BY <2>1, <3>1, <3>2
  <2>3. CASE file[i].kind = "quote"
    <3> DEFINE b == Block(e, "text", Inner(i), file[i])
    <3> HIDE DEF e
    <3>1. b \in BlockSet /\ e.target \in Nat /\ f = Grow(e, b, e.target) /\ PrintOf(b, to) = B
      <4>1. b \in BlockSet
        BY <1>0, <1>3, InnerBlockIs
      <4>2. e.target \in Nat
        BY <1>3 DEF ChapterSet
      <4>3. f = Grow(e, b, e.target)
        BY <2>3 DEF QuoteRead
      <4>4. PrintOf(b, to) = B
        BY <1>0, <1>3, <2>3, BlockPrints DEF B
      <4>5. QED
        BY <4>1, <4>2, <4>3, <4>4
    <3>2. FromItem(e, b, i)
      <4>1. /\ b.type = "text" /\ b.text = Inner(i)
            /\ b.level = file[i].level /\ b.parts = file[i].parts /\ b.note = file[i].note
        BY <1>0, <1>3, InnerBlockIs
      <4>2. ~Title(i) /\ TypeOfItem(i) = "text"
        BY <2>3 DEF Heading, Title, TypeOfItem
      <4> HIDE DEF b
      <4>3. QED
        BY <2>3, <4>1, <4>2 DEF FromItem
    <3> HIDE DEF b
    <3>3. BodyOf(Grow(e, b, e.target), to) = BodyOf(e, to) \o PrintOf(b, to)
      BY <1>0, <1>3, <3>1, <3>2, PrintsGrow
    <3>4. QED
      BY <3>1, <3>3
  <2>4. QED
    BY <2>2, <2>3
<1>9. BodyOf(g, to) = BodyOf(f, to) \o C
  <2> HIDE DEF f
  <2>1. BodyOf(f, to) \in Seq(Lines)
    BY <1>3, BodyTyped
  <2>2. g = FigureRead(f, AssetsRead(d, i), i)
    BY <1>0, ItemReadIs DEF Heading, f
  <2>3. CASE file[i].image = 0
    <3>1. g = f
      BY <2>2, <2>3 DEF FigureRead
    <3>2. C = <<>>
      BY <2>3 DEF C, FigureExpected
    <3>3. QED
      BY <2>1, <3>1, <3>2
  <2>4. CASE file[i].image # 0
    <3> DEFINE now == Register(d.assets, file[i].image)
               b == FigureBlock(f, now, i)
    <3>1. b \in BlockSet /\ Len(f.blocks) + 1 \in Nat /\ PrintOf(b, to) = C
      <4>1. PrintOf(b, to) = C
        BY <1>0, <1>1, <1>3, <2>4, BlockPrints DEF C
      <4>2. b \in BlockSet
        BY <1>0, <1>1, <1>3, FigureBlockIs
      <4>3. QED
        BY <1>3, <4>1, <4>2 DEF ChapterSet
    <3>2. g = Grow(f, b, Len(f.blocks) + 1)
      BY <2>2, <2>4 DEF FigureRead, AssetsRead
    <3>3. FromItem(f, b, i)
      <4>1. /\ b.type = "figure" /\ b.text = Item(i)
            /\ b.level = file[i].level /\ b.parts = file[i].parts /\ b.note = 0
        BY <1>0, <1>1, <1>3, FigureBlockIs
      <4>2. ~Title(i)
        BY DEF Title
      <4> HIDE DEF b
      <4>3. QED
        BY <2>4, <4>1, <4>2 DEF FromItem
    <3> HIDE DEF b, g
    <3>4. BodyOf(Grow(f, b, Len(f.blocks) + 1), to) = BodyOf(f, to) \o PrintOf(b, to)
      BY <1>0, <1>3, <3>1, <3>3, PrintsGrow
    <3>5. QED
      BY <3>1, <3>2, <3>4
  <2>5. QED
    BY <2>3, <2>4
<1> HIDE DEF c, e, f, g
<1>10. \A s \in Seq(Lines) : ((s \o A) \o B) \o C = s \o (A \o B \o C)
  BY <1>4
<1>11. BodyOf(g, to) = ((BodyOf(c, to) \o A) \o B) \o C
  BY <1>7, <1>8, <1>9
<1>12. QED
  BY <1>4, <1>6, <1>10, <1>11 DEF c, g

LEMMA OpenPrints ==
  ASSUME FileOK, NEW n \in Nat, n + 1 \in 1..Len(file), ~Starts(n + 1), Section(n + 1), NEW c, CurrentOK(c, n),
         NEW to \in Formats
  PROVE  BodyOf(OpenSection(c, n + 1, file[n + 1], TopLevel), to) = BodyOf(c, to) \o Expected(n + 1, to)
<1> DEFINE i == n + 1
           o == Opened(c, i)
           h == HeadingBlock(c, i)
<1>0. i \in Nat /\ i \in 1..Len(file) /\ i \in 0..Len(file)
  <2>1. Len(file) \in Nat
    BY DEF FileOK
  <2>2. QED
    BY <2>1
<1>1. c \in ChapterSet /\ \A m \in Levels : c.stack[m] \in 0..Len(c.sections)
  BY DEF CurrentOK, OnTrack
<1>2. /\ o \in ChapterSet /\ BlocksRead(o, ChapterOf(n), i)
  BY OpenedFollows
<1>3. /\ h \in BlockSet /\ h.type = "heading" /\ h.text = Item(i) /\ h.section = Len(c.sections) + 1
      /\ h.level = file[i].level /\ h.parts = file[i].parts /\ h.note = file[i].note
  BY <1>0, <1>1, OpenedIs
<1>4. OpenSection(c, i, file[i], TopLevel) = Grow(o, h, c.target) /\ o.blocks = c.blocks
  BY <1>0, <1>1, OpenedIs
<1>5. c.target \in Nat /\ Len(c.sections) \in Nat
  BY <1>1 DEF ChapterSet
<1>6. DOMAIN o.sections = 1..(Len(c.sections) + 1)
  BY <1>0, <1>1, OpenedIs
<1>7. o.sections[Len(c.sections) + 1].title = Item(i)
  <2>1. o.sections[Len(c.sections) + 1] = [level |-> file[i].level, title |-> Item(i), parent |-> Parent(c, file[i].level)]
    BY <1>0, <1>1, OpenedIs
  <2> HIDE DEF o
  <2>2. QED
    BY <2>1
<1> HIDE DEF o, h
<1>8. ~Title(i) /\ file[i].kind = "heading" /\ Heading(i)
  BY DEF Section, Heading
<1>9. FromItem(o, h, i)
  <2>1. TypeOfItem(i) = "heading" /\ h.section \in DOMAIN o.sections
    BY <1>3, <1>5, <1>6, <1>8 DEF TypeOfItem
  <2>2. QED
    BY <1>3, <1>7, <1>8, <2>1 DEF FromItem
<1>10. BlocksFromFile(o)
  BY <1>0, <1>2, ReadsFromFile
<1>11. BodyOf(Grow(o, h, c.target), to) = BodyOf(o, to) \o PrintOf(h, to)
  BY <1>0, <1>2, <1>3, <1>5, <1>9, <1>10, PrintsGrow
<1>12. BodyOf(o, to) = BodyOf(c, to)
  BY <1>4 DEF BodyOf, Prints
<1>13. Expected(i, to) = TextExpected(i, to)
  <2>1. QuoteExpected(i, to) = <<>> /\ FigureExpected(i) = <<>>
    BY <1>8 DEF QuoteExpected, FigureExpected
  <2>2. TextExpected(i, to) \in Seq(Lines)
    BY <1>0, ExpectedTyped
  <2>3. \A s \in Seq(Lines) : s \o <<>> \o <<>> = s
    OBVIOUS
  <2>4. QED
    BY <2>1, <2>2, <2>3, ExpectedIs
<1>14. PrintOf(h, to) = TextExpected(i, to)
  <2>1. h.text[2] = i
    BY <1>3, TextIs
  <2>2. NoteOn(i, to) = IF to = "docx" /\ format = "docx" THEN h.note ELSE 0
    BY <1>3, <1>8 DEF NoteOn, NoteAt
  <2> DEFINE level == IF to = "docx" THEN file[i].level ELSE Max({2, file[i].level})
  <2>3. TextExpected(i, to) = Printed("heading", level, <<<<Item(i), 1, Done(Item(i), 1)>>>>, 0, NoteOn(i, to))
    BY <1>8 DEF TextExpected
  <2>4. PrintOf(h, to) = Printed("heading", level, <<<<h.text, 1, Done(h.text, 1)>>>>, 0, NoteOn(i, to))
    BY <1>3, <2>1, <2>2 DEF PrintOf
  <2>5. QED
    BY <1>3, <2>3, <2>4
<1>15. QED
  BY <1>4, <1>11, <1>12, <1>13, <1>14

-------------------------------------------------------------------------------
(* The document that is read, item by item: its chapters are those of the    *)
(* file, but for those that have nothing.                                    *)

PrintsRead(c, q, n) == \A to \in Formats : BodyOf(c, to) = BodyUpTo(q, n, to)

(* The number in the file of a chapter with a title or a block.              *)
Number(c) == ChapterOf(IF c.title # None THEN c.title[2] ELSE c.blocks[1].text[2])

ChapterRead(c, n) ==
  /\ c \in ChapterSet /\ Follows(c) /\ (c.title # None \/ c.blocks # <<>>) /\ Number(c) \in Nat
  /\ TitleReads(c, Number(c), n) /\ SectionsRead(c, Number(c), n) /\ BlocksRead(c, Number(c), n)
  /\ TextsRead(c, Number(c), n) /\ PrintsRead(c, Number(c), n)

Nothing(q, n) == /\ \A i \in At(q, n) : ~Title(i) /\ ~Textual(i)
                 /\ \A to \in Formats : BodyUpTo(q, n, to) = <<>>

(* The chapters of d are the first m of the file, but for empty ones.        *)
ChaptersOK(chapters, n, m) ==
  /\ \A k \in DOMAIN chapters : ChapterRead(chapters[k], n) /\ Number(chapters[k]) < m
  /\ \A j, k \in DOMAIN chapters : j < k => Number(chapters[j]) < Number(chapters[k])
  /\ \A q \in 0..(m - 1) : (\E k \in DOMAIN chapters : Number(chapters[k]) = q) \/ Nothing(q, n)

DocumentOK(d, n) ==
  /\ d \in DocumentSet
  /\ CurrentOK(d.current, n) /\ PrintsRead(d.current, ChapterOf(n), n) /\ FiguresRead(d.current, d.assets)
  /\ ChaptersOK(d.chapters, n, ChapterOf(n))
  /\ \A k \in DOMAIN d.chapters : FiguresRead(d.chapters[k], d.assets)

LEMMA FlatNothing ==
  ASSUME NEW n \in Nat, NEW F, \A c \in 1..n : F[c] = <<>>
  PROVE  Flat(F, n) = <<>>
<1> DEFINE Bad == {a \in 0..n : Flat(F, a) # <<>>}
<1>1. SUFFICES ASSUME Bad # {} PROVE FALSE
  OBVIOUS
<1>2. PICK a \in Bad : \A x \in Bad : a <= x
  <2>1. Bad \in SUBSET Nat
    OBVIOUS
  <2>2. QED
    BY <1>1, <2>1, Least
<1>3. CASE a = 0
  <2>1. [i \in 1..0 |-> F[i]] = <<>>
    OBVIOUS
  <2>2. QED
    BY <1>2, <1>3, <2>1, FlattenEmpty DEF Flat
<1>4. CASE a # 0
  <2>1. PICK p \in Nat : a = p + 1 /\ p \in 0..n
    <3>1. a - 1 \in Nat /\ a = (a - 1) + 1 /\ a - 1 \in 0..n
      BY <1>2, <1>4
    <3>2. QED
      BY <3>1
  <2>2. \A i \in 1..(p + 1) : F[i] \in Seq(Nat)
    <3>1. <<>> \in Seq(Nat)
      OBVIOUS
    <3>2. \A i \in 1..(p + 1) : F[i] = <<>>
      BY <1>2, <2>1
    <3>3. QED
      BY <3>1, <3>2
  <2>3. Flat(F, a) = Flat(F, p) \o F[a]
    BY <2>1, <2>2, FlatIs
  <2>4. Flat(F, p) = <<>> /\ F[a] = <<>>
    BY <1>2, <2>1
  <2>5. QED
    BY <1>2, <2>3, <2>4
<1>5. QED
  BY <1>3, <1>4

(* Its number is that of its items.                                          *)
LEMMA NumberIs ==
  ASSUME NEW c \in ChapterSet, NEW q, NEW n \in Nat, TitleReads(c, q, n), BlocksRead(c, q, n),
         c.title # None \/ c.blocks # <<>>
  PROVE  Number(c) = q
<1>1. CASE c.title # None
  <2>1. PICK i \in At(q, n) : c.title = Item(i)
    BY <1>1 DEF TitleReads
  <2>2. c.title[2] = i
    BY <2>1, TextIs
  <2>3. QED
    BY <1>1, <2>1, <2>2 DEF Number, At
<1>2. CASE c.title = None
  <2>1. c.blocks # <<>> /\ c.blocks \in Seq(BlockSet)
    BY <1>2 DEF ChapterSet
  <2>2. 1 \in DOMAIN c.blocks
    BY <2>1
  <2>3. PICK i \in At(q, n) : FromItem(c, c.blocks[1], i)
    BY <2>2 DEF BlocksRead
  <2>4. c.blocks[1].text[2] = i
    BY <2>3, FromItemIs
  <2>5. QED
    BY <1>2, <2>3, <2>4 DEF Number, At
<1>3. QED
  BY <1>1, <1>2

LEMMA BodyItemsAre ==
  ASSUME FileOK, NEW q, NEW to
  PROVE  /\ \A i \in 1..Len(file) : BodyItems(q, to)[i] \in Seq(Lines)
         /\ \A i \in 1..Len(file) : BodyItems(q, to)[i] = IF ChapterOf(i) = q /\ ~Title(i) THEN Expected(i, to) ELSE <<>>
<1>1. DOMAIN file = 1..Len(file)
  BY DEF FileOK
<1>2. \A i \in 1..Len(file) : BodyItems(q, to)[i] = IF ChapterOf(i) = q /\ ~Title(i) THEN Expected(i, to) ELSE <<>>
  BY <1>1 DEF BodyItems
<1>3. \A i \in 1..Len(file) : Expected(i, to) \in Seq(Lines)
  BY ExpectedTyped
<1>4. <<>> \in Seq(Lines)
  OBVIOUS
<1>5. QED
  BY <1>2, <1>3, <1>4

(* What is expected of the first n items, by recursion.                      *)
LEMMA BodyUpToIs ==
  ASSUME FileOK, NEW n \in Nat, n + 1 \in 1..Len(file), NEW q, NEW to
  PROVE  /\ BodyUpTo(q, n, to) \in Seq(Lines)
         /\ BodyUpTo(q, n + 1, to) =
              IF ChapterOf(n + 1) = q /\ ~Title(n + 1) THEN BodyUpTo(q, n, to) \o Expected(n + 1, to) ELSE BodyUpTo(q, n, to)
<1> DEFINE F == BodyItems(q, to)
<1>1. \A i \in 1..(n + 1) : F[i] \in Seq(Lines)
  <2>1. Len(file) \in Nat
    BY DEF FileOK
  <2>2. \A i \in 1..(n + 1) : i \in 1..Len(file)
    BY <2>1
  <2>3. QED
    BY <2>2, BodyItemsAre
<1>2. F[n + 1] = IF ChapterOf(n + 1) = q /\ ~Title(n + 1) THEN Expected(n + 1, to) ELSE <<>>
  BY BodyItemsAre
<1> HIDE DEF F
<1>3. Flat(F, n) \in Seq(Lines) /\ Flat(F, n + 1) = Flat(F, n) \o F[n + 1]
  BY <1>1, FlatIs
<1>4. Flat(F, n) \o <<>> = Flat(F, n)
  BY <1>3
<1>5. QED
  BY <1>2, <1>3, <1>4 DEF BodyUpTo, F

(* Nothing is printed of a chapter that has not begun.                       *)
LEMMA BodyNotYet ==
  ASSUME FileOK, NEW n \in 0..Len(file), NEW q, \A i \in 1..n : ChapterOf(i) # q, NEW to
  PROVE  BodyUpTo(q, n, to) = <<>>
<1> DEFINE F == BodyItems(q, to)
<1>1. Len(file) \in Nat /\ n \in Nat /\ 1..n \subseteq 1..Len(file)
  BY DEF FileOK
<1>2. \A i \in 1..n : F[i] = <<>> /\ F[i] \in Seq(Lines)
  BY <1>1, BodyItemsAre
<1>3. n \in Nat
  BY <1>1
<1> HIDE DEF F
<1>4. Flat(F, n) = <<>>
  BY <1>2, <1>3, FlatNothing
<1>5. QED
  BY <1>4 DEF BodyUpTo, F

(* What was read of an earlier chapter stays as it is.                       *)
LEMMA ChapterLater ==
  ASSUME FileOK, NEW n \in Nat, n + 1 \in 1..Len(file), NEW c, ChapterRead(c, n), Number(c) # ChapterOf(n + 1)
  PROVE  ChapterRead(c, n + 1)
<1>1. PrintsRead(c, Number(c), n + 1)
  BY BodyUpToIs DEF ChapterRead, PrintsRead
<1>2. QED
  BY <1>1, ReadsLater DEF ChapterRead

(* And so does what has nothing.                                             *)
LEMMA NothingLater ==
  ASSUME FileOK, NEW n \in Nat, n + 1 \in 1..Len(file), NEW q, Nothing(q, n), q # ChapterOf(n + 1)
  PROVE  Nothing(q, n + 1)
<1>1. At(q, n + 1) = At(q, n)
  BY AtGrows
<1>2. \A to : BodyUpTo(q, n + 1, to) = BodyUpTo(q, n, to)
  BY BodyUpToIs
<1>3. QED
  BY <1>1, <1>2 DEF Nothing

LEMMA ChaptersLater ==
  ASSUME FileOK, NEW n \in Nat, n + 1 \in 1..Len(file), NEW m \in Nat, NEW chapters, ChaptersOK(chapters, n, m),
         m <= ChapterOf(n + 1)
  PROVE  ChaptersOK(chapters, n + 1, m)
<1>1. ChapterOf(n + 1) \in Nat
  BY ChapterIs
<1>2. ASSUME NEW k \in DOMAIN chapters PROVE ChapterRead(chapters[k], n + 1) /\ Number(chapters[k]) < m
  <2>1. ChapterRead(chapters[k], n) /\ Number(chapters[k]) < m /\ Number(chapters[k]) \in Nat
    BY DEF ChaptersOK, ChapterRead
  <2>2. Number(chapters[k]) # ChapterOf(n + 1)
    BY <1>1, <2>1
  <2>3. QED
    BY <2>1, <2>2, ChapterLater
<1>3. ASSUME NEW q \in 0..(m - 1) PROVE (\E k \in DOMAIN chapters : Number(chapters[k]) = q) \/ Nothing(q, n + 1)
  <2>1. q # ChapterOf(n + 1)
    BY <1>1
  <2>2. QED
    BY <2>1, NothingLater DEF ChaptersOK
<1>4. QED
  BY <1>2, <1>3 DEF ChaptersOK

(* Close: the chapter that was read becomes the last, unless it is empty.    *)
LEMMA CloseIs ==
  ASSUME FileOK, NEW n \in 0..Len(file), NEW d, DocumentOK(d, n)
  PROVE  /\ Close(d) \in DocumentSet /\ Close(d).assets = d.assets
         /\ ChaptersOK(Close(d).chapters, n, ChapterOf(n) + 1)
         /\ \A k \in DOMAIN Close(d).chapters : FiguresRead(Close(d).chapters[k], d.assets)
<1> DEFINE c == d.current
           q == ChapterOf(n)
<1>1. /\ d \in DocumentSet /\ CurrentOK(c, n) /\ PrintsRead(c, q, n) /\ FiguresRead(c, d.assets)
      /\ ChaptersOK(d.chapters, n, q) /\ \A k \in DOMAIN d.chapters : FiguresRead(d.chapters[k], d.assets)
  BY DEF DocumentOK
<1>2. /\ c \in ChapterSet /\ Follows(c) /\ TitleReads(c, q, n) /\ SectionsRead(c, q, n)
      /\ BlocksRead(c, q, n) /\ TextsRead(c, q, n)
  BY <1>1 DEF CurrentOK
<1>3. n \in Nat /\ q \in Nat /\ (q + 1) - 1 = q
  <2>1. Len(file) \in Nat
    BY DEF FileOK
  <2>2. n \in Nat
    BY <2>1
  <2>3. QED
    BY <2>2, ChapterIs
<1> HIDE DEF c, q
<1>4. CASE c.title = None /\ c.blocks = <<>>
  <2>1. Close(d) = d
    BY <1>4 DEF Close, c
  <2>2. Nothing(q, n)
    <3>1. \A i \in At(q, n) : ~Title(i)
      BY <1>2, <1>4, TextIs DEF TitleReads
    <3>2. \A i \in At(q, n) : ~Textual(i)
      <4>1. DOMAIN c.blocks = {}
        BY <1>4
      <4>2. QED
        BY <1>2, <4>1 DEF TextsRead
    <3>3. BlocksFromFile(c)
      BY <1>4 DEF BlocksFromFile
    <3>4. \A to \in Formats : BodyUpTo(q, n, to) = <<>>
      BY <1>1, <1>2, <1>4, <3>3, BodyTyped DEF PrintsRead
    <3>5. QED
      BY <3>1, <3>2, <3>4 DEF Nothing
  <2>3. ChaptersOK(d.chapters, n, q + 1)
    <3>1. \A k \in DOMAIN d.chapters : Number(d.chapters[k]) < q + 1
      BY <1>1, <1>3 DEF ChaptersOK, ChapterRead
    <3>2. \A p \in 0..q : (\E k \in DOMAIN d.chapters : Number(d.chapters[k]) = p) \/ Nothing(p, n)
      <4> TAKE p \in 0..q
      <4>1. p \in 0..(q - 1) \/ p = q
        BY <1>3
      <4>2. QED
        BY <1>1, <2>2, <4>1 DEF ChaptersOK
    <3>3. QED
      BY <1>1, <1>3, <3>1, <3>2 DEF ChaptersOK
  <2>4. QED
    BY <1>1, <2>1, <2>3 DEF q
<1>5. CASE ~(c.title = None /\ c.blocks = <<>>)
  <2> DEFINE cs == Append(d.chapters, c)
             l == Len(d.chapters) + 1
  <2>1. Close(d) = [d EXCEPT !.chapters = cs]
    BY <1>5 DEF Close, c
  <2>2. d.chapters \in Seq(ChapterSet)
    BY <1>1 DEF DocumentSet
  <2>3. /\ cs \in Seq(ChapterSet) /\ l \in Nat /\ l \in 1..l /\ DOMAIN cs = 1..l /\ cs[l] = c
        /\ DOMAIN d.chapters = 1..(l - 1)
        /\ \A k \in DOMAIN d.chapters : cs[k] = d.chapters[k]
        /\ \A k \in DOMAIN cs : k \in DOMAIN d.chapters \/ k = l
    BY <1>2, <2>2
  <2> HIDE DEF cs, l
  <2>4. Close(d) \in DocumentSet /\ Close(d).chapters = cs /\ Close(d).assets = d.assets
    BY <1>1, <2>1, <2>3 DEF DocumentSet
  <2>5. Number(c) = q
    BY <1>2, <1>3, <1>5, NumberIs
  <2>6. ChapterRead(c, n)
    BY <1>1, <1>2, <1>3, <1>5, <2>5 DEF ChapterRead
  <2>7. \A k \in DOMAIN d.chapters : ChapterRead(d.chapters[k], n) /\ Number(d.chapters[k]) < q /\ Number(d.chapters[k]) \in Nat
    BY <1>1 DEF ChaptersOK, ChapterRead
  <2>8. \A k \in DOMAIN cs : ChapterRead(cs[k], n) /\ Number(cs[k]) < q + 1
    <3> TAKE k \in DOMAIN cs
    <3>1. CASE k \in DOMAIN d.chapters
      BY <1>3, <2>3, <2>7, <3>1
    <3>2. CASE k = l
      BY <1>3, <2>3, <2>5, <2>6, <3>2
    <3>3. QED
      BY <2>3, <3>1, <3>2
  <2>9. \A j, k \in DOMAIN cs : j < k => Number(cs[j]) < Number(cs[k])
    <3> TAKE j, k \in DOMAIN cs
    <3> HAVE j < k
    <3>1. j \in DOMAIN d.chapters
      BY <2>3
    <3>2. CASE k = l
      BY <2>3, <2>5, <2>7, <3>1, <3>2
    <3>3. CASE k \in DOMAIN d.chapters
      BY <1>1, <2>3, <3>1, <3>3 DEF ChaptersOK
    <3>4. QED
      BY <2>3, <3>2, <3>3
  <2>10. \A p \in 0..q : (\E k \in DOMAIN cs : Number(cs[k]) = p) \/ Nothing(p, n)
    <3> TAKE p \in 0..q
    <3>1. CASE p = q
      <4>1. l \in DOMAIN cs
        BY <2>3
      <4>2. QED
        BY <2>3, <2>5, <3>1, <4>1
    <3>2. CASE p # q
      <4>1. p \in 0..(q - 1)
        BY <1>3, <3>2
      <4>2. (\E k \in DOMAIN d.chapters : Number(d.chapters[k]) = p) \/ Nothing(p, n)
        BY <1>1, <4>1 DEF ChaptersOK
      <4>3. DOMAIN d.chapters \subseteq DOMAIN cs
        BY <2>3
      <4>4. QED
        BY <2>3, <4>2, <4>3
    <3>3. QED
      BY <3>1, <3>2
  <2>11. ChaptersOK(cs, n, q + 1)
    BY <1>3, <2>8, <2>9, <2>10 DEF ChaptersOK
  <2>12. \A k \in DOMAIN cs : FiguresRead(cs[k], d.assets)
    <3> TAKE k \in DOMAIN cs
    <3>1. QED
      BY <1>1, <2>3
  <2>13. QED
    BY <2>4, <2>11, <2>12 DEF q
<1>6. QED
  BY <1>4, <1>5

(* A chapter that starts is in order.                                        *)
LEMMA BlankStarts ==
  ASSUME FileOK, NEW n, NEW t \in TextSet, Sections(n) = {}, Targets(n) = {}, \A l : Higher(n, l) = {},
         TitleReads(Blank(t), ChapterOf(n), n), \A i \in At(ChapterOf(n), n) : ~Textual(i),
         \A to \in Formats : BodyUpTo(ChapterOf(n), n, to) = <<>>, NEW assets
  PROVE  CurrentOK(Blank(t), n) /\ PrintsRead(Blank(t), ChapterOf(n), n) /\ FiguresRead(Blank(t), assets)
<1> DEFINE c == Blank(t)
           q == ChapterOf(n)
<1>1. /\ c \in ChapterSet /\ c.sections = <<>> /\ c.blocks = <<>> /\ c.section = 0 /\ c.target = 0
      /\ \A l \in Levels : c.stack[l] = 0
  BY BlankIs DEF Blank
<1> HIDE DEF c
<1>2. DOMAIN c.sections = {} /\ DOMAIN c.blocks = {} /\ Len(c.sections) = 0 /\ Len(c.blocks) = 0
  BY <1>1
<1>3. Follows(c)
  BY <1>2 DEF Follows
<1>4. OnTrack(c, n)
  <2>1. Nearest({}) = None
    BY DEF Nearest
  <2>2. TitleAt(c, 0) = None /\ TargetText(c, 0) = None
    BY DEF TitleAt, TargetText
  <2>3. ASSUME NEW l \in Levels PROVE Parent(c, l) = 0
    <3>1. \A m \in TopLevel..(l - 1) : m \in Levels
      BY DEF TopLevel, Levels
    <3>2. {m \in TopLevel..(l - 1) : c.stack[m] # 0} = {}
      BY <1>1, <3>1
    <3>3. QED
      BY <3>2 DEF Parent
  <2>4. /\ c.section \in 0..Len(c.sections) /\ c.target \in 0..Len(c.blocks)
        /\ \A l \in Levels : c.stack[l] \in 0..Len(c.sections)
    BY <1>1, <1>2
  <2>5. /\ TitleAt(c, c.section) = Nearest(Sections(n)) /\ TargetText(c, c.target) = Nearest(Targets(n))
        /\ \A l \in Levels : TitleAt(c, Parent(c, l)) = Nearest(Higher(n, l))
    BY <1>1, <2>1, <2>2, <2>3
  <2>6. QED
    BY <2>4, <2>5 DEF OnTrack
<1>5. SectionsRead(c, q, n) /\ BlocksRead(c, q, n) /\ TextsRead(c, q, n)
  BY <1>2 DEF SectionsRead, BlocksRead, TextsRead
<1>6. \A to : BodyOf(c, to) = <<>>
  BY <1>1, <1>2, BodyTyped DEF BlocksFromFile
<1>7. FiguresRead(c, assets)
  BY <1>2 DEF FiguresRead
<1>8. QED
  BY <1>1, <1>3, <1>4, <1>5, <1>6, <1>7 DEF CurrentOK, PrintsRead, c

(* The document before the first item.                                       *)
LEMMA ReadingBegins ==
  ASSUME FileOK
  PROVE  DocumentOK(NoDocument, 0)
<1>1. ChapterOf(0) = 0
  BY ChapterIs
<1>2. At(0, 0) = {} /\ Sections(0) = {} /\ Targets(0) = {} /\ \A l : Higher(0, l) = {}
  BY DEF At, Sections, Targets, Higher
<1>3. None \in TextSet /\ Blank(None).title = None
  BY TextsAre DEF Blank
<1>4. TitleReads(Blank(None), 0, 0)
  BY <1>2, <1>3 DEF TitleReads
<1>5. \A to : BodyUpTo(0, 0, to) = <<>>
  <2>1. 0 \in 0..Len(file)
    BY DEF FileOK
  <2>2. QED
    BY <2>1, BodyNotYet
<1>6. CurrentOK(Blank(None), 0) /\ PrintsRead(Blank(None), 0, 0) /\ FiguresRead(Blank(None), <<>>)
  <2> DEFINE n == 0
  <2>1. /\ ChapterOf(n) = 0 /\ Sections(n) = {} /\ Targets(n) = {} /\ \A l : Higher(n, l) = {}
        /\ TitleReads(Blank(None), ChapterOf(n), n) /\ \A i \in At(ChapterOf(n), n) : ~Textual(i)
        /\ \A to \in Formats : BodyUpTo(ChapterOf(n), n, to) = <<>>
    BY <1>1, <1>2, <1>4, <1>5
  <2> HIDE DEF n
  <2>2. CurrentOK(Blank(None), n) /\ PrintsRead(Blank(None), ChapterOf(n), n) /\ FiguresRead(Blank(None), <<>>)
    BY <1>3, <2>1, BlankStarts
  <2>3. QED
    BY <2>1, <2>2 DEF n
<1>7. NoDocument \in DocumentSet
  BY <1>3, BlankIs DEF NoDocument, DocumentSet
<1>8. ChaptersOK(<<>>, 0, 0)
  BY DEF ChaptersOK
<1>9. NoDocument.chapters = <<>> /\ NoDocument.current = Blank(None) /\ NoDocument.assets = <<>>
  BY DEF NoDocument
<1>10. QED
  BY <1>1, <1>6, <1>7, <1>8, <1>9 DEF DocumentOK

TitleOfStart(i) == IF format = "docx" THEN Item(i) ELSE None

(* An item that starts a chapter.                                            *)
LEMMA StartStep ==
  ASSUME FileOK, NEW n \in Nat, n + 1 \in 1..Len(file), Starts(n + 1), NEW d, DocumentOK(d, n)
  PROVE  DocumentOK(NextChapter(d, TitleOfStart(n + 1)), n + 1)
<1> DEFINE i == n + 1
           q == ChapterOf(i)
           t == TitleOfStart(i)
           e == NextChapter(d, t)
<1>0. i \in Nat /\ i \in 1..Len(file) /\ n \in 0..Len(file) /\ i \in 0..Len(file)
  <2>1. Len(file) \in Nat
    BY DEF FileOK
  <2>2. QED
    BY <2>1
<1>1. q = ChapterOf(n) + 1 /\ ChapterOf(n) \in Nat /\ q \in Nat
  BY ChapterIs
<1>2. /\ Close(d) \in DocumentSet /\ Close(d).assets = d.assets
      /\ ChaptersOK(Close(d).chapters, n, q)
      /\ \A k \in DOMAIN Close(d).chapters : FiguresRead(Close(d).chapters[k], d.assets)
  BY <1>0, <1>1, CloseIs
<1>3. t \in TextSet
  BY <1>0, TextsAre DEF TitleOfStart
<1>4. Blank(t) \in ChapterSet /\ Blank(t).title = t
  BY <1>3, BlankIs DEF Blank
<1>5. e = [Close(d) EXCEPT !.current = Blank(t)]
  BY DEF NextChapter
<1> HIDE DEF e, t
<1>6. e \in DocumentSet /\ e.chapters = Close(d).chapters /\ e.current = Blank(t) /\ e.assets = d.assets
  BY <1>2, <1>4, <1>5 DEF DocumentSet
<1>7. At(q, i) = {i}
  <2>1. \A j \in 1..n : ChapterOf(j) # q
    <3> TAKE j \in 1..n
    <3>1. j \in Nat /\ j <= n
      OBVIOUS
    <3>2. ChapterOf(j) <= ChapterOf(n) /\ ChapterOf(j) \in Nat
      BY <3>1, ChapterGrows, ChapterIs
    <3>3. QED
      BY <1>1, <3>2
  <2>2. At(q, n) = {}
    BY <2>1 DEF At
  <2>3. QED
    BY <2>2, AtGrows
<1>8. /\ format = "docx" => Title(i)
      /\ format # "docx" => ~Title(i) /\ file[i].kind = "break" /\ file[i].image = 0
  BY <1>0, ItemIs DEF Starts, Title, Heading
<1>9. TitleReads(Blank(t), q, i)
  BY <1>4, <1>7, <1>8 DEF TitleReads, t, TitleOfStart
<1>10. \A j \in At(q, i) : ~Textual(j)
  BY <1>7, <1>8 DEF Textual
<1>11. \A to \in Formats : BodyUpTo(q, i, to) = <<>>
  <2> TAKE to \in Formats
  <2>1. BodyUpTo(q, n, to) = <<>>
    <3>1. \A j \in 1..n : ChapterOf(j) # q
      BY <1>7 DEF At
    <3>2. QED
      BY <1>0, <3>1, BodyNotYet
  <2>2. ~Title(i) => Expected(i, to) = <<>>
    <3> HAVE ~Title(i)
    <3>1. file[i].kind = "break" /\ file[i].image = 0 /\ ~Heading(i)
      BY <1>8 DEF Heading
    <3>2. TextExpected(i, to) = <<>> /\ QuoteExpected(i, to) = <<>> /\ FigureExpected(i) = <<>>
      BY <3>1 DEF TextExpected, QuoteExpected, FigureExpected
    <3>3. <<>> \o <<>> \o <<>> = <<>>
      OBVIOUS
    <3>4. QED
      BY <3>2, <3>3, ExpectedIs
  <2>3. BodyUpTo(q, i, to) = IF ChapterOf(i) = q /\ ~Title(i) THEN BodyUpTo(q, n, to) \o Expected(i, to) ELSE BodyUpTo(q, n, to)
    BY BodyUpToIs
  <2>4. <<>> \o <<>> = <<>>
    OBVIOUS
  <2>5. QED
    BY <2>1, <2>2, <2>3, <2>4
<1>12. Sections(i) = {} /\ Targets(i) = {} /\ \A l : Higher(i, l) = {}
  BY SetsStart
<1>13. CurrentOK(e.current, i) /\ PrintsRead(e.current, q, i) /\ FiguresRead(e.current, e.assets)
  BY <1>3, <1>6, <1>9, <1>10, <1>11, <1>12, BlankStarts
<1>14. ChaptersOK(e.chapters, i, q)
  BY <1>1, <1>2, <1>6, ChaptersLater
<1>15. QED
  BY <1>2, <1>6, <1>13, <1>14 DEF DocumentOK, e, t

(* In an EPUB a heading is the title when its chapter has none yet.          *)
LEMMA TitleMeets ==
  ASSUME FileOK, format # "docx", NEW n \in Nat, n + 1 \in 1..Len(file), Heading(n + 1), ~Starts(n + 1),
         NEW c, TitleReads(c, ChapterOf(n), n)
  PROVE  c.title = None <=> Title(n + 1)
<1> DEFINE i == n + 1
           q == ChapterOf(n)
<1>1. ChapterOf(i) = q /\ (n + 1) - 1 = n
  BY ChapterIs
<1>2. Title(i) <=> \A j \in 1..n : Heading(j) => ChapterOf(j) # q
  BY <1>1 DEF Title
<1>3. ASSUME c.title # None PROVE ~Title(i)
  <2>1. PICK j \in At(q, n) : Title(j)
    BY <1>3 DEF TitleReads
  <2>2. j \in 1..n /\ Heading(j) /\ ChapterOf(j) = q
    BY <2>1 DEF Title, At
  <2>3. QED
    BY <1>2, <2>2
<1>4. ASSUME c.title = None, ~Title(i) PROVE FALSE
  <2> DEFINE T == {j \in 1..n : Heading(j) /\ ChapterOf(j) = q}
  <2>1. T # {} /\ T \in SUBSET Nat
    BY <1>2, <1>4
  <2>2. PICK j \in T : \A k \in T : j <= k
    BY <2>1, Least
  <2>3. \A k \in 1..(j - 1) : Heading(k) => ChapterOf(k) # ChapterOf(j)
    <3> TAKE k \in 1..(j - 1)
    <3>1. k \in 1..n /\ ~(j <= k)
      BY <2>2
    <3>2. k \notin T
      BY <2>2, <3>1
    <3>3. QED
      BY <2>2, <3>1, <3>2
  <2>4. Title(j)
    BY <2>2, <2>3 DEF Title
  <2>5. j \in At(q, n)
    BY <2>2 DEF At
  <2>6. c.title = Item(j)
    BY <2>4, <2>5 DEF TitleReads
  <2>7. QED
    BY <1>4, <2>6, TextIs
<1>5. QED
  BY <1>3, <1>4

(* An item that is the title of its chapter.                                 *)
LEMMA TitleStep ==
  ASSUME FileOK, NEW n \in Nat, n + 1 \in 1..Len(file), ~Starts(n + 1), Title(n + 1), NEW d \in DocumentSet,
         CurrentOK(d.current, n), d.current.title = None, NEW e, e = [d EXCEPT !.current.title = Item(n + 1)]
  PROVE  /\ e \in DocumentSet /\ e.chapters = d.chapters /\ e.assets = d.assets
         /\ e.current.blocks = d.current.blocks
         /\ CurrentOK(e.current, n + 1)
<1> DEFINE i == n + 1
           q == ChapterOf(n)
           c == d.current
           f == [c EXCEPT !.title = Item(i)]
<1>1. c \in ChapterSet /\ d.assets \in Seq(Pictures) /\ d.chapters \in Seq(ChapterSet) /\ i \in Nat /\ Item(i) \in TextSet
  BY TextsAre DEF DocumentSet
<1>2. e = [d EXCEPT !.current = f]
  OBVIOUS
<1>3. /\ f \in ChapterSet /\ f.title = Item(i) /\ f.sections = c.sections /\ f.blocks = c.blocks
      /\ f.stack = c.stack /\ f.section = c.section /\ f.target = c.target
  BY <1>1 DEF ChapterSet
<1> HIDE DEF f
<1>4. e \in DocumentSet /\ e.chapters = d.chapters /\ e.assets = d.assets /\ e.current = f
  BY <1>1, <1>2, <1>3 DEF DocumentSet
<1> HIDE DEF c
<1>5. /\ Follows(c) /\ OnTrack(c, n) /\ TitleReads(c, q, n) /\ SectionsRead(c, q, n) /\ BlocksRead(c, q, n) /\ TextsRead(c, q, n)
  BY DEF CurrentOK, c
<1>6. ChapterOf(i) = q /\ ~Section(i) /\ ~TargetAt(i) /\ ~Textual(i) /\ At(q, i) = At(q, n) \union {i}
  <2>1. ChapterOf(i) = q
    BY ChapterIs
  <2>2. Heading(i)
    BY DEF Title
  <2>3. ~Section(i) /\ ~TargetAt(i) /\ ~Textual(i)
    BY <2>2 DEF Section, TargetAt, Textual, Heading
  <2>4. QED
    BY <2>1, <2>3, AtGrows
<1>7. Follows(f)
  BY <1>3, <1>5, FollowsSame
<1>8. OnTrack(f, i)
  <2>1. Targets(i) = Targets(n) \union {}
    BY <1>6, SetsGrow
  <2>2. f.target \in 0..Len(f.blocks) /\ TargetText(f, f.target) = Nearest(Targets(i))
    BY <1>3, <1>5, <2>1 DEF OnTrack, TargetText
  <2>3. QED
    BY <1>1, <1>3, <1>5, <1>6, <2>2, TrackOn
<1>9. TitleReads(f, q, i)
  <2>1. \A j \in At(q, n) : ~Title(j)
    <3>1. c.title = None
      BY DEF c
    <3>2. QED
      BY <1>5, <3>1, TextIs DEF TitleReads
  <2>2. QED
    BY <1>3, <1>6, <2>1 DEF TitleReads
<1>10. SectionsRead(f, q, i) /\ BlocksRead(f, q, i) /\ TextsRead(f, q, i)
  <2>1. SectionsRead(c, q, i) /\ BlocksRead(c, q, i) /\ TextsRead(c, q, i)
    BY <1>5, <1>6, ReadsLater
  <2>2. SectionsRead(f, q, i) /\ TextsRead(f, q, i)
    BY <1>3, <2>1 DEF SectionsRead, TextsRead
  <2>3. \A b, j : FromItem(f, b, j) <=> FromItem(c, b, j)
    BY <1>3 DEF FromItem
  <2>4. BlocksRead(f, q, i)
    BY <1>3, <2>1, <2>3 DEF BlocksRead
  <2>5. QED
    BY <2>2, <2>4
<1>11. CurrentOK(f, i)
  BY <1>3, <1>6, <1>7, <1>8, <1>9, <1>10 DEF CurrentOK
<1>12. QED
  BY <1>3, <1>4, <1>11 DEF c

(* An item that stays in its chapter.                                        *)
LEMMA WithinChapter ==
  ASSUME FileOK, NEW n \in Nat, n + 1 \in 1..Len(file), ~Starts(n + 1), NEW d, DocumentOK(d, n),
         NEW e \in DocumentSet, e.chapters = d.chapters,
         CurrentOK(e.current, n + 1), FiguresRead(e.current, e.assets),
         \A to \in Formats : BodyOf(e.current, to) =
           IF Title(n + 1) THEN BodyOf(d.current, to) ELSE BodyOf(d.current, to) \o Expected(n + 1, to),
         e.assets = d.assets \/ \E image \in Pictures : e.assets = Register(d.assets, image)
  PROVE  DocumentOK(e, n + 1)
<1> DEFINE i == n + 1
           q == ChapterOf(n)
<1>1. /\ d \in DocumentSet /\ PrintsRead(d.current, q, n) /\ ChaptersOK(d.chapters, n, q)
      /\ \A k \in DOMAIN d.chapters : FiguresRead(d.chapters[k], d.assets)
  BY DEF DocumentOK
<1>2. ChapterOf(i) = q /\ q \in Nat
  BY ChapterIs
<1>3. PrintsRead(e.current, q, i)
  <2> SUFFICES ASSUME NEW to \in Formats PROVE BodyOf(e.current, to) = BodyUpTo(q, i, to)
    BY DEF PrintsRead
  <2>1. BodyUpTo(q, i, to) = IF ChapterOf(i) = q /\ ~Title(i) THEN BodyUpTo(q, n, to) \o Expected(i, to) ELSE BodyUpTo(q, n, to)
    BY BodyUpToIs
  <2>2. BodyOf(d.current, to) = BodyUpTo(q, n, to)
    BY <1>1 DEF PrintsRead
  <2>3. QED
    BY <1>2, <2>1, <2>2
<1>4. ChaptersOK(e.chapters, i, q)
  BY <1>1, <1>2, ChaptersLater
<1>5. \A k \in DOMAIN e.chapters : FiguresRead(e.chapters[k], e.assets)
  <2>1. d.assets \in Seq(Pictures)
    BY <1>1 DEF DocumentSet
  <2>2. QED
    BY <1>1, <2>1, FiguresStay
<1>6. QED
  BY <1>2, <1>3, <1>4, <1>5 DEF DocumentOK

LEMMA ItemOK ==
  ASSUME FileOK, NEW n \in Nat, n + 1 \in 1..Len(file), ~Starts(n + 1), ~Heading(n + 1), NEW d, DocumentOK(d, n)
  PROVE  DocumentOK(AddFigure([d EXCEPT !.current = AddText(@, n + 1, file[n + 1])], n + 1, file[n + 1]), n + 1)
<1> DEFINE i == n + 1
           e == ItemRead(d, i)
<1>1. d \in DocumentSet /\ CurrentOK(d.current, n) /\ FiguresRead(d.current, d.assets)
  BY DEF DocumentOK
<1>2. file[i].kind # "heading" /\ ~Title(i) /\ file[i].image \in Pictures
  BY ItemIs DEF Heading, Title
<1>3. /\ AddFigure([d EXCEPT !.current = AddText(@, i, file[i])], i, file[i]) = e
      /\ e \in DocumentSet /\ e.chapters = d.chapters /\ e.assets = AssetsRead(d, i)
  BY <1>1, <1>2, ItemReadIs
<1>4. CurrentOK(e.current, i)
  BY <1>1, ItemStep
<1>5. FiguresRead(e.current, e.assets)
  BY <1>1, <1>2, FiguresStep
<1>6. \A to \in Formats : BodyOf(e.current, to) = BodyOf(d.current, to) \o Expected(i, to)
  BY <1>1, ItemPrints
<1>7. e.assets = d.assets \/ \E image \in Pictures : e.assets = Register(d.assets, image)
  BY <1>2, <1>3 DEF AssetsRead
<1> HIDE DEF e
<1>8. DocumentOK(e, i)
  BY <1>2, <1>3, <1>4, <1>5, <1>6, <1>7, WithinChapter
<1>9. QED
  BY <1>3, <1>8

LEMMA SectionOK ==
  ASSUME FileOK, NEW n \in Nat, n + 1 \in 1..Len(file), ~Starts(n + 1), Section(n + 1), file[n + 1].level >= TopLevel,
         NEW d, DocumentOK(d, n)
  PROVE  DocumentOK([d EXCEPT !.current = OpenSection(d.current, n + 1, file[n + 1], TopLevel)], n + 1)
<1> DEFINE i == n + 1
           f == OpenSection(d.current, i, file[i], TopLevel)
           e == [d EXCEPT !.current = f]
           c == d.current
           o == Opened(c, i)
           h == HeadingBlock(c, i)
<1>1. d \in DocumentSet /\ CurrentOK(d.current, n) /\ FiguresRead(d.current, d.assets)
  BY DEF DocumentOK
<1>2. CurrentOK(f, i)
  BY <1>1, OpenStep
<1>3. \A to \in Formats : BodyOf(f, to) = BodyOf(d.current, to) \o Expected(i, to)
  BY <1>1, OpenPrints
<1>4. FiguresRead(f, d.assets)
  <2>1. c \in ChapterSet /\ \A m \in Levels : c.stack[m] \in 0..Len(c.sections)
    BY <1>1 DEF CurrentOK, OnTrack
  <2>2. f = Grow(o, h, c.target) /\ o.blocks = c.blocks /\ o \in ChapterSet /\ h \in BlockSet /\ h.type = "heading"
    BY <2>1, OpenedIs
  <2>3. c.target \in Nat
    BY <2>1 DEF ChapterSet
  <2>4. FiguresRead(o, d.assets)
    BY <1>1, <2>2 DEF FiguresRead
  <2> HIDE DEF f, o, h
  <2>5. QED
    BY <2>2, <2>3, <2>4, FiguresGrow
<1> HIDE DEF f
<1>5. f \in ChapterSet
  BY <1>2 DEF CurrentOK
<1>6. e \in DocumentSet /\ e.chapters = d.chapters /\ e.assets = d.assets /\ e.current = f
  BY <1>1, <1>5 DEF DocumentSet
<1>7. ~Title(i)
  BY DEF Section
<1> HIDE DEF e, c
<1>8. DocumentOK(e, i)
  BY <1>2, <1>3, <1>4, <1>6, <1>7, WithinChapter
<1>9. QED
  BY <1>8 DEF e, f

LEMMA TitleOK ==
  ASSUME FileOK, NEW n \in Nat, n + 1 \in 1..Len(file), ~Starts(n + 1), Title(n + 1), NEW d, DocumentOK(d, n),
         d.current.title = None
  PROVE  DocumentOK([d EXCEPT !.current.title = Item(n + 1)], n + 1)
<1> DEFINE i == n + 1
           e == [d EXCEPT !.current.title = Item(i)]
<1>1. d \in DocumentSet /\ CurrentOK(d.current, n) /\ FiguresRead(d.current, d.assets)
  BY DEF DocumentOK
<1>2. /\ e \in DocumentSet /\ e.chapters = d.chapters /\ e.assets = d.assets
      /\ e.current.blocks = d.current.blocks /\ CurrentOK(e.current, i)
  BY <1>1, TitleStep
<1> HIDE DEF e
<1>3. FiguresRead(e.current, e.assets)
  BY <1>1, <1>2 DEF FiguresRead
<1>4. \A to : BodyOf(e.current, to) = BodyOf(d.current, to)
  BY <1>2 DEF BodyOf, Prints
<1>5. DocumentOK(e, i)
  BY <1>2, <1>3, <1>4, WithinChapter
<1>6. QED
  BY <1>5 DEF e

(* DocxItem and EpubElement keep the document in order, whatever the item.   *)
LEMMA ReadStep ==
  ASSUME FileOK, NEW n \in Nat, n + 1 \in 1..Len(file), NEW d, DocumentOK(d, n)
  PROVE  DocumentOK(ReadItem(d, n + 1), n + 1)
<1> DEFINE i == n + 1
           item == file[i]
           next == AddFigure([d EXCEPT !.current = AddText(@, i, item)], i, item)
<1>1. /\ item.level \in Levels
      /\ item.kind \in {"heading", "text", "quote", "caption", "table", "image", "aside", "break"}
      /\ (format = "docx" => item.kind \in {"heading", "text", "caption", "table", "image"})
  BY ItemIs
<1>2. CASE Starts(i)
  <2>1. DocumentOK(NextChapter(d, TitleOfStart(i)), i)
    BY <1>2, StartStep
  <2>2. ReadItem(d, i) = NextChapter(d, TitleOfStart(i))
    <3>1. CASE format = "docx"
      <4>1. item.kind = "heading" /\ item.level = 1
        BY <1>2, <3>1 DEF Starts
      <4>2. DocxItem(d, i) = NextChapter(d, Item(i))
        BY <4>1 DEF DocxItem
      <4>3. QED
        BY <3>1, <4>2 DEF ReadItem, TitleOfStart
    <3>2. CASE format # "docx"
      <4>1. item.kind = "break"
        BY <1>2, <3>2 DEF Starts
      <4>2. EpubElement(d, i) = NextChapter(d, None)
        BY <4>1 DEF EpubElement
      <4>3. QED
        BY <3>2, <4>2 DEF ReadItem, TitleOfStart
    <3>3. QED
      BY <3>1, <3>2
  <2>3. QED
    BY <2>1, <2>2
<1>3. CASE ~Starts(i) /\ ~Heading(i)
  <2>1. DocumentOK(next, i)
    BY <1>3, ItemOK
  <2>2. ReadItem(d, i) = next
    <3>1. CASE format = "docx"
      <4>1. DocxItem(d, i) = next
        BY <1>3 DEF DocxItem, Heading
      <4>2. QED
        BY <3>1, <4>1 DEF ReadItem
    <3>2. CASE format # "docx"
      <4>1. item.kind # "break" /\ item.kind # "heading"
        BY <1>3, <3>2 DEF Starts, Heading
      <4>2. EpubElement(d, i) = next
        BY <4>1 DEF EpubElement
      <4>3. QED
        BY <3>2, <4>2 DEF ReadItem
    <3>3. QED
      BY <3>1, <3>2
  <2>3. QED
    BY <2>1, <2>2
<1>4. CASE ~Starts(i) /\ Heading(i) /\ format = "docx"
  <2>1. item.kind = "heading" /\ item.level # 1
    BY <1>4 DEF Starts, Heading
  <2>2. Section(i) /\ item.level >= TopLevel /\ TopLevel = 2
    BY <1>1, <1>4, <2>1 DEF Section, Title, TopLevel, Levels
  <2>3. DocxItem(d, i) = [d EXCEPT !.current = OpenSection(d.current, i, item, 2)]
    BY <2>1 DEF DocxItem
  <2>4. ReadItem(d, i) = [d EXCEPT !.current = OpenSection(d.current, i, item, TopLevel)]
    BY <1>4, <2>2, <2>3 DEF ReadItem
  <2>5. QED
    BY <1>4, <2>2, <2>4, SectionOK
<1>5. CASE ~Starts(i) /\ Heading(i) /\ format # "docx"
  <2>1. TitleReads(d.current, ChapterOf(n), n)
    BY DEF DocumentOK, CurrentOK
  <2>2. d.current.title = None <=> Title(i)
    BY <1>5, <2>1, TitleMeets
  <2>3. item.kind = "heading" /\ item.kind # "break"
    BY <1>5 DEF Heading
  <2>4. CASE d.current.title = None
    <3>1. EpubElement(d, i) = [d EXCEPT !.current.title = Item(i)]
      BY <2>3, <2>4 DEF EpubElement
    <3>2. QED
      BY <1>5, <2>2, <2>4, <3>1, TitleOK DEF ReadItem
  <2>5. CASE d.current.title # None
    <3>1. Section(i) /\ item.level >= TopLevel /\ TopLevel = 1
      BY <1>1, <1>5, <2>2, <2>5 DEF Section, TopLevel, Levels
    <3>2. EpubElement(d, i) = [d EXCEPT !.current = OpenSection(d.current, i, item, 1)]
      BY <2>3, <2>5 DEF EpubElement
    <3>3. ReadItem(d, i) = [d EXCEPT !.current = OpenSection(d.current, i, item, TopLevel)]
      BY <1>5, <3>1, <3>2 DEF ReadItem
    <3>4. QED
      BY <1>5, <3>1, <3>3, SectionOK
  <2>6. QED
    BY <2>4, <2>5
<1>6. QED
  BY <1>2, <1>3, <1>4, <1>5

(* So the whole file is read in order.                                       *)
LEMMA ReadingOK ==
  ASSUME FileOK, NEW g, Reading(g, Len(file))
  PROVE  DocumentOK(g[Len(file)], Len(file))
<1> DEFINE Bad == {n \in 0..Len(file) : ~DocumentOK(g[n], n)}
<1>1. Len(file) \in Nat
  BY DEF FileOK
<1>2. SUFFICES ASSUME Bad # {} PROVE FALSE
  BY <1>1
<1>3. PICK n \in Bad : \A m \in Bad : n <= m
  <2>1. Bad \in SUBSET Nat
    BY <1>1
  <2>2. QED
    BY <1>2, <2>1, Least
<1>4. g[n] = IF n = 0 THEN NoDocument ELSE ReadItem(g[n - 1], n)
  BY <1>1, <1>3 DEF Reading
<1>5. CASE n = 0
  BY <1>3, <1>4, <1>5, ReadingBegins
<1>6. CASE n # 0
  <2>1. PICK p \in Nat : n = p + 1 /\ p \in 0..Len(file) /\ p + 1 \in 1..Len(file) /\ n - 1 = p
    <3>1. n - 1 \in Nat /\ n = (n - 1) + 1 /\ n - 1 \in 0..Len(file) /\ (n - 1) + 1 \in 1..Len(file)
      BY <1>1, <1>3, <1>6
    <3>2. QED
      BY <3>1
  <2>2. DocumentOK(g[p], p)
    BY <1>3, <2>1
  <2>3. DocumentOK(ReadItem(g[p], p + 1), p + 1)
    BY <2>1, <2>2, ReadStep
  <2>4. QED
    BY <1>3, <1>4, <1>6, <2>1, <2>3
<1>7. QED
  BY <1>5, <1>6

-------------------------------------------------------------------------------
(* The chapters as they are kept: with the title of the file where there is  *)
(* no other.                                                                 *)

(* A chapter as it is kept, of chapter q of the file.                        *)
FileChapter(c, q) ==
  /\ c \in ChapterSet /\ Follows(c)
  /\ c.title # BookTitle => TitleReads(c, q, Len(file))
  /\ c.title = BookTitle => \A i \in At(q, Len(file)) : ~Title(i)
  /\ SectionsRead(c, q, Len(file)) /\ BlocksRead(c, q, Len(file)) /\ TextsRead(c, q, Len(file))
  /\ PrintsRead(c, q, Len(file))

(* The chapters cs are those of the file, with these numbers: but for empty  *)
(* ones, and for the title of the file where there is no other.              *)
AsFile(cs, num, assets) ==
  /\ cs \in Seq(ChapterSet) /\ Len(cs) # 0
  /\ num \in [1..Len(cs) -> 0..ChapterOf(Len(file))]
  /\ \A j, k \in 1..Len(cs) : j < k => num[j] < num[k]
  /\ \A k \in 1..Len(cs) : FileChapter(cs[k], num[k]) /\ FiguresRead(cs[k], assets)
  /\ \A q \in 0..ChapterOf(Len(file)) : (\E k \in 1..Len(cs) : num[k] = q) \/ Nothing(q, Len(file))
  /\ Untitled => Len(cs) = 1 /\ cs[1].title = BookTitle
  /\ ~Untitled => \A k \in 1..Len(cs) : cs[k].title # BookTitle

(* What prints nothing has parts that print nothing.                         *)
LEMMA FlatEmpty ==
  ASSUME NEW U, NEW n \in Nat, NEW F, \A i \in 1..n : F[i] \in Seq(U), Flat(F, n) = <<>>
  PROVE  \A i \in 1..n : F[i] = <<>>
<1> SUFFICES ASSUME NEW i \in 1..n, F[i] # <<>> PROVE FALSE
  OBVIOUS
<1> DEFINE T == {m \in 0..n : i <= m /\ Flat(F, m) = <<>>}
<1>1. PICK m \in T : \A x \in T : m <= x
  <2>1. n \in T /\ T \in SUBSET Nat
    OBVIOUS
  <2>2. QED
    BY <2>1, Least
<1>2. PICK p \in Nat : m = p + 1 /\ p \in 0..n
  <2>1. m \in 0..n /\ i <= m
    BY <1>1
  <2>2. m - 1 \in Nat /\ m = (m - 1) + 1 /\ m - 1 \in 0..n
    BY <2>1
  <2>3. QED
    BY <2>2
<1>3. /\ Flat(F, p) \in Seq(U) /\ Flat(F, m) = Flat(F, p) \o F[m] /\ F[m] \in Seq(U) /\ Flat(F, m) = <<>>
  <2>1. \A x \in 1..(p + 1) : F[x] \in Seq(U)
    BY <1>1, <1>2
  <2>2. p + 1 \in 1..(p + 1)
    BY <1>2
  <2>3. QED
    BY <1>1, <1>2, <2>1, <2>2, FlatIs
<1>4. Flat(F, p) = <<>> /\ F[m] = <<>>
  <2>1. PICK s \in Seq(U), t \in Seq(U) : s = Flat(F, p) /\ t = F[m] /\ s \o t = <<>>
    BY <1>3
  <2>2. s = <<>> /\ t = <<>>
    BY <2>1
  <2>3. QED
    BY <2>1, <2>2
<1>5. i # m
  BY <1>4
<1>6. p \in T
  BY <1>1, <1>2, <1>4, <1>5
<1>7. QED
  BY <1>1, <1>2, <1>6

(* In a DOCX every chapter but that before the first begins with its title.  *)
LEMMA TitleBegins ==
  ASSUME FileOK, format = "docx", NEW i \in 1..Len(file), ChapterOf(i) # 0
  PROVE  \E j \in At(ChapterOf(i), Len(file)) : Title(j)
<1> DEFINE T == {j \in Nat : ChapterOf(j) = ChapterOf(i)}
<1>1. Len(file) \in Nat /\ i \in Nat
  BY DEF FileOK
<1>2. PICK j \in T : \A x \in T : j <= x
  <2>1. i \in T /\ T \in SUBSET Nat
    BY <1>1
  <2>2. QED
    BY <2>1, Least
<1>3. j \in Nat /\ j <= i /\ ChapterOf(j) = ChapterOf(i)
  BY <1>1, <1>2
<1>4. j # 0
  BY <1>3, ChapterIs
<1>5. PICK p \in Nat : j = p + 1
  <2>1. j - 1 \in Nat /\ j = (j - 1) + 1
    BY <1>3, <1>4
  <2>2. QED
    BY <2>1
<1>6. ChapterOf(p) # ChapterOf(j)
  BY <1>2, <1>3, <1>5
<1>7. Starts(j)
  BY <1>5, <1>6, ChapterIs
<1>8. Title(j)
  BY <1>7 DEF Starts, Title, Heading
<1>9. j \in 1..Len(file)
  BY <1>1, <1>3, <1>4
<1>10. QED
  BY <1>3, <1>8, <1>9 DEF At

(* Nothing is read of such a chapter when none of its items is of use.       *)
LEMMA NothingHas ==
  ASSUME FileOK, format # "docx", NEW i \in 1..Len(file), Nothing(ChapterOf(i), Len(file))
  PROVE  file[i].kind = "break" \/ (file[i].kind = "image" /\ file[i].image = 0)
<1> DEFINE q == ChapterOf(i)
<1>1. Len(file) \in Nat /\ i \in At(q, Len(file))
  BY DEF FileOK, At
<1>2. ~Title(i) /\ ~Textual(i) /\ BodyUpTo(q, Len(file), "epub") = <<>>
  BY <1>1 DEF Nothing, Formats
<1>3. file[i].kind \in {"image", "break"}
  BY <1>2 DEF Textual
<1>4. BodyItems(q, "epub")[i] = <<>>
  <2>1. \A x \in 1..Len(file) : BodyItems(q, "epub")[x] \in Seq(Lines)
    BY BodyItemsAre
  <2>2. QED
    BY <1>1, <1>2, <2>1, FlatEmpty DEF BodyUpTo
<1>5. Expected(i, "epub") = <<>>
  BY <1>2, <1>4, BodyItemsAre
<1>6. CASE file[i].image # 0 /\ file[i].kind = "image"
  <2>1. TextExpected(i, "epub") = <<>> /\ QuoteExpected(i, "epub") = <<>>
    BY <1>6 DEF TextExpected, QuoteExpected, Heading
  <2>2. FigureExpected(i) = Printed("figure", 0, <<>>, file[i].image, 0)
    BY <1>6 DEF FigureExpected, Heading
  <2>3. FigureExpected(i) \in Seq(Lines)
    BY ExpectedTyped
  <2>4. PICK f : f = [as |-> "figure", level |-> 0, says |-> <<>>, shows |-> file[i].image, note |-> 0]
    OBVIOUS
  <2>5. FigureExpected(i) = <<f>>
    BY <2>2, <2>4 DEF Printed
  <2>6. Expected(i, "epub") = <<>> \o <<>> \o <<f>>
    BY <2>1, <2>5, ExpectedIs
  <2>7. <<>> \o <<>> \o <<f>> = <<f>>
    OBVIOUS
  <2>8. <<f>> # <<>>
    OBVIOUS
  <2>9. QED
    BY <1>5, <2>6, <2>7, <2>8
<1>7. QED
  BY <1>3, <1>6

(* Which files have no title of their own.                                   *)
LEMMA UntitledIs ==
  ASSUME FileOK, NEW cs \in Seq(ChapterSet), ChaptersOK(cs, Len(file), ChapterOf(Len(file)) + 1)
  PROVE  Untitled <=> cs = <<>> \/ (format = "docx" /\ Len(cs) = 1 /\ cs[1].title = None)
<1> DEFINE n == Len(file)
           m == ChapterOf(n)
<1>1. /\ n \in Nat /\ m \in Nat /\ DOMAIN file = 1..n /\ DOMAIN cs = 1..Len(cs) /\ Len(cs) \in Nat
      /\ (m + 1) - 1 = m
  <2>1. n \in Nat /\ DOMAIN file = 1..n
    BY DEF FileOK
  <2>2. DOMAIN cs = 1..Len(cs) /\ Len(cs) \in Nat
    OBVIOUS
  <2>3. m \in Nat
    BY <2>1, ChapterIs
  <2>4. QED
    BY <2>1, <2>2, <2>3
<1>2. \A i \in 1..n : ChapterOf(i) \in 0..m /\ i \in At(ChapterOf(i), n)
  BY <1>1, ChapterIs, ChapterGrows DEF At
<1>3. \A i \in 1..n : (\E k \in 1..Len(cs) : Number(cs[k]) = ChapterOf(i)) \/ Nothing(ChapterOf(i), n)
  BY <1>1, <1>2 DEF ChaptersOK
<1>4. \A k \in 1..Len(cs) : ChapterRead(cs[k], n) /\ Number(cs[k]) \in Nat
  BY <1>1 DEF ChaptersOK, ChapterRead
<1> HIDE DEF n, m
<1>5. CASE cs = <<>>
  <2>1. \A i \in 1..n : Nothing(ChapterOf(i), n)
    BY <1>3, <1>5
  <2>2. \A i \in 1..n : ~Title(i)
    BY <1>2, <2>1 DEF Nothing
  <2>3. format # "docx" => \A i \in 1..n : file[i].kind = "break" \/ (file[i].kind = "image" /\ file[i].image = 0)
    BY <2>1, NothingHas DEF n
  <2>4. QED
    BY <1>1, <1>5, <2>2, <2>3 DEF Untitled
<1>6. CASE format = "docx" /\ Len(cs) = 1 /\ cs[1].title = None
  <2>1. ASSUME NEW i \in 1..n, Title(i) PROVE FALSE
    <3>1. ~Nothing(ChapterOf(i), n)
      BY <1>2, <2>1 DEF Nothing
    <3>2. PICK k \in 1..Len(cs) : Number(cs[k]) = ChapterOf(i)
      BY <1>3, <3>1
    <3>3. k = 1
      BY <1>6, <3>2
    <3>4. TitleReads(cs[1], ChapterOf(i), n)
      BY <1>4, <3>2, <3>3 DEF ChapterRead
    <3>5. cs[1].title = Item(i)
      BY <1>2, <2>1, <3>4 DEF TitleReads
    <3>6. QED
      BY <1>6, <3>5, TextIs
  <2>2. QED
    BY <1>1, <1>6, <2>1 DEF Untitled
<1>7. CASE cs # <<>> /\ format = "docx" /\ ~(Len(cs) = 1 /\ cs[1].title = None)
  <2>1. Len(cs) # 0 /\ 1 \in 1..Len(cs)
    BY <1>1, <1>7
  <2>2. \E i \in 1..n : Title(i)
    <3>1. CASE cs[1].title # None
      <4>1. TitleReads(cs[1], Number(cs[1]), n)
        BY <1>4, <2>1 DEF ChapterRead
      <4>2. PICK i \in At(Number(cs[1]), n) : Title(i)
        BY <3>1, <4>1 DEF TitleReads
      <4>3. QED
        BY <4>2 DEF At
    <3>2. CASE cs[1].title = None
      <4>1. Len(cs) # 1 /\ 2 \in 1..Len(cs)
        BY <1>1, <1>7, <2>1, <3>2
      <4>2. Number(cs[1]) < Number(cs[2])
        BY <1>1, <2>1, <4>1 DEF ChaptersOK
      <4>3. Number(cs[2]) # 0
        BY <1>4, <2>1, <4>1, <4>2
      <4>4. PICK q : q = Number(cs[2])
        OBVIOUS
      <4>5. ChapterRead(cs[2], n)
        BY <1>4, <4>1
      <4>6. TitleReads(cs[2], q, n) /\ BlocksRead(cs[2], q, n) /\ (cs[2].title # None \/ cs[2].blocks # <<>>)
            /\ cs[2] \in ChapterSet
        BY <4>4, <4>5 DEF ChapterRead
      <4>7. CASE cs[2].title # None
        BY <4>6, <4>7 DEF TitleReads, At
      <4>8. CASE cs[2].title = None
        <5>1. cs[2].blocks \in Seq(BlockSet)
          BY <4>6 DEF ChapterSet
        <5>2. 1 \in DOMAIN cs[2].blocks
          BY <4>6, <4>8, <5>1
        <5>3. PICK i \in At(q, n) : FromItem(cs[2], cs[2].blocks[1], i)
          BY <4>6, <5>2 DEF BlocksRead
        <5>4. i \in 1..n /\ ChapterOf(i) = q
          BY <5>3 DEF At
        <5>5. PICK j \in At(q, n) : Title(j)
          BY <1>7, <4>3, <4>4, <5>4, TitleBegins DEF n
        <5>6. QED
          BY <5>5 DEF At
      <4>9. QED
        BY <4>7, <4>8
    <3>3. QED
      BY <3>1, <3>2
  <2>3. QED
    BY <1>1, <1>7, <2>2 DEF Untitled
<1>8. CASE cs # <<>> /\ format # "docx"
  <2>1. Len(cs) # 0 /\ 1 \in 1..Len(cs)
    BY <1>1, <1>8
  <2>2. PICK q : q = Number(cs[1])
    OBVIOUS
  <2>3. ChapterRead(cs[1], n)
    BY <1>4, <2>1
  <2>4. TitleReads(cs[1], q, n) /\ BlocksRead(cs[1], q, n) /\ (cs[1].title # None \/ cs[1].blocks # <<>>)
        /\ cs[1] \in ChapterSet
    BY <2>2, <2>3 DEF ChapterRead
  <2>5. \E i \in 1..n : ~(file[i].kind = "break" \/ (file[i].kind = "image" /\ file[i].image = 0))
    <3>1. CASE cs[1].title # None
      <4>1. PICK i \in At(q, n) : Title(i)
        BY <2>4, <3>1 DEF TitleReads
      <4>2. i \in 1..n /\ file[i].kind = "heading"
        BY <4>1 DEF At, Title, Heading
      <4>3. QED
        BY <4>2
    <3>2. CASE cs[1].title = None
      <4>1. cs[1].blocks \in Seq(BlockSet)
        BY <2>4 DEF ChapterSet
      <4>2. 1 \in DOMAIN cs[1].blocks
        BY <2>4, <3>2, <4>1
      <4>3. PICK i \in At(q, n) : FromItem(cs[1], cs[1].blocks[1], i)
        BY <2>4, <4>2 DEF BlocksRead
      <4>4. i \in 1..n
        BY <4>3 DEF At
      <4>5. file[i].kind \notin {"image", "break"} \/ file[i].image # 0
        BY <4>3 DEF FromItem
      <4>6. file[i].kind = "break" => file[i].image = 0
        BY <1>8, <4>4, ItemIs DEF n
      <4>7. QED
        BY <4>4, <4>5, <4>6
    <3>3. QED
      BY <3>1, <3>2
  <2>6. QED
    BY <1>1, <1>8, <2>5 DEF Untitled
<1>9. QED
  BY <1>5, <1>6, <1>7, <1>8

(* A title that is made up changes nothing else.                             *)
LEMMA SameChapter ==
  ASSUME NEW c, NEW e, e.sections = c.sections, e.blocks = c.blocks, NEW q, NEW n
  PROVE  /\ SectionsRead(c, q, n) => SectionsRead(e, q, n)
         /\ BlocksRead(c, q, n) => BlocksRead(e, q, n)
         /\ TextsRead(c, q, n) => TextsRead(e, q, n)
         /\ \A to : BodyOf(e, to) = BodyOf(c, to)
         /\ \A assets : FiguresRead(c, assets) => FiguresRead(e, assets)
<1>1. SectionsRead(c, q, n) => SectionsRead(e, q, n)
  BY DEF SectionsRead
<1>2. \A block, i : FromItem(c, block, i) => FromItem(e, block, i)
  BY DEF FromItem
<1>3. BlocksRead(c, q, n) => BlocksRead(e, q, n)
  BY <1>2 DEF BlocksRead
<1>4. TextsRead(c, q, n) => TextsRead(e, q, n)
  BY DEF TextsRead
<1>5. \A to : Prints(e, to) = Prints(c, to)
  BY DEF Prints
<1>6. \A to : BodyOf(e, to) = BodyOf(c, to)
  BY <1>5 DEF BodyOf
<1>7. \A assets : FiguresRead(c, assets) => FiguresRead(e, assets)
  BY DEF FiguresRead
<1>8. QED
  BY <1>1, <1>3, <1>4, <1>6, <1>7

LEMMA NoChapter ==
  ASSUME FileOK, Untitled, Nothing(0, Len(file))
  PROVE  FileChapter(Blank(BookTitle), 0) /\ \A assets : FiguresRead(Blank(BookTitle), assets)
<1> DEFINE c == Blank(BookTitle)
<1>1. c \in ChapterSet /\ c.sections = <<>> /\ c.blocks = <<>> /\ c.title = BookTitle
  BY TextsAre, BlankIs DEF Blank
<1>2. DOMAIN c.sections = {} /\ DOMAIN c.blocks = {}
  BY <1>1
<1> HIDE DEF c
<1>3. Follows(c) /\ SectionsRead(c, 0, Len(file)) /\ BlocksRead(c, 0, Len(file)) /\ BlocksFromFile(c)
  BY <1>2 DEF Follows, SectionsRead, BlocksRead, BlocksFromFile
<1>4. (\A i \in At(0, Len(file)) : ~Title(i)) /\ TextsRead(c, 0, Len(file))
  BY DEF Nothing, TextsRead
<1>5. PrintsRead(c, 0, Len(file))
  BY <1>1, <1>3, BodyTyped DEF PrintsRead, Nothing
<1>6. \A assets : FiguresRead(c, assets)
  BY <1>2 DEF FiguresRead
<1>7. QED
  BY <1>1, <1>3, <1>4, <1>5, <1>6 DEF FileChapter, c

(* The chapters that are kept are the file's.                                *)
LEMMA ChaptersAsFile ==
  ASSUME FileOK, NEW d \in DocumentSet, ChaptersOK(d.chapters, Len(file), ChapterOf(Len(file)) + 1),
         \A k \in DOMAIN d.chapters : FiguresRead(d.chapters[k], d.assets)
  PROVE  \E num : AsFile(Chapters(d), num, d.assets)
<1> DEFINE cs == d.chapters
           n == Len(file)
           m == ChapterOf(n)
<1>1. /\ cs \in Seq(ChapterSet) /\ DOMAIN cs = 1..Len(cs) /\ Len(cs) \in Nat /\ m \in Nat /\ (m + 1) - 1 = m
      /\ DOMAIN file = 1..n /\ n \in Nat
  <2>1. cs \in Seq(ChapterSet)
    BY DEF DocumentSet
  <2>2. n \in Nat /\ DOMAIN file = 1..n
    BY DEF FileOK
  <2>3. m \in Nat
    BY <2>2, ChapterIs
  <2>4. DOMAIN cs = 1..Len(cs) /\ Len(cs) \in Nat
    BY <2>1
  <2>5. QED
    BY <2>1, <2>2, <2>3, <2>4
<1>2. Untitled <=> cs = <<>> \/ (format = "docx" /\ Len(cs) = 1 /\ cs[1].title = None)
  BY <1>1, UntitledIs
<1>3. /\ \A k \in 1..Len(cs) : ChapterRead(cs[k], n) /\ Number(cs[k]) < m + 1 /\ FiguresRead(cs[k], d.assets)
      /\ \A j, k \in 1..Len(cs) : j < k => Number(cs[j]) < Number(cs[k])
      /\ \A q \in 0..m : (\E k \in 1..Len(cs) : Number(cs[k]) = q) \/ Nothing(q, n)
  BY <1>1 DEF ChaptersOK
<1>4. \A k \in 1..Len(cs) : /\ cs[k] \in ChapterSet /\ Number(cs[k]) \in 0..m
                            /\ TitleReads(cs[k], Number(cs[k]), n) /\ SectionsRead(cs[k], Number(cs[k]), n)
                            /\ BlocksRead(cs[k], Number(cs[k]), n) /\ TextsRead(cs[k], Number(cs[k]), n)
                            /\ PrintsRead(cs[k], Number(cs[k]), n) /\ Follows(cs[k])
  BY <1>1, <1>3 DEF ChapterRead
<1> HIDE DEF cs, n, m
<1>5. CASE cs = <<>>
  <2>1. Chapters(d) = <<Blank(BookTitle)>>
    BY <1>5 DEF Chapters, cs
  <2>2. \A q \in 0..m : Nothing(q, n)
    BY <1>3, <1>5
  <2>3. Nothing(0, n)
    BY <1>1, <2>2
  <2>4. FileChapter(Blank(BookTitle), 0) /\ FiguresRead(Blank(BookTitle), d.assets)
    BY <1>2, <1>5, <2>3, NoChapter DEF n
  <2>5. Blank(BookTitle) \in ChapterSet /\ Blank(BookTitle).title = BookTitle
    BY TextsAre, BlankIs DEF Blank
  <2> DEFINE num == [k \in 1..1 |-> 0]
  <2>6. PICK new : new = Blank(BookTitle)
    OBVIOUS
  <2>7. <<new>> \in Seq(ChapterSet) /\ Len(<<new>>) = 1 /\ <<new>>[1] = new
    BY <2>5, <2>6
  <2>8. num \in [1..1 -> 0..m] /\ num[1] = 0 /\ \A k \in 1..1 : k = 1
    BY <1>1
  <2> HIDE DEF num
  <2>9. AsFile(<<new>>, num, d.assets)
    BY <1>2, <1>5, <2>2, <2>4, <2>5, <2>6, <2>7, <2>8 DEF AsFile, m, n
  <2>10. QED
    BY <2>1, <2>6, <2>9
<1>6. CASE format = "docx" /\ Len(cs) = 1 /\ cs[1].title = None
  <2> DEFINE c == cs[1]
             e == [c EXCEPT !.title = BookTitle]
             q == Number(c)
  <2>1. Chapters(d) = <<e>>
    <3>1. d.chapters # <<>>
      BY <1>6 DEF cs
    <3>2. QED
      BY <1>6, <3>1 DEF Chapters, cs
  <2>2. /\ c \in ChapterSet /\ q \in 0..m /\ SectionsRead(c, q, n) /\ BlocksRead(c, q, n) /\ TextsRead(c, q, n)
        /\ PrintsRead(c, q, n) /\ Follows(c) /\ FiguresRead(c, d.assets)
    BY <1>3, <1>4, <1>6
  <2>3. e \in ChapterSet /\ e.title = BookTitle /\ e.sections = c.sections /\ e.blocks = c.blocks
    <3>1. c \in ChapterSet
      BY <2>2
    <3> HIDE DEF c
    <3>2. QED
      BY <3>1, TextsAre DEF ChapterSet
  <2> HIDE DEF e, c, q
  <2>4. Follows(e) /\ SectionsRead(e, q, n) /\ BlocksRead(e, q, n) /\ TextsRead(e, q, n) /\ FiguresRead(e, d.assets)
    BY <2>2, <2>3, SameChapter, FollowsSame
  <2>5. PrintsRead(e, q, n)
    BY <2>2, <2>3, SameChapter DEF PrintsRead
  <2>6. Untitled /\ \A i \in At(q, n) : ~Title(i)
    BY <1>1, <1>2, <1>6 DEF Untitled, At
  <2>7. FileChapter(e, q)
    BY <2>3, <2>4, <2>5, <2>6 DEF FileChapter, n
  <2> DEFINE num == [k \in 1..1 |-> q]
  <2>8. num \in [1..1 -> 0..m] /\ num[1] = q /\ \A k \in 1..1 : k = 1
    BY <2>2
  <2>9. <<e>> \in Seq(ChapterSet) /\ Len(<<e>>) = 1 /\ <<e>>[1] = e
    BY <2>3
  <2>10. \A p \in 0..m : p = q \/ Nothing(p, n)
    BY <1>3, <1>6 DEF q, c
  <2> HIDE DEF num
  <2>11. AsFile(<<e>>, num, d.assets)
    <3>1. \A p \in 0..m : (\E k \in 1..1 : num[k] = p) \/ Nothing(p, n)
      BY <2>8, <2>10
    <3>2. QED
      BY <2>3, <2>4, <2>6, <2>7, <2>8, <2>9, <3>1 DEF AsFile, m, n
  <2>12. QED
    BY <2>1, <2>11
<1>7. CASE ~(cs = <<>> \/ (format = "docx" /\ Len(cs) = 1 /\ cs[1].title = None))
  <2>1. Chapters(d) = cs
    BY <1>7 DEF Chapters, cs
  <2> DEFINE num == [k \in 1..Len(cs) |-> Number(cs[k])]
  <2>2. num \in [1..Len(cs) -> 0..m] /\ \A k \in 1..Len(cs) : num[k] = Number(cs[k])
    BY <1>4
  <2> HIDE DEF num
  <2>3. \A k \in 1..Len(cs) : cs[k].title # BookTitle
    BY <1>4, TextIs DEF TitleReads
  <2>4. \A k \in 1..Len(cs) : FileChapter(cs[k], num[k])
    BY <1>4, <2>2, <2>3 DEF FileChapter, n
  <2>5. Len(cs) # 0
    BY <1>1, <1>7
  <2>6. \A q \in 0..m : (\E k \in 1..Len(cs) : num[k] = q) \/ Nothing(q, n)
    BY <1>3, <2>2
  <2>7. \A j, k \in 1..Len(cs) : j < k => num[j] < num[k]
    BY <1>3, <2>2
  <2>8. ~Untitled
    BY <1>2, <1>7
  <2>9. \A k \in 1..Len(cs) : FileChapter(cs[k], num[k]) /\ FiguresRead(cs[k], d.assets)
    BY <1>3, <2>4
  <2>10. AsFile(cs, num, d.assets)
    BY <1>1, <2>2, <2>3, <2>5, <2>6, <2>7, <2>8, <2>9 DEF AsFile, m, n
  <2>11. QED
    BY <2>1, <2>10
<1>8. QED
  BY <1>5, <1>6, <1>7

-------------------------------------------------------------------------------
(* Finite sets in the order of a number. NotesOf, NotesFrom and RowsOf are   *)
(* written with it.                                                          *)

(* The elements of a finite set, ranked by f: their numbers are 0, 1, ...    *)
Below(S, f, x) == {y \in S : f[y] < f[x]}

(* They have all the ranks, and each has its own.                            *)
LEMMA Ranks ==
  ASSUME NEW S, IsFiniteSet(S), NEW f \in [S -> Int], \A x, y \in S : f[x] = f[y] => x = y
  PROVE  /\ Cardinality(S) \in Nat
         /\ \A x \in S : Cardinality(Below(S, f, x)) \in 0..(Cardinality(S) - 1)
         /\ \A x, y \in S : f[x] < f[y] => Cardinality(Below(S, f, x)) < Cardinality(Below(S, f, y))
         /\ \A x, y \in S : Cardinality(Below(S, f, x)) = Cardinality(Below(S, f, y)) => x = y
         /\ \A n \in 1..Cardinality(S) : \E x \in S : Cardinality(Below(S, f, x)) = n - 1
<1> DEFINE rank == [x \in S |-> Cardinality(Below(S, f, x))]
           last == Cardinality(S) - 1
<1>1. Cardinality(S) \in Nat
  BY FS_CardinalityType
<1>2. \A x \in S : Below(S, f, x) \in SUBSET S /\ IsFiniteSet(Below(S, f, x)) /\ Cardinality(Below(S, f, x)) \in Nat
  <2> TAKE x \in S
  <2>1. Below(S, f, x) \in SUBSET S
    BY DEF Below
  <2>2. QED
    BY <2>1, FS_Subset, FS_CardinalityType
<1>3. ASSUME NEW x \in S, NEW T \in SUBSET S, Below(S, f, x) \subseteq T, x \in T
      PROVE  Cardinality(Below(S, f, x)) < Cardinality(T)
  <2>1. x \notin Below(S, f, x)
    <3>1. f[x] \in Int
      OBVIOUS
    <3>2. QED
      BY <3>1 DEF Below
  <2>2. IsFiniteSet(T) /\ Cardinality(T) \in Nat
    BY <1>3, FS_Subset, FS_CardinalityType
  <2>3. Cardinality(Below(S, f, x)) <= Cardinality(T)
    BY <1>3, <2>2, FS_Subset
  <2>4. Cardinality(Below(S, f, x)) # Cardinality(T)
    BY <1>3, <2>1, <2>2, FS_Subset
  <2>5. QED
    BY <1>2, <2>2, <2>3, <2>4
<1>4. \A x \in S : Cardinality(Below(S, f, x)) \in 0..last
  <2> TAKE x \in S
  <2>1. Cardinality(Below(S, f, x)) < Cardinality(S)
    BY <1>2, <1>3
  <2>2. QED
    BY <1>1, <1>2, <2>1
<1>5. \A x, y \in S : f[x] < f[y] => Cardinality(Below(S, f, x)) < Cardinality(Below(S, f, y))
  <2> TAKE x, y \in S
  <2> HAVE f[x] < f[y]
  <2>1. \A z \in S : f[z] \in Int
    OBVIOUS
  <2>2. Below(S, f, x) \subseteq Below(S, f, y) /\ x \in Below(S, f, y)
    BY <2>1 DEF Below
  <2>3. QED
    BY <1>2, <1>3, <2>2
<1>6. \A x, y \in S : Cardinality(Below(S, f, x)) = Cardinality(Below(S, f, y)) => x = y
  <2> TAKE x, y \in S
  <2>1. f[x] \in Int /\ f[y] \in Int
    OBVIOUS
  <2>2. f[x] = f[y] \/ f[x] < f[y] \/ f[y] < f[x]
    BY <2>1
  <2>3. QED
    BY <1>2, <1>5, <2>2
<1>7. \A n \in 1..Cardinality(S) : \E x \in S : Cardinality(Below(S, f, x)) = n - 1
  <2>1. rank \in Injection(S, 0..last)
    BY <1>4, <1>6 DEF Injection, IsInjective
  <2>2. IsFiniteSet(0..last) /\ Cardinality(0..last) = Cardinality(S)
    BY <1>1, FS_Interval
  <2>3. rank \in Surjection(S, 0..last)
    BY <2>1, <2>2, FS_Injection
  <2>4. \A t \in 0..last : \E x \in S : Cardinality(Below(S, f, x)) = t
    BY <2>3 DEF Surjection
  <2>5. \A n \in 1..Cardinality(S) : n - 1 \in 0..last
    BY <1>1
  <2>6. QED
    BY <2>4, <2>5
<1>8. QED
  BY <1>1, <1>4, <1>5, <1>6, <1>7

(* Sorted, by such an f.                                                     *)
InOrder(S, f) == [n \in 1..Cardinality(S) |-> CHOOSE x \in S : Cardinality(Below(S, f, x)) = n - 1]

(* Each element once, in the order of its number.                            *)
LEMMA InOrderIs ==
  ASSUME NEW S, IsFiniteSet(S), NEW f \in [S -> Int], \A x, y \in S : f[x] = f[y] => x = y
  PROVE  /\ Cardinality(S) \in Nat /\ DOMAIN InOrder(S, f) = 1..Cardinality(S)
         /\ \A n \in 1..Cardinality(S) : InOrder(S, f)[n] \in S
         /\ \A x \in S : \E n \in 1..Cardinality(S) : InOrder(S, f)[n] = x
         /\ \A m, n \in 1..Cardinality(S) : m < n => f[InOrder(S, f)[m]] < f[InOrder(S, f)[n]]
<1> DEFINE s == InOrder(S, f)
           b(x) == Cardinality(Below(S, f, x))
<1>1. /\ Cardinality(S) \in Nat /\ \A x \in S : b(x) \in 0..(Cardinality(S) - 1)
      /\ \A x, y \in S : f[x] < f[y] => b(x) < b(y)
      /\ \A x, y \in S : b(x) = b(y) => x = y
      /\ \A n \in 1..Cardinality(S) : \E x \in S : b(x) = n - 1
  BY Ranks
<1>2. \A n \in 1..Cardinality(S) : s[n] \in S /\ b(s[n]) = n - 1
  BY <1>1 DEF InOrder
<1>3. ASSUME NEW x \in S PROVE \E n \in 1..Cardinality(S) : s[n] = x
  <2>1. b(x) + 1 \in 1..Cardinality(S) /\ (b(x) + 1) - 1 = b(x)
    BY <1>1
  <2>2. QED
    BY <1>1, <1>2, <2>1
<1>4. ASSUME NEW m \in 1..Cardinality(S), NEW n \in 1..Cardinality(S), m < n PROVE f[s[m]] < f[s[n]]
  <2>1. PICK x \in S, y \in S : x = s[m] /\ y = s[n] /\ b(x) = m - 1 /\ b(y) = n - 1
    BY <1>2
  <2>2. f[x] \in Int /\ f[y] \in Int
    OBVIOUS
  <2>3. ~(f[y] < f[x]) /\ f[x] # f[y]
    BY <1>1, <1>4, <2>1
  <2>4. f[x] < f[y]
    BY <2>2, <2>3
  <2>5. QED
    BY <2>1, <2>4
<1>5. DOMAIN s = 1..Cardinality(S)
  BY DEF InOrder
<1>6. QED
  BY <1>1, <1>2, <1>3, <1>4, <1>5

(* The notes of a DOCX that chapter k is the first to refer to.              *)
NotesIn(cs, k) == {n \in Notes : References(cs[k], n) # {} /\ \A j \in 1..(k - 1) : References(cs[j], n) = {}}
FirstBlock(c, S) == [n \in S |-> Min(References(c, n))]

LEMMA NotesOfIs == \A cs, k : NotesOf(cs, k) = InOrder(NotesIn(cs, k), FirstBlock(cs[k], NotesIn(cs, k)))
<1> TAKE cs, k
<1> DEFINE S == NotesIn(cs, k)
           f == FirstBlock(cs[k], S)
           Under(x) == {y \in S : Min(References(cs[k], y)) < Min(References(cs[k], x))}
<1>1. \A x \in S : Under(x) = Below(S, f, x)
  BY DEF Below, FirstBlock
<1>2. NotesOf(cs, k) = [n \in 1..Cardinality(S) |-> CHOOSE x \in S : Cardinality(Under(x)) = n - 1]
  BY DEF NotesOf, Sorted, NotesIn
<1>3. ASSUME NEW n
      PROVE  (CHOOSE x \in S : Cardinality(Under(x)) = n - 1) = CHOOSE x \in S : Cardinality(Below(S, f, x)) = n - 1
  <2> HIDE DEF S, f, Under
  <2>1. \A x : (x \in S /\ Cardinality(Under(x)) = n - 1) <=> (x \in S /\ Cardinality(Below(S, f, x)) = n - 1)
    BY <1>1
  <2>2. QED
    BY <2>1
<1>4. QED
  BY <1>2, <1>3 DEF InOrder

(* The blocks that refer to a note.                                          *)
LEMMA ReferencesAre ==
  ASSUME NEW c \in ChapterSet, NEW n, References(c, n) # {}
  PROVE  /\ Min(References(c, n)) \in DOMAIN c.blocks /\ c.blocks[Min(References(c, n))].note = n
         /\ Min(References(c, n)) \in Nat
         /\ \A b \in DOMAIN c.blocks : c.blocks[b].note = n => Min(References(c, n)) <= b
<1>1. c.blocks \in Seq(BlockSet)
  BY DEF ChapterSet
<1>2. References(c, n) \in SUBSET Nat
  BY <1>1 DEF References
<1>3. Min(References(c, n)) \in References(c, n) /\ \A x \in References(c, n) : Min(References(c, n)) <= x
  BY <1>2, MinIs
<1>4. QED
  BY <1>2, <1>3 DEF References

(* NotesOf lists each of these notes once.                                   *)
LEMMA NotesAre ==
  ASSUME NEW cs, NEW k, cs[k] \in ChapterSet
  PROVE  /\ NotesOf(cs, k) \in Seq(Notes)
         /\ \A i \in DOMAIN NotesOf(cs, k) : NotesOf(cs, k)[i] \in NotesIn(cs, k)
         /\ \A n \in NotesIn(cs, k) : \E i \in DOMAIN NotesOf(cs, k) : NotesOf(cs, k)[i] = n
         /\ \A i, j \in DOMAIN NotesOf(cs, k) : i # j => NotesOf(cs, k)[i] # NotesOf(cs, k)[j]
         /\ IsFiniteSet(NotesIn(cs, k))
         /\ FirstBlock(cs[k], NotesIn(cs, k)) \in [NotesIn(cs, k) -> Int]
         /\ \A m, n \in NotesIn(cs, k) :
              FirstBlock(cs[k], NotesIn(cs, k))[m] = FirstBlock(cs[k], NotesIn(cs, k))[n] => m = n
<1> DEFINE S == NotesIn(cs, k)
           f == FirstBlock(cs[k], S)
           s == NotesOf(cs, k)
           l == Cardinality(S)
<1>1. S \subseteq Notes /\ \A n \in S : References(cs[k], n) # {}
  BY DEF NotesIn
<1>2. \A n \in S : /\ f[n] \in DOMAIN cs[k].blocks /\ f[n] \in Int /\ cs[k].blocks[f[n]].note = n
  BY <1>1, ReferencesAre DEF FirstBlock
<1>3. f \in [S -> DOMAIN cs[k].blocks] /\ f \in [S -> Int] /\ \A m, n \in S : f[m] = f[n] => m = n
  <2>1. f = [n \in S |-> f[n]]
    BY DEF FirstBlock
  <2> HIDE DEF f
  <2>2. QED
    BY <1>2, <2>1
<1>4. IsFiniteSet(S)
  <2>1. cs[k].blocks \in Seq(BlockSet)
    BY DEF ChapterSet
  <2>2. PICK d \in Nat : DOMAIN cs[k].blocks = 1..d
    BY <2>1
  <2>3. IsFiniteSet(1..d)
    BY <2>2, FS_Interval
  <2>4. f \in Injection(S, 1..d)
    BY <1>3, <2>2 DEF Injection, IsInjective
  <2>5. QED
    BY <2>3, <2>4, FS_Injection
<1>5. s = InOrder(S, f)
  BY NotesOfIs
<1> HIDE DEF S, f, s
<1>6. /\ l \in Nat /\ DOMAIN s = 1..l
      /\ \A n \in 1..l : s[n] \in S
      /\ \A x \in S : \E n \in 1..l : s[n] = x
      /\ \A m, n \in 1..l : m < n => f[s[m]] < f[s[n]]
  BY <1>3, <1>4, <1>5, InOrderIs
<1>7. s \in Seq(Notes)
  <2>1. s = [n \in 1..l |-> s[n]]
    BY <1>5, <1>6 DEF InOrder
  <2>2. s \in [1..l -> Notes]
    BY <1>1, <1>6, <2>1
  <2>3. QED
    BY <1>6, <2>2
<1>8. ASSUME NEW i \in 1..l, NEW j \in 1..l, i # j PROVE s[i] # s[j]
  <2>1. i < j \/ j < i
    BY <1>6, <1>8
  <2>2. f[s[i]] < f[s[j]] \/ f[s[j]] < f[s[i]]
    BY <1>6, <2>1
  <2>3. f[s[i]] \in Int /\ f[s[j]] \in Int
    BY <1>3, <1>6
  <2>4. QED
    BY <2>2, <2>3
<1>9. QED
  BY <1>3, <1>4, <1>6, <1>7, <1>8 DEF S, f, s

-------------------------------------------------------------------------------
NotesHere(cs, k) == IF format = "docx" THEN NotesOf(cs, k) ELSE <<>>
NoteBlocksOf(notes) == [n \in DOMAIN notes |-> NoteBlock(notes[n])]

(* What is stored is the file's.                                             *)
Laid(book, cs, num) ==
  /\ AsFile(cs, num, book.assets)
  /\ book.assets \in Seq(Pictures)
  /\ book.chapters = [k \in DOMAIN cs |-> Stored(cs[k], NotesHere(cs, k))]

(* Whatever the file, Parse lays it out so.                                  *)
LEMMA ParseLays ==
  ASSUME FileOK
  PROVE  \E cs, num : Laid(Parse, cs, num)
<1>1. Len(file) \in Nat
  BY DEF FileOK
<1>2. PICK g : Reading(g, Len(file)) /\ Parse = Result(Close(g[Len(file)]))
  BY <1>1, ParseReads
<1>3. DocumentOK(g[Len(file)], Len(file))
  BY <1>2, ReadingOK
<1>4. PICK d : d = Close(g[Len(file)])
  OBVIOUS
<1>5. /\ d \in DocumentSet /\ ChaptersOK(d.chapters, Len(file), ChapterOf(Len(file)) + 1)
      /\ \A k \in DOMAIN d.chapters : FiguresRead(d.chapters[k], d.assets)
  <2>1. Len(file) \in 0..Len(file)
    BY <1>1
  <2>2. QED
    BY <1>3, <1>4, <2>1, CloseIs
<1>6. PICK num : AsFile(Chapters(d), num, d.assets)
  BY <1>5, ChaptersAsFile
<1>7. Parse = Result(d)
  BY <1>2, <1>4
<1>8. /\ Parse.assets = d.assets
      /\ Parse.chapters = [k \in DOMAIN Chapters(d) |-> Stored(Chapters(d)[k], NotesHere(Chapters(d), k))]
  BY <1>7 DEF Result, NotesHere
<1>9. d.assets \in Seq(Pictures)
  BY <1>5 DEF DocumentSet
<1>10. QED
  BY <1>6, <1>8, <1>9 DEF Laid

(* The chapters of what is stored, and their blocks.                         *)
LEMMA LaidIs ==
  ASSUME NEW book, NEW cs, NEW num, Laid(book, cs, num)
  PROVE  /\ Len(cs) \in Nat /\ DOMAIN cs = 1..Len(cs) /\ DOMAIN book.chapters = 1..Len(cs)
         /\ \A k \in 1..Len(cs) : cs[k] \in ChapterSet /\ NotesHere(cs, k) \in Seq(Notes)
         /\ \A k \in 1..Len(cs) :
              /\ book.chapters[k].title = cs[k].title /\ book.chapters[k].sections = cs[k].sections
              /\ book.chapters[k].blocks = cs[k].blocks \o NoteBlocksOf(NotesHere(cs, k))
<1>1. cs \in Seq(ChapterSet)
  BY DEF Laid, AsFile
<1>2. Len(cs) \in Nat /\ DOMAIN cs = 1..Len(cs) /\ \A k \in 1..Len(cs) : cs[k] \in ChapterSet
  BY <1>1
<1>3. \A k \in 1..Len(cs) : NotesHere(cs, k) \in Seq(Notes)
  <2> TAKE k \in 1..Len(cs)
  <2>1. NotesOf(cs, k) \in Seq(Notes)
    BY <1>2, NotesAre
  <2>2. <<>> \in Seq(Notes)
    OBVIOUS
  <2>3. QED
    BY <2>1, <2>2 DEF NotesHere
<1>4. DOMAIN book.chapters = 1..Len(cs) /\ \A k \in 1..Len(cs) : book.chapters[k] = Stored(cs[k], NotesHere(cs, k))
  BY <1>2 DEF Laid
<1>5. \A c, notes : /\ Stored(c, notes).title = c.title /\ Stored(c, notes).sections = c.sections
                    /\ Stored(c, notes).blocks = c.blocks \o NoteBlocksOf(notes)
  BY DEF Stored, NoteBlocksOf
<1>6. QED
  BY <1>2, <1>3, <1>4, <1>5

(* The parts of two sequences that are joined.                               *)
LEMMA Joined ==
  ASSUME NEW U, NEW s \in Seq(U), NEW t \in Seq(U)
  PROVE  /\ DOMAIN (s \o t) = 1..(Len(s) + Len(t))
         /\ \A b \in 1..Len(s) : (s \o t)[b] = s[b]
         /\ \A n \in 1..Len(t) : (s \o t)[Len(s) + n] = t[n]
  OBVIOUS

(* Block by block: those that were read, then the notes.                     *)
LEMMA LaidBlocks ==
  ASSUME NEW book, NEW cs, NEW num, Laid(book, cs, num), NEW k \in 1..Len(cs)
  PROVE  /\ Len(cs[k].blocks) \in Nat /\ Len(NotesHere(cs, k)) \in Nat
         /\ DOMAIN cs[k].blocks = 1..Len(cs[k].blocks) /\ DOMAIN NotesHere(cs, k) = 1..Len(NotesHere(cs, k))
         /\ DOMAIN book.chapters[k].blocks = 1..(Len(cs[k].blocks) + Len(NotesHere(cs, k)))
         /\ \A b \in 1..Len(cs[k].blocks) : book.chapters[k].blocks[b] = cs[k].blocks[b] /\ cs[k].blocks[b] \in BlockSet
         /\ \A n \in 1..Len(NotesHere(cs, k)) :
              book.chapters[k].blocks[Len(cs[k].blocks) + n] = NoteBlock(NotesHere(cs, k)[n])
<1> DEFINE s == cs[k].blocks
           notes == NotesHere(cs, k)
           t == NoteBlocksOf(notes)
<1>1. s \in Seq(BlockSet) /\ notes \in Seq(Notes) /\ book.chapters[k].blocks = s \o t
  <2>1. cs[k] \in ChapterSet /\ notes \in Seq(Notes) /\ book.chapters[k].blocks = s \o t
    BY LaidIs
  <2>2. s \in Seq(BlockSet)
    BY <2>1 DEF ChapterSet
  <2>3. QED
    BY <2>1, <2>2
<1>2. t \in Seq({NoteBlock(notes[n]) : n \in DOMAIN notes}) /\ Len(t) = Len(notes) /\ \A n \in 1..Len(notes) : t[n] = NoteBlock(notes[n])
  <2>1. notes \in Seq(Notes)
    BY <1>1
  <2>2. DOMAIN notes = 1..Len(notes) /\ Len(notes) \in Nat
    BY <2>1
  <2>3. t = [n \in 1..Len(notes) |-> NoteBlock(notes[n])]
    BY <2>2 DEF NoteBlocksOf
  <2> HIDE DEF t, notes
  <2>4. QED
    BY <2>2, <2>3
<1> HIDE DEF s, t, notes
<1>3. Len(s) \in Nat /\ Len(notes) \in Nat /\ DOMAIN s = 1..Len(s) /\ DOMAIN notes = 1..Len(notes)
  BY <1>1
<1>4. PICK l \in Nat, m \in Nat : l = Len(s) /\ m = Len(notes) /\ m = Len(t)
  BY <1>2, <1>3
<1>5. /\ DOMAIN (s \o t) = 1..(Len(s) + Len(notes))
      /\ \A b \in 1..Len(s) : (s \o t)[b] = s[b]
      /\ \A n \in 1..Len(notes) : (s \o t)[Len(s) + n] = t[n]
  <2>1. PICK U : t \in Seq(U)
    BY <1>2
  <2>2. s \in Seq(BlockSet \union U) /\ t \in Seq(BlockSet \union U)
    BY <1>1, <2>1
  <2>3. QED
    BY <1>4, <2>2, Joined
<1>6. \A b \in 1..Len(s) : s[b] \in BlockSet
  BY <1>1
<1>7. QED
  BY <1>1, <1>2, <1>3, <1>5, <1>6 DEF s, t, notes

(* The sections and captions of what is stored are the file's.               *)
LEMMA LaidFollows ==
  ASSUME NEW cs, NEW num, Laid(parsed, cs, num)
  PROVE  StructureFollowsFile
<1> SUFFICES ASSUME NEW k \in 1..Len(cs)
             PROVE  /\ \A s \in DOMAIN parsed.chapters[k].sections : SectionFollows(parsed.chapters[k], s)
                    /\ \A b \in DOMAIN parsed.chapters[k].blocks : BlockFollows(parsed.chapters[k], parsed.chapters[k].blocks[b])
  BY LaidIs, FollowsIs
<1> DEFINE c == cs[k]
           e == parsed.chapters[k]
<1>1. Follows(c) /\ e.sections = c.sections
  <2>1. FileChapter(cs[k], num[k])
    BY DEF Laid, AsFile
  <2>2. QED
    BY <2>1, LaidIs DEF FileChapter
<1>2. /\ Len(c.blocks) \in Nat /\ Len(NotesHere(cs, k)) \in Nat /\ DOMAIN c.blocks = 1..Len(c.blocks)
      /\ DOMAIN e.blocks = 1..(Len(c.blocks) + Len(NotesHere(cs, k)))
      /\ \A b \in 1..Len(c.blocks) : e.blocks[b] = c.blocks[b]
      /\ \A n \in 1..Len(NotesHere(cs, k)) : e.blocks[Len(c.blocks) + n] = NoteBlock(NotesHere(cs, k)[n])
  BY LaidBlocks
<1> HIDE DEF c, e
<1>3. \A s : TitleAt(e, s) = TitleAt(c, s)
  BY <1>1 DEF TitleAt
<1>4. \A s \in DOMAIN e.sections : SectionFollows(e, s)
  BY <1>1, <1>3 DEF Follows, SectionFollows
<1>5. ASSUME NEW b \in 1..Len(c.blocks) PROVE BlockFollows(e, e.blocks[b])
  <2>1. BlockFollows(c, c.blocks[b]) /\ c.blocks[b].target \in 0..Len(c.blocks) /\ e.blocks[b] = c.blocks[b]
    BY <1>1, <1>2 DEF Follows
  <2>2. TargetText(e, c.blocks[b].target) = TargetText(c, c.blocks[b].target)
    <3>1. PICK t : t = c.blocks[b].target
      OBVIOUS
    <3>2. t = 0 \/ t \in 1..Len(c.blocks)
      BY <1>2, <2>1, <3>1
    <3>3. QED
      BY <1>2, <3>1, <3>2 DEF TargetText
  <2>3. QED
    BY <1>3, <2>1, <2>2 DEF BlockFollows
<1>6. ASSUME NEW n \in 1..Len(NotesHere(cs, k)) PROVE BlockFollows(e, e.blocks[Len(c.blocks) + n])
  <2>1. NoteBlock(NotesHere(cs, k)[n]).text[1] = "note"
    BY DEF NoteBlock, Note
  <2>2. QED
    BY <1>2, <2>1 DEF BlockFollows
<1>7. \A b \in DOMAIN e.blocks : BlockFollows(e, e.blocks[b])
  <2> TAKE b \in DOMAIN e.blocks
  <2>1. b \in 1..Len(c.blocks) \/ (b - Len(c.blocks) \in 1..Len(NotesHere(cs, k)) /\ b = Len(c.blocks) + (b - Len(c.blocks)))
    BY <1>2
  <2>2. QED
    BY <1>5, <1>6, <2>1
<1>8. QED
  BY <1>4, <1>7 DEF e

-------------------------------------------------------------------------------
(* What the texts are segmented into (segment_chapter).                      *)

(* Drafts, of the first b blocks.                                            *)
IsText(block)    == block.type \notin {"heading", "figure"}
PartsOf(c)       == [b \in DOMAIN c.blocks |-> IF c.blocks[b].type \in {"heading", "figure"} THEN <<>>
                                               ELSE [p \in 1..c.blocks[b].parts |-> <<b, p>>]]
Before(d, e)     == d[1] < e[1] \/ (d[1] = e[1] /\ d[2] < e[2])

Lists(drafts, c, n) ==
  /\ drafts \in Seq(Nat \X Nat)
  /\ \A i \in DOMAIN drafts : /\ drafts[i][1] \in 1..n /\ IsText(c.blocks[drafts[i][1]])
                              /\ drafts[i][2] \in 1..c.blocks[drafts[i][1]].parts
  /\ \A b \in 1..n : IsText(c.blocks[b]) =>
       \A p \in 1..c.blocks[b].parts : \E i \in DOMAIN drafts : drafts[i] = <<b, p>>
  /\ \A i, j \in DOMAIN drafts : i < j => Before(drafts[i], drafts[j])

(* A text has a draft for each of its parts.                                 *)
LEMMA PartsAre ==
  ASSUME NEW c, c.blocks \in Seq(BlockSet), NEW b \in DOMAIN c.blocks
  PROVE  /\ c.blocks[b].parts \in Nat /\ b \in Nat
         /\ ~IsText(c.blocks[b]) => PartsOf(c)[b] = <<>>
         /\ IsText(c.blocks[b]) => PartsOf(c)[b] = [p \in 1..c.blocks[b].parts |-> <<b, p>>]
         /\ PartsOf(c)[b] \in Seq(Nat \X Nat)
<1>1. c.blocks[b] \in BlockSet /\ b \in Nat
  OBVIOUS
<1>2. c.blocks[b].parts \in Nat
  BY <1>1 DEF BlockSet
<1>3. PICK n \in Nat : n = c.blocks[b].parts
  BY <1>2
<1>4. [p \in 1..n |-> <<b, p>>] \in Seq(Nat \X Nat)
  BY <1>1
<1>5. <<>> \in Seq(Nat \X Nat)
  OBVIOUS
<1>6. PartsOf(c)[b] = IF IsText(c.blocks[b]) THEN [p \in 1..n |-> <<b, p>>] ELSE <<>>
  BY <1>3 DEF PartsOf, IsText
<1>7. QED
  BY <1>1, <1>2, <1>3, <1>4, <1>5, <1>6

LEMMA ListsMore ==
  ASSUME NEW c, c.blocks \in Seq(BlockSet), NEW n \in Nat, n + 1 \in DOMAIN c.blocks, NEW drafts, Lists(drafts, c, n)
  PROVE  Lists(drafts \o PartsOf(c)[n + 1], c, n + 1)
<1> DEFINE b == n + 1
           new == PartsOf(c)[b]
           block == c.blocks[b]
<1>1. /\ block.parts \in Nat /\ (~IsText(block) => new = <<>>) /\ (IsText(block) => new = [p \in 1..block.parts |-> <<b, p>>])
      /\ new \in Seq(Nat \X Nat) /\ drafts \in Seq(Nat \X Nat) /\ b \in Nat
  BY PartsAre DEF Lists
<1> HIDE DEF new, block
<1>2. CASE ~IsText(block)
  <2>1. drafts \o new = drafts
    BY <1>1, <1>2
  <2>2. \A x \in 1..n : x \in 1..b
    BY <1>1
  <2>3. \A x \in 1..b : x \in 1..n \/ x = b
    BY <1>1
  <2>4. Lists(drafts, c, b)
    BY <1>2, <2>2, <2>3 DEF Lists, block
  <2>5. QED
    BY <2>1, <2>4 DEF new
<1>3. CASE IsText(block)
  <2> DEFINE all == drafts \o new
  <2>1. PICK l \in Nat, m \in Nat : l = Len(drafts) /\ m = block.parts
    BY <1>1
  <2>2. Len(new) = m /\ \A p \in 1..m : new[p] = <<b, p>>
    BY <1>1, <1>3, <2>1
  <2>3. /\ DOMAIN all = 1..(l + m) /\ DOMAIN drafts = 1..l /\ all \in Seq(Nat \X Nat)
        /\ \A i \in 1..l : all[i] = drafts[i]
        /\ \A p \in 1..m : all[l + p] = <<b, p>>
    <3>1. DOMAIN all = 1..(l + m)
      <4>1. DOMAIN (drafts \o new) = 1..(Len(drafts) + Len(new))
        BY <1>1, Joined
      <4>2. QED
        BY <2>1, <2>2, <4>1
    <3>2. \A i \in 1..l : all[i] = drafts[i]
      BY <1>1, <2>1, Joined
    <3>3. \A p \in 1..m : all[l + p] = <<b, p>>
      BY <1>1, <2>1, <2>2, Joined
    <3>4. all \in Seq(Nat \X Nat) /\ DOMAIN drafts = 1..l
      BY <1>1, <2>1
    <3>5. QED
      BY <3>1, <3>2, <3>3, <3>4
  <2> HIDE DEF all
  <2>4. \A i \in 1..(l + m) : i \in 1..l \/ \E p \in 1..m : i = l + p
    <3> TAKE i \in 1..(l + m)
    <3>1. i <= l \/ (i - l \in 1..m /\ i = l + (i - l))
      BY <2>1
    <3>2. QED
      BY <3>1
  <2>5. \A i \in 1..l : /\ all[i][1] \in 1..n /\ IsText(c.blocks[all[i][1]]) /\ all[i][2] \in 1..c.blocks[all[i][1]].parts
    BY <2>3 DEF Lists
  <2>6. \A p \in 1..m : all[l + p][1] = b /\ all[l + p][2] = p
    <3>1. \A p : <<b, p>>[1] = b /\ <<b, p>>[2] = p
      OBVIOUS
    <3>2. QED
      BY <2>3, <3>1
  <2>7. \A i \in 1..(l + m) : /\ all[i][1] \in 1..b /\ IsText(c.blocks[all[i][1]])
                              /\ all[i][2] \in 1..c.blocks[all[i][1]].parts
    <3> TAKE i \in 1..(l + m)
    <3>1. CASE i \in 1..l
      <4>1. all[i][1] \in 1..b
        <5>1. \A x \in 1..n : x \in 1..b
          BY <1>1
        <5>2. QED
          BY <2>5, <3>1, <5>1
      <4>2. QED
        BY <2>5, <3>1, <4>1
    <3>2. CASE \E p \in 1..m : i = l + p
      <4>1. PICK p \in 1..m : i = l + p
        BY <3>2
      <4>2. all[i][1] = b /\ all[i][2] = p /\ b \in 1..b
        BY <1>1, <2>6, <4>1
      <4>3. QED
        BY <1>3, <2>1, <4>2 DEF block
    <3>3. QED
      BY <2>4, <3>1, <3>2
  <2>8. ASSUME NEW x \in 1..b, IsText(c.blocks[x]), NEW p \in 1..c.blocks[x].parts
        PROVE  \E i \in 1..(l + m) : all[i] = <<x, p>>
    <3>1. CASE x = b
      <4>1. p \in 1..m
        BY <2>1, <2>8, <3>1 DEF block
      <4>2. l + p \in 1..(l + m)
        BY <4>1
      <4>3. QED
        BY <2>3, <3>1, <4>1, <4>2
    <3>2. CASE x # b
      <4>1. x \in 1..n
        BY <1>1, <3>2
      <4>2. PICK i \in 1..l : drafts[i] = <<x, p>>
        BY <2>3, <2>8, <4>1 DEF Lists
      <4>3. i \in 1..(l + m)
        BY <4>2
      <4>4. QED
        BY <2>3, <4>2, <4>3
    <3>3. QED
      BY <3>1, <3>2
  <2>9. ASSUME NEW i \in 1..(l + m), NEW j \in 1..(l + m), i < j PROVE Before(all[i], all[j])
    <3>1. CASE i \in 1..l /\ j \in 1..l
      BY <2>3, <2>9, <3>1 DEF Lists
    <3>2. CASE i \in 1..l /\ \E p \in 1..m : j = l + p
      <4>1. PICK p \in 1..m : j = l + p
        BY <3>2
      <4>2. all[i][1] \in 1..n /\ all[j][1] = b
        BY <2>5, <2>6, <3>2, <4>1
      <4>3. all[i][1] < all[j][1]
        BY <4>2
      <4>4. QED
        BY <4>3 DEF Before
    <3>3. CASE \E o, p \in 1..m : i = l + o /\ j = l + p
      <4>1. PICK o \in 1..m, p \in 1..m : i = l + o /\ j = l + p
        BY <3>3
      <4>2. all[i][1] = b /\ all[i][2] = o /\ all[j][1] = b /\ all[j][2] = p
        BY <2>6, <4>1
      <4>3. o < p
        BY <2>1, <2>9, <4>1
      <4>4. all[i][1] = all[j][1] /\ all[i][2] < all[j][2]
        BY <4>2, <4>3
      <4>5. QED
        BY <4>4 DEF Before
    <3>4. CASE j \in 1..l /\ \E p \in 1..m : i = l + p
      BY <2>1, <2>9, <3>4
    <3>5. QED
      BY <2>4, <3>1, <3>2, <3>3, <3>4
  <2>10. QED
    BY <2>3, <2>7, <2>8, <2>9 DEF Lists, all, new
<1>4. QED
  BY <1>2, <1>3

(* Every part of a text once, and in order.                                  *)
LEMMA DraftsAre ==
  ASSUME NEW c, c.blocks \in Seq(BlockSet)
  PROVE  Lists(Drafts(c), c, Len(c.blocks))
<1> DEFINE l == Len(c.blocks)
           F == PartsOf(c)
           Bad == {n \in 0..l : ~Lists(Flat(F, n), c, n)}
<1>1. l \in Nat /\ DOMAIN c.blocks = 1..l
  OBVIOUS
<1>2. \A b \in 1..l : F[b] \in Seq(Nat \X Nat)
  BY <1>1, PartsAre
<1>3. Drafts(c) = Flat(F, l)
  <2>1. F = [i \in 1..l |-> F[i]]
    BY <1>1 DEF PartsOf
  <2>2. Drafts(c) = FlattenSeq(F)
    BY DEF Drafts, PartsOf
  <2>3. QED
    BY <2>1, <2>2 DEF Flat
<1> HIDE DEF F, l
<1>4. SUFFICES ASSUME Bad # {} PROVE FALSE
  <2>1. l \in 0..l
    BY <1>1
  <2>2. QED
    BY <1>3, <2>1 DEF l
<1>5. PICK n \in Bad : \A m \in Bad : n <= m
  <2>1. Bad \in SUBSET Nat
    BY <1>1
  <2>2. QED
    BY <1>4, <2>1, Least
<1>6. CASE n = 0
  <2>1. Flat(F, 0) = <<>>
    <3>1. [i \in 1..0 |-> F[i]] = <<>>
      OBVIOUS
    <3>2. QED
      BY <3>1, FlattenEmpty DEF Flat
  <2>2. Lists(<<>>, c, 0)
    <3>1. <<>> \in Seq(Nat \X Nat) /\ DOMAIN <<>> = {} /\ 1..0 = {}
      OBVIOUS
    <3>2. QED
      BY <3>1 DEF Lists
  <2>3. QED
    BY <1>5, <1>6, <2>1, <2>2
<1>7. CASE n # 0
  <2>1. PICK p \in Nat : n = p + 1 /\ p \in 0..l /\ p + 1 \in 1..l
    <3>1. n - 1 \in Nat /\ n = (n - 1) + 1 /\ n - 1 \in 0..l /\ (n - 1) + 1 \in 1..l
      BY <1>1, <1>5, <1>7
    <3>2. QED
      BY <3>1
  <2>2. Lists(Flat(F, p), c, p)
    BY <1>5, <2>1
  <2>3. Flat(F, p + 1) = Flat(F, p) \o F[p + 1]
    <3>1. \A i \in 1..(p + 1) : F[i] \in Seq(Nat \X Nat)
      BY <1>1, <1>2, <2>1
    <3>2. QED
      BY <2>1, <3>1, FlatIs
  <2>4. Lists(Flat(F, p) \o F[p + 1], c, p + 1)
    BY <1>1, <2>1, <2>2, ListsMore DEF F
  <2>5. QED
    BY <1>5, <2>1, <2>3, <2>4
<1>8. QED
  BY <1>6, <1>7

-------------------------------------------------------------------------------
(* The blocks and sections of what a file is parsed to.                      *)
Bound(chapters) ==
  \A k \in DOMAIN chapters : chapters[k].blocks \in Seq(BlockSet) /\ chapters[k].sections \in Seq(SectionSet)

LEMMA NoteBlockIs ==
  ASSUME NEW n \in Notes
  PROVE  /\ NoteBlock(n) \in BlockSet /\ NoteBlock(n).type = "note" /\ NoteBlock(n).text = Note(n)
         /\ NoteBlock(n).parts = 1 /\ NoteBlock(n).note = n
<1>1. n \in NoteIds /\ Note(n) \in TextSet /\ 0 \in NoteIds
  BY TextsAre DEF NoteIds
<1>2. QED
  BY <1>1 DEF NoteBlock, BlockSet, Levels

(* What is stored is typed.                                                  *)
LEMMA LaidTyped ==
  ASSUME NEW book, NEW cs, NEW num, Laid(book, cs, num)
  PROVE  Bound(book.chapters)
<1> SUFFICES ASSUME NEW k \in 1..Len(cs) PROVE book.chapters[k].blocks \in Seq(BlockSet) /\ book.chapters[k].sections \in Seq(SectionSet)
  BY LaidIs DEF Bound
<1>1. cs[k] \in ChapterSet /\ NotesHere(cs, k) \in Seq(Notes)
      /\ book.chapters[k].blocks = cs[k].blocks \o NoteBlocksOf(NotesHere(cs, k))
      /\ book.chapters[k].sections = cs[k].sections
  BY LaidIs
<1>2. cs[k].blocks \in Seq(BlockSet) /\ cs[k].sections \in Seq(SectionSet)
  BY <1>1 DEF ChapterSet
<1>3. PICK notes \in Seq(Notes) : notes = NotesHere(cs, k)
  BY <1>1
<1>4. PICK l \in Nat : l = Len(notes) /\ DOMAIN notes = 1..l
  BY <1>3
<1>5. NoteBlocksOf(notes) \in Seq(BlockSet)
  <2>1. \A n \in 1..l : NoteBlock(notes[n]) \in BlockSet
    BY <1>3, <1>4, NoteBlockIs
  <2>2. NoteBlocksOf(notes) = [n \in 1..l |-> NoteBlock(notes[n])]
    BY <1>4 DEF NoteBlocksOf
  <2>3. QED
    BY <1>4, <2>1, <2>2
<1>6. QED
  BY <1>1, <1>2, <1>3, <1>5

-------------------------------------------------------------------------------
(* The heading segments (ensure_structural_heading_segments).                *)

(* The heading segments of Documents.                                        *)

(* The positions of a chapter's texts, and the segment that a job adds for a *)
(* heading of it when it has read none for any.                              *)
TextPositions(k) == {r.position : r \in {q \in rows : q.chapter = k /\ q.key = None}}
Keys(k)          == Structural(parsed.chapters[k])
Place(k, key)    == Allocated(TextPositions(k), Keys(k), key)

Added(h, k, key) ==
  [chapter |-> k, position |-> Place(k, key), block |-> 0, key |-> key,
   text |-> TitleOf(parsed.chapters[k], key), part |-> 1, state |-> "source", by |-> h]

AddedAll(h, k) == {Added(h, k, key) : key \in Keys(k)}

IsRow(r) ==
  \E k, p, b, key, t, n, s, h :
    r = [chapter |-> k, position |-> p, block |-> b, key |-> key, text |-> t, part |-> n, state |-> s, by |-> h]

(* A chapter has a segment for all of its headings or for none, each at the  *)
(* position that every job would give it; and so have the additions of a job *)
(* that has not yet committed.                                               *)
Complete ==
  \A r \in rows :
    /\ IsRow(r)
    /\ r.key # None => /\ r.key \in Keys(r.chapter) /\ r.position = Place(r.chapter, r.key)
                       /\ \A key \in Keys(r.chapter) : \E q \in rows : q.chapter = r.chapter /\ q.key = key

Additions ==
  /\ DOMAIN heading = HeadingJobs
  /\ \A h \in HeadingJobs : \A a \in heading[h].adds :
       \E k : a \in AddedAll(h, k) /\ \A b \in AddedAll(h, k) : b \in heading[h].adds
  /\ parsed = NoBook => \A h \in HeadingJobs : heading[h].adds = {}

HeadingsInv == Complete /\ Additions /\ HeadingsAreSegmentedOnce

(* A heading has a key, and a text has none.                                 *)
LEMMA KeyIs == \A k : None \notin Keys(k)
  BY DEF None, Keys, Structural

(* What a job adds for a heading.                                            *)
LEMMA AddedIs ==
  ASSUME NEW h, NEW k, NEW a \in AddedAll(h, k)
  PROVE  /\ IsRow(a) /\ a.chapter = k /\ a.key \in Keys(k) /\ a.position = Place(k, a.key)
         /\ a = Added(h, k, a.key)
<1>1. PICK key \in Keys(k) : a = Added(h, k, key)
  BY DEF AddedAll
<1>2. a.chapter = k /\ a.key = key /\ a.position = Place(k, key)
  BY <1>1 DEF Added
<1>3. IsRow(a)
  BY <1>1 DEF Added, IsRow
<1>4. QED
  BY <1>1, <1>2, <1>3

(* What a job adds to a chapter: all of its headings or nothing.             *)
LEMMA AllOrNothing ==
  ASSUME HeadingsInv, NEW h, NEW k
  PROVE  NewHeadings(h, k) = {} \/ NewHeadings(h, k) = AddedAll(h, k)
<1>1. CASE \E r \in rows : r.chapter = k /\ r.key # None
  <2>1. PICK r \in rows : r.chapter = k /\ r.key # None
    BY <1>1
  <2>2. \A key \in Keys(k) : \E q \in rows : q.chapter = k /\ q.key = key
    BY <2>1 DEF HeadingsInv, Complete
  <2>3. {key \in Keys(k) : \A q \in {p \in rows : p.chapter = k} : q.key # key} = {}
    BY <2>2
  <2>4. QED
    BY <2>3 DEF NewHeadings, Keys
<1>2. CASE \A r \in rows : r.chapter = k => r.key = None
  <2>1. {key \in Keys(k) : \A q \in {p \in rows : p.chapter = k} : q.key # key} = Keys(k)
    BY <1>2, KeyIs
  <2>2. {r.position : r \in {q \in rows : q.chapter = k}} = TextPositions(k)
    BY <1>2 DEF TextPositions
  <2>3. QED
    BY <2>1, <2>2 DEF NewHeadings, AddedAll, Added, Place, Keys
<1>3. QED
  BY <1>1, <1>2

(* Nothing is segmented at the start.                                        *)
LEMMA HeadingsInit == DocumentInit => HeadingsInv
  BY DEF DocumentInit, AtStart, HeadingsInv, Complete, Additions, HeadingsAreSegmentedOnce

(* The rows stay as they are.                                                *)
LEMMA RowsStay ==
  ASSUME HeadingsInv, UNCHANGED <<parsed, rows>>, Additions'
  PROVE  HeadingsInv'
  BY DEF HeadingsInv, Complete, HeadingsAreSegmentedOnce, Keys, Place, TextPositions

LEMMA AdditionsStay ==
  ASSUME HeadingsInv, UNCHANGED <<parsed, heading>>, \A k : TextPositions(k)' = TextPositions(k)
  PROVE  Additions'
<1>1. \A h, k : AddedAll(h, k)' = AddedAll(h, k)
  BY DEF AddedAll, Added, Place, Keys
<1>2. QED
  BY <1>1 DEF HeadingsInv, Additions

(* A job adds the headings of the chapters that have none.                   *)
LEMMA AddHeadingsKeeps ==
  ASSUME HeadingsInv, NEW j \in HeadingJobs, AddHeadings(j)
  PROVE  HeadingsInv'
<1>1. PICK k : k = heading[j].chapter /\ k \in DOMAIN parsed.chapters
  BY DEF AddHeadings
<1>2. PICK adds : adds = heading[j].adds \union NewHeadings(j, k)
  OBVIOUS
<1>3. heading' = [heading EXCEPT ![j] = [chapter |-> k + 1, adds |-> adds]] /\ UNCHANGED <<parsed, rows>>
  BY <1>1, <1>2 DEF AddHeadings
<1>4. /\ DOMAIN heading' = HeadingJobs /\ heading'[j].adds = adds
      /\ \A h \in HeadingJobs : h # j => heading'[h] = heading[h]
  BY <1>3 DEF HeadingsInv, Additions
<1>5. \A h, k2 : AddedAll(h, k2)' = AddedAll(h, k2)
  BY <1>3 DEF AddedAll, Added, Place, Keys, TextPositions
<1>6. parsed # NoBook
  BY <1>1 DEF NoBook
<1>7. ASSUME NEW a \in adds
      PROVE  \E c : a \in AddedAll(j, c) /\ \A b \in AddedAll(j, c) : b \in adds
  <2>1. CASE a \in heading[j].adds
    BY <1>2, <2>1 DEF HeadingsInv, Additions
  <2>2. CASE a \in NewHeadings(j, k)
    BY <1>2, <2>2, AllOrNothing
  <2>3. QED
    BY <1>2, <1>7, <2>1, <2>2
<1>8. ASSUME NEW h \in HeadingJobs, NEW a \in heading'[h].adds
      PROVE  \E c : a \in AddedAll(h, c)' /\ \A b \in AddedAll(h, c)' : b \in heading'[h].adds
  BY <1>4, <1>5, <1>7, <1>8 DEF HeadingsInv, Additions
<1>9. Additions'
  BY <1>3, <1>4, <1>6, <1>8 DEF Additions
<1>10. QED
  BY <1>3, <1>9, RowsStay

(* A job that commits, or that must start again.                             *)
LEMMA Restarts ==
  ASSUME HeadingsInv, NEW j \in HeadingJobs, heading' = [heading EXCEPT ![j] = AtStart],
         UNCHANGED parsed, \A k : TextPositions(k)' = TextPositions(k)
  PROVE  Additions'
<1>1. /\ DOMAIN heading' = HeadingJobs /\ heading'[j].adds = {}
      /\ \A h \in HeadingJobs : h # j => heading'[h] = heading[h]
  BY DEF HeadingsInv, Additions, AtStart
<1>2. \A h, k : AddedAll(h, k)' = AddedAll(h, k)
  BY DEF AddedAll, Added, Place, Keys
<1>3. QED
  BY <1>1, <1>2 DEF HeadingsInv, Additions

(* It collides with what another committed.                                  *)
LEMMA HeadingsCollideKeeps ==
  ASSUME HeadingsInv, NEW j \in HeadingJobs, HeadingsCollide(j)
  PROVE  HeadingsInv'
<1>1. heading' = [heading EXCEPT ![j] = AtStart] /\ UNCHANGED <<parsed, rows>>
  BY DEF HeadingsCollide
<1>2. \A k : TextPositions(k)' = TextPositions(k)
  BY <1>1 DEF TextPositions
<1>3. QED
  BY <1>1, <1>2, Restarts, RowsStay

(* A chapter that has headings refuses them a second time: each would be at  *)
(* the position of the first.                                                *)
LEMMA CommitHeadingsKeeps ==
  ASSUME HeadingsInv, NEW j \in HeadingJobs, CommitHeadings(j)
  PROVE  HeadingsInv'
<1>1. PICK adds : adds = heading[j].adds
  OBVIOUS
<1>2. /\ ~Collide(adds) /\ rows' = rows \union adds /\ parsed' = parsed
      /\ heading' = [heading EXCEPT ![j] = AtStart]
  BY <1>1 DEF CommitHeadings
<1>3. \A a \in adds : \E k : a \in AddedAll(j, k) /\ \A b \in AddedAll(j, k) : b \in adds
  BY <1>1 DEF HeadingsInv, Additions
<1>4. ASSUME NEW a \in adds
      PROVE  /\ IsRow(a) /\ a.key # None /\ a.key \in Keys(a.chapter) /\ a.position = Place(a.chapter, a.key)
             /\ a = Added(j, a.chapter, a.key)
             /\ \A key \in Keys(a.chapter) : \E b \in adds : b.chapter = a.chapter /\ b.key = key
  <2>1. PICK k : a \in AddedAll(j, k) /\ \A b \in AddedAll(j, k) : b \in adds
    BY <1>3
  <2>2. IsRow(a) /\ a.chapter = k /\ a.key \in Keys(k) /\ a.position = Place(k, a.key) /\ a = Added(j, k, a.key)
    BY <2>1, AddedIs
  <2>3. ASSUME NEW key \in Keys(k) PROVE \E b \in adds : b.chapter = k /\ b.key = key
    <3>1. Added(j, k, key) \in AddedAll(j, k)
      BY DEF AddedAll
    <3>2. Added(j, k, key).chapter = k /\ Added(j, k, key).key = key
      BY DEF Added
    <3>3. QED
      BY <2>1, <3>1, <3>2
  <2>4. QED
    BY <2>2, <2>3, KeyIs
<1>5. ASSUME NEW a \in adds, NEW r \in rows, r.chapter = a.chapter, r.key # None PROVE FALSE
  <2>1. PICK q \in rows : q.chapter = a.chapter /\ q.key = a.key
    BY <1>4, <1>5 DEF HeadingsInv, Complete
  <2>2. q.position = a.position
    BY <1>4, <2>1 DEF HeadingsInv, Complete
  <2>3. QED
    BY <1>2, <2>1, <2>2 DEF Collide
<1>6. ASSUME NEW k PROVE TextPositions(k)' = TextPositions(k)
  <2>1. {q \in rows' : q.chapter = k /\ q.key = None} = {q \in rows : q.chapter = k /\ q.key = None}
    BY <1>2, <1>4
  <2>2. QED
    BY <2>1 DEF TextPositions
<1>7. Additions'
  BY <1>2, <1>6, Restarts
<1>8. \A k, key : Keys(k)' = Keys(k) /\ Place(k, key)' = Place(k, key)
  BY <1>2, <1>6 DEF Place, Keys
<1>9. Complete'
  <2>1. ASSUME NEW r \in rows'
        PROVE  /\ IsRow(r)
               /\ r.key # None => /\ r.key \in Keys(r.chapter) /\ r.position = Place(r.chapter, r.key)
                                  /\ \A key \in Keys(r.chapter) : \E q \in rows' : q.chapter = r.chapter /\ q.key = key
    <3>1. CASE r \in rows
      BY <1>2, <3>1 DEF HeadingsInv, Complete
    <3>2. CASE r \in adds
      BY <1>2, <1>4, <3>2
    <3>3. QED
      BY <1>2, <2>1, <3>1, <3>2
  <2>2. QED
    BY <1>8, <2>1 DEF Complete
<1>10. HeadingsAreSegmentedOnce'
  <2>1. ASSUME NEW r \in rows', NEW q \in rows', r.chapter = q.chapter, r.key = q.key, r.key # None
        PROVE  r = q
    <3>1. CASE r \in rows /\ q \in rows
      BY <2>1, <3>1 DEF HeadingsInv, HeadingsAreSegmentedOnce
    <3>2. CASE r \in adds /\ q \in adds
      BY <1>4, <2>1, <3>2
    <3>3. QED
      BY <1>2, <1>5, <2>1, <3>1, <3>2
  <2>2. QED
    BY <2>1 DEF HeadingsAreSegmentedOnce
<1>11. QED
  BY <1>7, <1>9, <1>10 DEF HeadingsInv

(* The document is stored, and a row is translated.                          *)
LEMMA StoreDocumentKeeps ==
  ASSUME HeadingsInv, StoreDocument
  PROVE  HeadingsInv'
<1>1. heading' = heading /\ parsed = NoBook
  BY DEF StoreDocument
<1>2. ASSUME NEW r \in rows' PROVE IsRow(r) /\ r.key = None
  <2>1. PICK k \in DOMAIN parsed'.chapters : r \in SegmentChapter(k, parsed'.chapters[k])
    BY <1>2 DEF StoreDocument
  <2>2. PICK n : r = [chapter |-> k, position |-> n - 1, block |-> Drafts(parsed'.chapters[k])[n][1], key |-> None,
                      text |-> parsed'.chapters[k].blocks[Drafts(parsed'.chapters[k])[n][1]].text,
                      part |-> Drafts(parsed'.chapters[k])[n][2], state |-> "source", by |-> "upload"]
    BY <2>1 DEF SegmentChapter
  <2>3. QED
    BY <2>2 DEF IsRow
<1>3. Complete' /\ HeadingsAreSegmentedOnce'
  BY <1>2 DEF Complete, HeadingsAreSegmentedOnce
<1>4. Additions'
  BY <1>1 DEF HeadingsInv, Additions
<1>5. QED
  BY <1>3, <1>4 DEF HeadingsInv

LEMMA TranslateRowKeeps ==
  ASSUME HeadingsInv, NEW r \in rows, TranslateRow(r)
  PROVE  HeadingsInv'
<1>1. PICK s, z : z = [r EXCEPT !.state = s] /\ rows' = (rows \ {r}) \union {z}
  BY DEF TranslateRow
<1>2. parsed' = parsed /\ heading' = heading
  BY DEF TranslateRow
<1>3. IsRow(z) /\ z.chapter = r.chapter /\ z.position = r.position /\ z.key = r.key
  <2>1. IsRow(r)
    BY DEF HeadingsInv, Complete
  <2>2. PICK k, p, b, key, t, n, u, h :
          r = [chapter |-> k, position |-> p, block |-> b, key |-> key, text |-> t, part |-> n, state |-> u, by |-> h]
    BY <2>1 DEF IsRow
  <2>3. z = [chapter |-> k, position |-> p, block |-> b, key |-> key, text |-> t, part |-> n, state |-> s, by |-> h]
    BY <1>1, <2>2
  <2>4. QED
    BY <2>2, <2>3 DEF IsRow
<1>4. ASSUME NEW k PROVE TextPositions(k)' = TextPositions(k)
  <2>1. ASSUME NEW p PROVE (\E q \in rows' : q.chapter = k /\ q.key = None /\ q.position = p)
                             <=> \E q \in rows : q.chapter = k /\ q.key = None /\ q.position = p
    BY <1>1, <1>3
  <2>2. \A p : p \in TextPositions(k) <=> \E q \in rows : q.chapter = k /\ q.key = None /\ q.position = p
    BY DEF TextPositions
  <2>3. \A p : p \in TextPositions(k)' <=> \E q \in rows' : q.chapter = k /\ q.key = None /\ q.position = p
    BY DEF TextPositions
  <2>4. PICK S, T : S = TextPositions(k) /\ T = TextPositions(k)'
    OBVIOUS
  <2>5. \A p : p \in S <=> p \in T
    BY <2>1, <2>2, <2>3, <2>4
  <2>6. S = T
    BY <2>5
  <2>7. QED
    BY <2>4, <2>6
<1>5. Additions'
  BY <1>2, <1>4, AdditionsStay
<1>6. \A k, key : Keys(k)' = Keys(k) /\ Place(k, key)' = Place(k, key)
  BY <1>2, <1>4 DEF Place, Keys
<1>7. Complete'
  <2>1. ASSUME NEW q \in rows, NEW key \in Keys(q.chapter), q.key # None
        PROVE  \E x \in rows' : x.chapter = q.chapter /\ x.key = key
    <3>1. PICK x \in rows : x.chapter = q.chapter /\ x.key = key
      BY <2>1 DEF HeadingsInv, Complete
    <3>2. CASE x = r
      BY <1>1, <1>3, <3>1, <3>2
    <3>3. CASE x # r
      BY <1>1, <3>1, <3>3
    <3>4. QED
      BY <3>2, <3>3
  <2>2. ASSUME NEW q \in rows'
        PROVE  /\ IsRow(q)
               /\ q.key # None => /\ q.key \in Keys(q.chapter) /\ q.position = Place(q.chapter, q.key)
                                  /\ \A key \in Keys(q.chapter) : \E x \in rows' : x.chapter = q.chapter /\ x.key = key
    <3>1. CASE q = z
      <4>1. z.key # None => r.key \in Keys(r.chapter) /\ r.position = Place(r.chapter, r.key)
        BY <1>3 DEF HeadingsInv, Complete
      <4>2. QED
        BY <1>3, <2>1, <3>1, <4>1
    <3>2. CASE q # z
      <4>1. q \in rows
        BY <1>1, <2>2, <3>2
      <4>2. QED
        BY <2>1, <4>1 DEF HeadingsInv, Complete
    <3>3. QED
      BY <3>1, <3>2
  <2>3. QED
    BY <1>6, <2>2 DEF Complete
<1>8. HeadingsAreSegmentedOnce'
  <2>1. ASSUME NEW x \in rows', NEW q \in rows', x.chapter = q.chapter, x.key = q.key, x.key # None
        PROVE  x = q
    <3>1. \A y \in rows' : y = z \/ (y \in rows /\ y # r)
      BY <1>1
    <3>2. \A y, w \in rows : y.chapter = w.chapter /\ y.key = w.key /\ y.key # None => y = w
      BY DEF HeadingsInv, HeadingsAreSegmentedOnce
    <3>3. QED
      BY <1>3, <2>1, <3>1, <3>2
  <2>2. QED
    BY <2>1 DEF HeadingsAreSegmentedOnce
<1>9. QED
  BY <1>5, <1>7, <1>8 DEF HeadingsInv

(* Every step keeps it.                                                      *)
LEMMA HeadingsKeep == HeadingsInv /\ [DocumentNext]_documentVars => HeadingsInv'
<1> SUFFICES ASSUME HeadingsInv, [DocumentNext]_documentVars PROVE HeadingsInv'
  OBVIOUS
<1>1. CASE (\E f \in Formats : Choose(f)) \/ Write \/ UNCHANGED documentVars
  <2>1. UNCHANGED <<parsed, rows, heading>>
    BY <1>1 DEF Choose, Write, documentVars
  <2>2. \A k : TextPositions(k)' = TextPositions(k)
    BY <2>1 DEF TextPositions
  <2>3. QED
    BY <2>1, <2>2, AdditionsStay, RowsStay
<1>2. CASE StoreDocument
  BY <1>2, StoreDocumentKeeps
<1>3. ASSUME NEW h \in HeadingJobs, AddHeadings(h) \/ CommitHeadings(h) \/ HeadingsCollide(h)
      PROVE  HeadingsInv'
  BY <1>3, AddHeadingsKeeps, CommitHeadingsKeeps, HeadingsCollideKeeps
<1>4. ASSUME NEW r \in rows, TranslateRow(r) PROVE HeadingsInv'
  BY <1>4, TranslateRowKeeps
<1>5. QED
  BY <1>1, <1>2, <1>3, <1>4 DEF DocumentNext

(* However many translation jobs start on one book at the same time, and     *)
(* whatever the file: a heading has one segment. Either a job finds the      *)
(* segments of all the chapter's headings, or it gives the headings the same *)
(* positions as any other job, and uq_segment_chapter_position refuses all   *)
(* but the first: ensure_structural_heading_segments.                        *)
THEOREM HeadingsOnce == DocumentSpec => []HeadingsAreSegmentedOnce
<1>1. HeadingsInv /\ [DocumentNext]_documentVars => HeadingsInv'
  BY HeadingsKeep
<1>2. HeadingsInv => HeadingsAreSegmentedOnce
  BY DEF HeadingsInv
<1>3. QED
  BY <1>1, <1>2, HeadingsInit, PTL DEF DocumentSpec

-------------------------------------------------------------------------------
(* The invariant: the file, the headings, and the rows that have the texts.  *)

(* The file that is read, and that was parsed.                               *)
FileInv ==
  /\ format \in Formats \union {"none"}
  /\ format = "none" => file = <<>> /\ parsed = NoBook
  /\ format # "none" => file \in Seq(ItemsOf(format))
  /\ parsed # NoBook => parsed = Parse

(* Parse depends on the file only.                                           *)
LEMMA ParseStays ==
  ASSUME UNCHANGED <<format, file>>
  PROVE  Parse' = Parse
  BY DEF Parse, DocxItem, EpubElement

LEMMA ParseBound ==
  ASSUME FileOK
  PROVE  Bound(Parse.chapters)
<1>1. PICK cs, num : Laid(Parse, cs, num)
  BY ParseLays
<1>2. QED
  BY <1>1, LaidTyped

LEMMA FileInit == DocumentInit => FileInv
  BY DEF DocumentInit, FileInv

(* The file that is parsed stays.                                            *)
LEMMA FileKeeps ==
  ASSUME FileInv, [DocumentNext]_documentVars
  PROVE  FileInv'
<1>1. CASE \E f \in Formats : Choose(f)
  <2>1. PICK f \in Formats : Choose(f)
    BY <1>1
  <2>2. format' = f /\ file' = <<>> /\ parsed' = NoBook /\ f # "none"
    BY <2>1 DEF Choose, FileInv, Formats
  <2>3. <<>> \in Seq(ItemsOf(f))
    OBVIOUS
  <2>4. QED
    BY <2>2, <2>3 DEF FileInv
<1>2. CASE Write
  <2>1. format # "none" /\ parsed = NoBook /\ format' = format /\ parsed' = parsed
    BY <1>2 DEF Write
  <2>2. PICK item \in ItemsOf(format) : file' = Append(file, item)
    BY <1>2 DEF Write
  <2>3. file' \in Seq(ItemsOf(format))
    BY <2>1, <2>2 DEF FileInv
  <2>4. QED
    BY <2>1, <2>3 DEF FileInv
<1>3. CASE StoreDocument
  <2>1. format # "none" /\ format' = format /\ file' = file /\ parsed' = Parse
    BY <1>3 DEF StoreDocument
  <2>2. Parse' = Parse
    BY <2>1, ParseStays
  <2>3. QED
    BY <2>1, <2>2 DEF FileInv
<1>4. CASE UNCHANGED <<format, file, parsed>>
  <2>1. Parse' = Parse
    BY <1>4, ParseStays
  <2>2. QED
    BY <1>4, <2>1 DEF FileInv
<1>5. ASSUME NEW h \in HeadingJobs, AddHeadings(h) \/ CommitHeadings(h) \/ HeadingsCollide(h)
      PROVE  UNCHANGED <<format, file, parsed>>
  BY <1>5 DEF AddHeadings, CommitHeadings, HeadingsCollide
<1>6. ASSUME NEW r \in rows, TranslateRow(r) PROVE UNCHANGED <<format, file, parsed>>
  BY <1>6 DEF TranslateRow
<1>7. UNCHANGED documentVars => UNCHANGED <<format, file, parsed>>
  BY DEF documentVars
<1>8. QED
  BY <1>1, <1>2, <1>3, <1>4, <1>5, <1>6, <1>7 DEF DocumentNext

(* What was parsed is laid out as the file is.                               *)
LEMMA ParsedIs ==
  ASSUME FileInv, parsed # NoBook
  PROVE  FileOK /\ parsed = Parse /\ Bound(parsed.chapters) /\ \E cs, num : Laid(parsed, cs, num)
<1>1. FileOK /\ parsed = Parse
  BY DEF FileInv, FileOK
<1>2. QED
  BY <1>1, ParseBound, ParseLays

BlocksAt(k) == parsed.chapters[k].blocks

(* A row is a part of a text, or a heading.                                  *)
TextRow(r) ==
  /\ r.chapter \in DOMAIN parsed.chapters /\ r.block \in DOMAIN BlocksAt(r.chapter)
  /\ IsText(BlocksAt(r.chapter)[r.block]) /\ r.block # 0
  /\ r.key = None /\ r.text = BlocksAt(r.chapter)[r.block].text
  /\ r.part \in 1..BlocksAt(r.chapter)[r.block].parts /\ r.position \in Int
  /\ r.state = "bent" => BlocksAt(r.chapter)[r.block].type = "table"

HeadingRow(r) ==
  /\ r.chapter \in DOMAIN parsed.chapters /\ r.block = 0
  /\ r.key \in Keys(r.chapter) /\ r.text = TitleOf(parsed.chapters[r.chapter], r.key)
  /\ r.part = 1 /\ r.state # "bent" /\ r.position \in Int

(* Every part of a text has its row, and the rows of a text are in the order *)
(* of its parts.                                                             *)
AllParts ==
  \A k \in DOMAIN parsed.chapters : \A b \in DOMAIN BlocksAt(k) : IsText(BlocksAt(k)[b]) =>
    \A p \in 1..BlocksAt(k)[b].parts : \E r \in rows : r.chapter = k /\ r.block = b /\ r.part = p

PartsInOrder ==
  \A r, q \in rows : r.chapter = q.chapter /\ r.block = q.block /\ r.block # 0 =>
    (r.part = q.part => r = q) /\ (r.part < q.part => r.position < q.position)

RowsInv ==
  /\ IsFiniteSet(rows) /\ \A h \in HeadingJobs : IsFiniteSet(heading[h].adds)
  /\ \A r \in rows : TextRow(r) \/ HeadingRow(r)
  /\ AllParts /\ PartsInOrder
  /\ \A h \in HeadingJobs : \A a \in heading[h].adds : HeadingRow(a)

(* No rows at the start.                                                     *)
LEMMA RowsInit == DocumentInit => RowsInv
<1> SUFFICES ASSUME DocumentInit PROVE RowsInv
  OBVIOUS
<1>1. rows = {} /\ parsed.chapters = <<>> /\ DOMAIN <<>> = {} /\ \A h \in HeadingJobs : heading[h].adds = {}
  BY DEF DocumentInit, NoBook, AtStart
<1>2. IsFiniteSet({})
  BY FS_EmptySet
<1>3. QED
  BY <1>1, <1>2 DEF RowsInv, AllParts, PartsInOrder

(* The rows of a chapter that is stored (segment_chapter).                   *)
LEMMA SegmentRows ==
  ASSUME NEW k, NEW c, c.blocks \in Seq(BlockSet)
  PROVE  /\ \A r \in SegmentChapter(k, c) :
              /\ r.chapter = k /\ r.block \in DOMAIN c.blocks /\ IsText(c.blocks[r.block]) /\ r.block # 0
              /\ r.key = None /\ r.text = c.blocks[r.block].text /\ r.part \in 1..c.blocks[r.block].parts
              /\ r.position \in Int /\ r.state = "source"
         /\ \A b \in DOMAIN c.blocks : IsText(c.blocks[b]) =>
              \A p \in 1..c.blocks[b].parts : \E r \in SegmentChapter(k, c) : r.block = b /\ r.part = p
         /\ \A r, q \in SegmentChapter(k, c) : r.block = q.block =>
              (r.part = q.part => r = q) /\ (r.part < q.part => r.position < q.position)
         /\ IsFiniteSet(SegmentChapter(k, c))
<1> DEFINE drafts == Drafts(c)
           Row(n) == [chapter |-> k, position |-> n - 1, block |-> drafts[n][1], key |-> None,
                      text |-> c.blocks[drafts[n][1]].text, part |-> drafts[n][2], state |-> "source", by |-> "upload"]
           l == Len(c.blocks)
<1>1. l \in Nat /\ DOMAIN c.blocks = 1..l
  OBVIOUS
<1>2. Lists(drafts, c, l)
  BY DraftsAre
<1>3. \A r : r \in SegmentChapter(k, c) <=> \E n \in DOMAIN drafts : r = Row(n)
  BY DEF SegmentChapter
<1> HIDE DEF drafts
<1>4. PICK m \in Nat : DOMAIN drafts = 1..m
  BY <1>2 DEF Lists
<1>5. \A n \in 1..m : /\ drafts[n] \in Nat \X Nat /\ drafts[n][1] \in 1..l /\ IsText(c.blocks[drafts[n][1]])
                      /\ drafts[n][2] \in 1..c.blocks[drafts[n][1]].parts
  BY <1>2, <1>4 DEF Lists
<1>6. \A n \in 1..m : /\ Row(n).chapter = k /\ Row(n).position = n - 1 /\ Row(n).block = drafts[n][1] /\ Row(n).key = None
                      /\ Row(n).text = c.blocks[drafts[n][1]].text /\ Row(n).part = drafts[n][2] /\ Row(n).state = "source"
  OBVIOUS
<1> HIDE DEF Row
<1>7. ASSUME NEW r \in SegmentChapter(k, c)
      PROVE  /\ r.chapter = k /\ r.block \in DOMAIN c.blocks /\ IsText(c.blocks[r.block]) /\ r.block # 0
             /\ r.key = None /\ r.text = c.blocks[r.block].text /\ r.part \in 1..c.blocks[r.block].parts
             /\ r.position \in Int /\ r.state = "source"
  <2>1. PICK n \in 1..m : r = Row(n)
    BY <1>3, <1>4
  <2>2. r.block \in 1..l /\ n - 1 \in Int
    BY <1>5, <1>6, <2>1
  <2>3. r.block # 0
    BY <2>2
  <2>4. QED
    BY <1>1, <1>5, <1>6, <2>1, <2>2, <2>3
<1>8. ASSUME NEW b \in DOMAIN c.blocks, IsText(c.blocks[b]), NEW p \in 1..c.blocks[b].parts
      PROVE  \E r \in SegmentChapter(k, c) : r.block = b /\ r.part = p
  <2>1. PICK n \in 1..m : drafts[n] = <<b, p>>
    BY <1>1, <1>2, <1>4, <1>8 DEF Lists
  <2>2. drafts[n][1] = b /\ drafts[n][2] = p
    BY <2>1
  <2>3. Row(n) \in SegmentChapter(k, c) /\ Row(n).block = b /\ Row(n).part = p
    BY <1>3, <1>4, <1>6, <2>1, <2>2
  <2>4. QED
    BY <2>3
<1>9. ASSUME NEW r \in SegmentChapter(k, c), NEW q \in SegmentChapter(k, c), r.block = q.block
      PROVE  (r.part = q.part => r = q) /\ (r.part < q.part => r.position < q.position)
  <2>1. PICK i \in 1..m : r = Row(i)
    BY <1>3, <1>4
  <2>2. PICK j \in 1..m : q = Row(j)
    BY <1>3, <1>4
  <2>3. drafts[i][1] = drafts[j][1] /\ r.part = drafts[i][2] /\ q.part = drafts[j][2]
        /\ r.position = i - 1 /\ q.position = j - 1
    BY <1>6, <1>9, <2>1, <2>2
  <2>4. PICK x \in Nat, y \in Nat, z \in Nat : drafts[i][1] = x /\ drafts[i][2] = y /\ drafts[j][2] = z /\ drafts[j][1] = x
    BY <1>5, <2>3
  <2>5. i < j => y < z
    <3>1. i < j => Before(drafts[i], drafts[j])
      BY <1>2, <1>4 DEF Lists
    <3>2. QED
      BY <2>4, <3>1 DEF Before
  <2>6. j < i => z < y
    <3>1. j < i => Before(drafts[j], drafts[i])
      BY <1>2, <1>4 DEF Lists
    <3>2. QED
      BY <2>4, <3>1 DEF Before
  <2>7. y = z => i = j
    BY <2>5, <2>6
  <2>8. y < z => i < j
    <3>1. i = j => y = z
      BY <2>4
    <3>2. i = j \/ i < j \/ j < i
      BY <1>4
    <3>3. QED
      BY <2>4, <2>6, <3>1, <3>2
  <2>9. QED
    BY <2>1, <2>2, <2>3, <2>4, <2>7, <2>8
<1>10. IsFiniteSet(SegmentChapter(k, c))
  <2> DEFINE f == [n \in 1..m |-> Row(n)]
  <2>1. f \in Surjection(1..m, SegmentChapter(k, c))
    BY <1>3, <1>4 DEF Surjection
  <2>2. IsFiniteSet(1..m)
    BY FS_Interval
  <2>3. QED
    BY <2>1, <2>2, FS_Surjection
<1>11. QED
  BY <1>7, <1>8, <1>9, <1>10

(* So the rows of the document that is stored.                               *)
LEMMA StoreRows ==
  ASSUME HeadingsInv, FileInv, StoreDocument
  PROVE  RowsInv'
<1>1. /\ heading' = heading /\ parsed = NoBook /\ parsed' = Parse /\ FileOK
      /\ rows' = UNION {SegmentChapter(k, parsed'.chapters[k]) : k \in DOMAIN parsed'.chapters}
  BY DEF StoreDocument, FileInv, FileOK
<1>2. PICK chapters : chapters = parsed'.chapters
  OBVIOUS
<1>3. Bound(chapters)
  BY <1>1, <1>2, ParseBound
<1>4. \A k : BlocksAt(k)' = chapters[k].blocks
  BY <1>2 DEF BlocksAt
<1>5. \A r : r \in rows' <=> \E k \in DOMAIN chapters : r \in SegmentChapter(k, chapters[k])
  BY <1>1, <1>2
<1>6. \A k \in DOMAIN chapters : chapters[k].blocks \in Seq(BlockSet)
  BY <1>3 DEF Bound
<1>7. IsFiniteSet(rows')
  <2> DEFINE f == [k \in DOMAIN chapters |-> SegmentChapter(k, chapters[k])]
             T == {SegmentChapter(k, chapters[k]) : k \in DOMAIN chapters}
  <2>1. f \in Surjection(DOMAIN chapters, T)
    BY DEF Surjection
  <2>2. IsFiniteSet(DOMAIN chapters)
    <3>1. PICK cs, num : Laid(Parse, cs, num)
      BY <1>1, ParseLays
    <3>2. DOMAIN chapters = 1..Len(cs) /\ Len(cs) \in Nat
      BY <1>1, <1>2, <3>1, LaidIs
    <3>3. QED
      BY <3>2, FS_Interval
  <2>3. IsFiniteSet(T)
    BY <2>1, <2>2, FS_Surjection
  <2>4. \A S \in T : IsFiniteSet(S)
    <3> SUFFICES ASSUME NEW k \in DOMAIN chapters PROVE IsFiniteSet(SegmentChapter(k, chapters[k]))
      OBVIOUS
    <3>1. PICK c : c = chapters[k] /\ c.blocks \in Seq(BlockSet)
      BY <1>6
    <3>2. IsFiniteSet(SegmentChapter(k, c))
      BY <3>1, SegmentRows
    <3>3. QED
      BY <3>1, <3>2
  <2>5. rows' = UNION T
    BY <1>1, <1>2
  <2>6. QED
    BY <2>3, <2>4, <2>5, FS_UNION
<1>8. ASSUME NEW r \in rows' PROVE TextRow(r)'
  <2>1. PICK k \in DOMAIN chapters : r \in SegmentChapter(k, chapters[k])
    BY <1>5
  <2>2. PICK c : c = chapters[k] /\ c.blocks \in Seq(BlockSet)
    BY <1>6
  <2>3. /\ r.chapter = k /\ r.block \in DOMAIN c.blocks /\ IsText(c.blocks[r.block]) /\ r.block # 0
        /\ r.key = None /\ r.text = c.blocks[r.block].text /\ r.part \in 1..c.blocks[r.block].parts
        /\ r.position \in Int /\ r.state = "source"
    BY <2>1, <2>2, SegmentRows
  <2>4. QED
    BY <1>2, <1>4, <2>2, <2>3 DEF TextRow
<1>9. AllParts'
  <2>1. ASSUME NEW k \in DOMAIN chapters, NEW b \in DOMAIN chapters[k].blocks, IsText(chapters[k].blocks[b]),
               NEW p \in 1..chapters[k].blocks[b].parts
        PROVE  \E r \in rows' : r.chapter = k /\ r.block = b /\ r.part = p
    <3>1. PICK c : c = chapters[k] /\ c.blocks \in Seq(BlockSet)
      BY <1>6
    <3>2. PICK r \in SegmentChapter(k, c) : r.chapter = k /\ r.block = b /\ r.part = p
      BY <2>1, <3>1, SegmentRows
    <3>3. QED
      BY <1>5, <3>1, <3>2
  <2>2. QED
    BY <1>2, <1>4, <2>1 DEF AllParts
<1>10. PartsInOrder'
  <2>1. ASSUME NEW r \in rows', NEW q \in rows', r.chapter = q.chapter, r.block = q.block
        PROVE  (r.part = q.part => r = q) /\ (r.part < q.part => r.position < q.position)
    <3>1. PICK k \in DOMAIN chapters : r \in SegmentChapter(k, chapters[k])
      BY <1>5
    <3>2. PICK j \in DOMAIN chapters : q \in SegmentChapter(j, chapters[j])
      BY <1>5
    <3>3. PICK c : c = chapters[k] /\ c.blocks \in Seq(BlockSet)
      BY <1>6
    <3>4. PICK d : d = chapters[j] /\ d.blocks \in Seq(BlockSet)
      BY <1>6
    <3>5. r.chapter = k
      BY <3>1, <3>3, SegmentRows
    <3>6. q.chapter = j
      BY <3>2, <3>4, SegmentRows
    <3>7. r \in SegmentChapter(k, c) /\ q \in SegmentChapter(k, c)
      BY <2>1, <3>1, <3>2, <3>3, <3>5, <3>6
    <3>8. QED
      BY <2>1, <3>3, <3>7, SegmentRows
  <2>2. QED
    BY <2>1 DEF PartsInOrder
<1>11. \A h \in HeadingJobs : \A a \in heading'[h].adds : HeadingRow(a)'
  BY <1>1 DEF HeadingsInv, Additions
<1>12. \A h \in HeadingJobs : IsFiniteSet(heading'[h].adds)
  BY <1>1, FS_EmptySet DEF HeadingsInv, Additions
<1>13. QED
  BY <1>8, <1>9, <1>10, <1>11, <1>12, <1>7 DEF RowsInv

(* allocate_position finds a position that is left.                          *)
LEMMA AllocatedIs ==
  ASSUME NEW taken, IsFiniteSet(taken), NEW missing, IsFiniteSet(missing), NEW key \in missing, key[2] \in Int
  PROVE  Allocated(taken, missing, key) \in Int
<1> DEFINE a == Cardinality(taken)
           b == Cardinality(missing)
           all == Top..(Top + a + b)
           free == all \ taken
           upto == {m \in missing : m[2] <= key[2]}
           rank == Cardinality(upto)
           id == [x \in free |-> x]
<1>1. a \in Nat /\ b \in Nat /\ Top \in Int
  BY FS_CardinalityType DEF Top
<1> HIDE DEF a, b
<1>2. IsFiniteSet(all) /\ Cardinality(all) = a + b + 1
  <2>1. PICK t \in Int : t = Top
    BY <1>1
  <2>2. IsFiniteSet(t..(t + a + b)) /\ Cardinality(t..(t + a + b)) = (t + a + b) - t + 1
    <3>1. t + a + b \in Int /\ ~(t > t + a + b)
      BY <1>1
    <3>2. QED
      BY <3>1, FS_Interval
  <2>3. (t + a + b) - t + 1 = a + b + 1
    BY <1>1
  <2>4. QED
    BY <2>1, <2>2, <2>3
<1>3. free \subseteq Int /\ \A x \in free : x \in Int
  BY <1>1
<1> HIDE DEF all
<1>4. IsFiniteSet(free) /\ Cardinality(free) \in Nat /\ b < Cardinality(free)
  <2>1. IsFiniteSet(free) /\ Cardinality(free) = Cardinality(all) - Cardinality(all \cap taken)
    BY <1>2, FS_Difference
  <2>2. IsFiniteSet(all \cap taken) /\ Cardinality(all \cap taken) <= a
    BY FS_Intersection DEF a
  <2>3. Cardinality(all \cap taken) \in Nat /\ Cardinality(free) \in Nat
    BY <2>1, <2>2, FS_CardinalityType
  <2>4. QED
    BY <1>1, <1>2, <2>1, <2>2, <2>3
<1>5. rank \in 1..Cardinality(free)
  <2>1. IsFiniteSet(upto) /\ rank <= b
    BY FS_Subset DEF b
  <2>2. key \in upto
    BY DEF upto
  <2>3. rank \in Nat /\ rank # 0
    BY <2>1, <2>2, FS_CardinalityType, FS_EmptySet
  <2> HIDE DEF rank, free
  <2>4. QED
    BY <1>1, <1>4, <2>1, <2>3
<1> HIDE DEF rank
<1>6. PICK x \in free : Cardinality(Below(free, id, x)) = rank - 1
  <2>1. id \in [free -> Int] /\ \A y, z \in free : id[y] = id[z] => y = z
    BY <1>3
  <2> HIDE DEF id, free
  <2>2. \A n \in 1..Cardinality(free) : \E y \in free : Cardinality(Below(free, id, y)) = n - 1
    BY <1>4, <2>1, Ranks
  <2>3. QED
    BY <1>5, <2>2
<1>7. {q \in free : q <= x} = Below(free, id, x) \union {x} /\ x \notin Below(free, id, x)
  BY <1>3 DEF Below
<1>8. Cardinality({q \in free : q <= x}) = rank
  <2>1. IsFiniteSet(Below(free, id, x))
    <3>1. Below(free, id, x) \in SUBSET free
      BY DEF Below
    <3>2. QED
      BY <1>4, <3>1, FS_Subset
  <2>2. Cardinality(Below(free, id, x) \union {x}) = Cardinality(Below(free, id, x)) + 1
    BY <1>7, <2>1, FS_AddElement
  <2>3. (rank - 1) + 1 = rank
    BY <1>4, <1>5
  <2>4. QED
    BY <1>6, <1>7, <2>2, <2>3
<1>9. Allocated(taken, missing, key) = CHOOSE p \in free : Cardinality({q \in free : q <= p}) = rank
  BY DEF Allocated, free, all, rank, upto, a, b
<1>10. Allocated(taken, missing, key) \in free
  BY <1>8, <1>9
<1>11. QED
  BY <1>3, <1>10

LEMMA KeysAre ==
  ASSUME Bound(parsed.chapters), NEW k \in DOMAIN parsed.chapters
  PROVE  IsFiniteSet(Keys(k)) /\ \A key \in Keys(k) : key[2] \in Int
<1>1. PICK n \in Nat : DOMAIN parsed.chapters[k].sections = 1..n
  <2>1. parsed.chapters[k].sections \in Seq(SectionSet)
    BY DEF Bound
  <2>2. QED
    BY <2>1
<1> DEFINE f == [s \in 0..n |-> IF s = 0 THEN <<"chapter", 0>> ELSE <<"section", s>>]
           T == {f[s] : s \in 0..n}
<1>2. IsFiniteSet(T)
  <2>1. f \in Surjection(0..n, T)
    BY DEF Surjection
  <2>2. IsFiniteSet(0..n)
    <3>1. 0 \in Int /\ n \in Int
      OBVIOUS
    <3>2. QED
      BY <3>1, FS_Interval
  <2>3. QED
    BY <2>1, <2>2, FS_Surjection
<1>3. Keys(k) \in SUBSET T
  <2>1. 0 \in 0..n /\ f[0] = <<"chapter", 0>>
    BY <1>1
  <2>2. \A s \in 1..n : s \in 0..n /\ f[s] = <<"section", s>>
    BY <1>1
  <2> HIDE DEF f
  <2>3. QED
    BY <1>1, <2>1, <2>2 DEF Keys, Structural
<1>4. \A key \in Keys(k) : key[2] \in Int
  <2>1. \A key \in Keys(k) : key = <<"chapter", 0>> \/ \E s \in 1..n : key = <<"section", s>>
    BY <1>1 DEF Keys, Structural
  <2>2. QED
    BY <1>1, <2>1
<1>5. QED
  BY <1>2, <1>3, <1>4, FS_Subset

(* Every heading has such a position.                                        *)
LEMMA PlaceIs ==
  ASSUME RowsInv, Bound(parsed.chapters), NEW k \in DOMAIN parsed.chapters, NEW key \in Keys(k)
  PROVE  Place(k, key) \in Int
<1> DEFINE S == {q \in rows : q.chapter = k /\ q.key = None}
           f == [r \in S |-> r.position]
<1>1. IsFiniteSet(S)
  <2>1. S \in SUBSET rows
    OBVIOUS
  <2>2. QED
    BY <2>1, FS_Subset DEF RowsInv
<1>2. f \in Surjection(S, TextPositions(k))
  BY DEF Surjection, TextPositions
<1>3. IsFiniteSet(TextPositions(k))
  BY <1>1, <1>2, FS_Surjection
<1>4. QED
  BY <1>3, KeysAre, AllocatedIs DEF Place

LEMMA NewHeadingsFinite ==
  ASSUME HeadingsInv, Bound(parsed.chapters), NEW j, NEW k \in DOMAIN parsed.chapters
  PROVE  IsFiniteSet(NewHeadings(j, k))
<1> DEFINE f == [key \in Keys(k) |-> Added(j, k, key)]
<1>1. f \in Surjection(Keys(k), AddedAll(j, k))
  BY DEF Surjection, AddedAll
<1>2. IsFiniteSet(AddedAll(j, k))
  BY <1>1, KeysAre, FS_Surjection
<1>3. QED
  BY <1>2, AllOrNothing, FS_EmptySet

(* A row of this document is one of the next state's.                        *)
LEMMA SameRows ==
  ASSUME UNCHANGED parsed
  PROVE  \A r : (TextRow(r)' <=> TextRow(r)) /\ (HeadingRow(r)' <=> HeadingRow(r))
<1>1. \A k : BlocksAt(k)' = BlocksAt(k) /\ Keys(k)' = Keys(k)
  BY DEF BlocksAt, Keys
<1>2. QED
  BY <1>1 DEF TextRow, HeadingRow

LEMMA RowsRest ==
  ASSUME RowsInv, UNCHANGED <<parsed, rows>>,
         \A h \in HeadingJobs : IsFiniteSet(heading'[h].adds) /\ \A a \in heading'[h].adds : HeadingRow(a)
  PROVE  RowsInv'
<1>1. \A r : (TextRow(r)' <=> TextRow(r)) /\ (HeadingRow(r)' <=> HeadingRow(r))
  BY SameRows
<1>2. AllParts' /\ PartsInOrder'
  BY DEF RowsInv, AllParts, PartsInOrder, BlocksAt
<1>3. QED
  BY <1>1, <1>2 DEF RowsInv

(* What a job adds is a row of a heading.                                    *)
LEMMA AddedRow ==
  ASSUME HeadingsInv, RowsInv, Bound(parsed.chapters), NEW j, NEW k \in DOMAIN parsed.chapters,
         NEW a \in NewHeadings(j, k)
  PROVE  HeadingRow(a)
<1>1. a \in AddedAll(j, k)
  BY AllOrNothing
<1>2. PICK key \in Keys(k) : a = Added(j, k, key)
  BY <1>1 DEF AddedAll
<1>3. /\ a.chapter = k /\ a.block = 0 /\ a.key = key /\ a.text = TitleOf(parsed.chapters[k], key)
      /\ a.part = 1 /\ a.state = "source" /\ a.position = Place(k, key)
  BY <1>2 DEF Added
<1>4. QED
  BY <1>3, PlaceIs DEF HeadingRow

(* The rows, action by action.                                               *)
LEMMA AddHeadingsRows ==
  ASSUME FileInv, HeadingsInv, RowsInv, NEW j \in HeadingJobs, AddHeadings(j)
  PROVE  RowsInv'
<1>1. PICK k : k = heading[j].chapter /\ k \in DOMAIN parsed.chapters
  BY DEF AddHeadings
<1>2. PICK adds : adds = heading[j].adds \union NewHeadings(j, k)
  OBVIOUS
<1>3. heading' = [heading EXCEPT ![j] = [chapter |-> k + 1, adds |-> adds]] /\ UNCHANGED <<parsed, rows>>
  BY <1>1, <1>2 DEF AddHeadings
<1>4. heading'[j].adds = adds /\ \A h \in HeadingJobs : h # j => heading'[h] = heading[h]
  BY <1>3 DEF HeadingsInv, Additions
<1>5. IsFiniteSet(adds) /\ \A a \in adds : HeadingRow(a)
  <2>1. Bound(parsed.chapters)
    <3>1. parsed # NoBook
      BY <1>1 DEF NoBook
    <3>2. QED
      BY <3>1, ParsedIs
  <2>2. IsFiniteSet(NewHeadings(j, k)) /\ IsFiniteSet(heading[j].adds)
    BY <1>1, <2>1, NewHeadingsFinite DEF RowsInv
  <2>3. IsFiniteSet(adds)
    BY <1>2, <2>2, FS_Union
  <2>4. \A a \in adds : HeadingRow(a)
    BY <1>1, <1>2, <2>1, AddedRow DEF RowsInv
  <2>5. QED
    BY <2>3, <2>4
<1>6. \A h \in HeadingJobs : IsFiniteSet(heading'[h].adds) /\ \A a \in heading'[h].adds : HeadingRow(a)
  BY <1>4, <1>5 DEF RowsInv
<1>7. QED
  BY <1>3, <1>6, RowsRest

LEMMA CollideRows ==
  ASSUME HeadingsInv, RowsInv, NEW j \in HeadingJobs, HeadingsCollide(j)
  PROVE  RowsInv'
<1>1. heading' = [heading EXCEPT ![j] = AtStart] /\ UNCHANGED <<parsed, rows>>
  BY DEF HeadingsCollide
<1>2. heading'[j].adds = {} /\ \A h \in HeadingJobs : h # j => heading'[h] = heading[h]
  BY <1>1 DEF HeadingsInv, Additions, AtStart
<1>3. \A h \in HeadingJobs : IsFiniteSet(heading'[h].adds) /\ \A a \in heading'[h].adds : HeadingRow(a)
  BY <1>2, FS_EmptySet DEF RowsInv
<1>4. QED
  BY <1>1, <1>3, RowsRest

LEMMA CommitRows ==
  ASSUME HeadingsInv, RowsInv, NEW j \in HeadingJobs, CommitHeadings(j)
  PROVE  RowsInv'
<1>1. PICK adds : adds = heading[j].adds
  OBVIOUS
<1>2. rows' = rows \union adds /\ parsed' = parsed /\ heading' = [heading EXCEPT ![j] = AtStart]
  BY <1>1 DEF CommitHeadings
<1>3. heading'[j].adds = {} /\ \A h \in HeadingJobs : h # j => heading'[h] = heading[h]
  BY <1>2 DEF HeadingsInv, Additions, AtStart
<1>4. \A h \in HeadingJobs : IsFiniteSet(heading'[h].adds) /\ \A a \in heading'[h].adds : HeadingRow(a)
  BY <1>3, FS_EmptySet DEF RowsInv
<1>5. \A r : (TextRow(r)' <=> TextRow(r)) /\ (HeadingRow(r)' <=> HeadingRow(r))
  BY <1>2, SameRows
<1>6. \A a \in adds : HeadingRow(a) /\ a.block = 0
  BY <1>1 DEF RowsInv, HeadingRow
<1>7. \A r \in rows' : TextRow(r) \/ HeadingRow(r)
  BY <1>2, <1>6 DEF RowsInv
<1>8. \A k : BlocksAt(k)' = BlocksAt(k)
  BY <1>2 DEF BlocksAt
<1>9. AllParts'
  BY <1>2, <1>8 DEF RowsInv, AllParts
<1>10. PartsInOrder'
  <2>1. \A r \in rows' : r.block # 0 => r \in rows
    BY <1>2, <1>6
  <2>2. PartsInOrder
    BY DEF RowsInv
  <2>3. QED
    BY <2>1, <2>2 DEF PartsInOrder
<1>11. IsFiniteSet(rows')
  BY <1>1, <1>2, FS_Union DEF RowsInv
<1>12. QED
  BY <1>4, <1>5, <1>7, <1>9, <1>10, <1>11 DEF RowsInv

LEMMA TranslateRows ==
  ASSUME HeadingsInv, RowsInv, NEW r \in rows, TranslateRow(r)
  PROVE  RowsInv'
<1>1. /\ r.state = "source" /\ parsed' = parsed /\ heading' = heading
      /\ \E state \in {"kept"} \union IF TypeOf(r) = "table" THEN {"bent"} ELSE {} :
           rows' = (rows \ {r}) \union {[r EXCEPT !.state = state]}
  BY DEF TranslateRow
<1>2. PICK s \in {"kept"} \union IF TypeOf(r) = "table" THEN {"bent"} ELSE {} :
             rows' = (rows \ {r}) \union {[r EXCEPT !.state = s]}
  BY <1>1
<1>3. PICK z : z = [r EXCEPT !.state = s]
  OBVIOUS
<1>4. /\ z.chapter = r.chapter /\ z.position = r.position /\ z.block = r.block /\ z.key = r.key
      /\ z.text = r.text /\ z.part = r.part /\ z.state = s
  <2>1. IsRow(r)
    BY DEF HeadingsInv, Complete
  <2>2. PICK k, p, b, key, t, n, u, h :
          r = [chapter |-> k, position |-> p, block |-> b, key |-> key, text |-> t, part |-> n, state |-> u, by |-> h]
    BY <2>1 DEF IsRow
  <2>3. z = [chapter |-> k, position |-> p, block |-> b, key |-> key, text |-> t, part |-> n, state |-> s, by |-> h]
    BY <1>3, <2>2
  <2>4. QED
    BY <2>2, <2>3
<1>5. rows' = (rows \ {r}) \union {z}
  BY <1>2, <1>3
<1>6. \A x : (TextRow(x)' <=> TextRow(x)) /\ (HeadingRow(x)' <=> HeadingRow(x))
  BY <1>1, SameRows
<1>7. \A k : BlocksAt(k)' = BlocksAt(k)
  BY <1>1 DEF BlocksAt
<1>8. TextRow(z) \/ HeadingRow(z)
  <2>1. CASE TextRow(r)
    <3>1. TypeOf(r) = BlocksAt(r.chapter)[r.block].type
      BY <2>1 DEF TextRow, TypeOf, BlocksAt
    <3>2. s = "bent" => BlocksAt(r.chapter)[r.block].type = "table"
      BY <1>2, <3>1
    <3>3. QED
      BY <1>4, <2>1, <3>2 DEF TextRow
  <2>2. CASE HeadingRow(r)
    <3>1. TypeOf(r) = "heading"
      BY <2>2 DEF HeadingRow, TypeOf
    <3>2. s # "bent"
      BY <1>2, <3>1
    <3>3. QED
      BY <1>4, <2>2, <3>2 DEF HeadingRow
  <2>3. QED
    BY <2>1, <2>2 DEF RowsInv
<1>9. \A x \in rows' : TextRow(x) \/ HeadingRow(x)
  BY <1>5, <1>8 DEF RowsInv
<1>10. AllParts'
  <2>1. ASSUME NEW k \in DOMAIN parsed.chapters, NEW b \in DOMAIN BlocksAt(k), IsText(BlocksAt(k)[b]),
               NEW p \in 1..BlocksAt(k)[b].parts
        PROVE  \E q \in rows' : q.chapter = k /\ q.block = b /\ q.part = p
    <3>1. PICK q \in rows : q.chapter = k /\ q.block = b /\ q.part = p
      BY <2>1 DEF RowsInv, AllParts
    <3>2. QED
      BY <1>4, <1>5, <3>1
  <2>2. QED
    BY <1>1, <1>7, <2>1 DEF AllParts
<1>11. PartsInOrder'
  <2>1. ASSUME NEW x \in rows', NEW y \in rows', x.chapter = y.chapter, x.block = y.block, x.block # 0
        PROVE  (x.part = y.part => x = y) /\ (x.part < y.part => x.position < y.position)
    <3>1. PICK v \in rows : (x = v /\ v # r) \/ (x = z /\ v = r)
      BY <1>5
    <3>2. PICK w \in rows : (y = w /\ w # r) \/ (y = z /\ w = r)
      BY <1>5
    <3>3. /\ x.chapter = v.chapter /\ x.block = v.block /\ x.part = v.part /\ x.position = v.position
          /\ y.chapter = w.chapter /\ y.block = w.block /\ y.part = w.part /\ y.position = w.position
      BY <1>4, <3>1, <3>2
    <3>4. (v.part = w.part => v = w) /\ (v.part < w.part => v.position < w.position)
      BY <2>1, <3>3 DEF RowsInv, PartsInOrder
    <3>5. v = w => x = y
      BY <3>1, <3>2
    <3>6. QED
      BY <3>3, <3>4, <3>5
  <2>2. QED
    BY <2>1 DEF PartsInOrder
<1>12. \A h \in HeadingJobs : IsFiniteSet(heading'[h].adds) /\ \A a \in heading'[h].adds : HeadingRow(a)
  BY <1>1 DEF RowsInv
<1>13. IsFiniteSet(rows')
  BY <1>5, FS_RemoveElement, FS_AddElement DEF RowsInv
<1>14. QED
  BY <1>6, <1>9, <1>10, <1>11, <1>12, <1>13 DEF RowsInv

DocumentInv == FileInv /\ HeadingsInv /\ RowsInv

(* Every step keeps the rows, given the two other parts.                     *)
LEMMA RowsKeep == DocumentInv /\ [DocumentNext]_documentVars => RowsInv'
<1> SUFFICES ASSUME FileInv, HeadingsInv, RowsInv, [DocumentNext]_documentVars PROVE RowsInv'
  BY DEF DocumentInv
<1>1. CASE (\E f \in Formats : Choose(f)) \/ Write \/ UNCHANGED documentVars
  <2>1. UNCHANGED <<parsed, rows, heading>>
    BY <1>1 DEF Choose, Write, documentVars
  <2>2. QED
    BY <2>1, RowsRest DEF RowsInv
<1>2. CASE StoreDocument
  BY <1>2, StoreRows
<1>3. ASSUME NEW h \in HeadingJobs, AddHeadings(h) \/ CommitHeadings(h) \/ HeadingsCollide(h)
      PROVE  RowsInv'
  BY <1>3, AddHeadingsRows, CommitRows, CollideRows
<1>4. ASSUME NEW r \in rows, TranslateRow(r) PROVE RowsInv'
  BY <1>4, TranslateRows
<1>5. QED
  BY <1>1, <1>2, <1>3, <1>4 DEF DocumentNext

(* The invariant of Documents, in every state.                               *)
LEMMA DocumentInvariant == DocumentSpec => []DocumentInv
<1>1. DocumentInit => DocumentInv
  BY FileInit, HeadingsInit, RowsInit DEF DocumentInv
<1>2. DocumentInv /\ [DocumentNext]_documentVars => DocumentInv'
  BY FileKeeps, HeadingsKeep, RowsKeep DEF DocumentInv
<1>3. QED
  BY <1>1, <1>2, PTL DEF DocumentSpec

-------------------------------------------------------------------------------
(* Nothing in a book says the same twice, so that a row is known by its      *)
(* text.                                                                     *)

(* Where the texts come from: a text is an item of its chapter that is no    *)
(* heading, or a note;                                                       *)
TextOrigin(cs, num, k, b, text) ==
  \/ /\ b \in 1..Len(cs[k].blocks) /\ text = cs[k].blocks[b].text /\ cs[k].blocks[b].type # "figure"
     /\ \E i \in At(num[k], Len(file)) : ~Heading(i) /\ text \in {Item(i), Inner(i)}
  \/ \E m \in 1..Len(NotesHere(cs, k)) : b = Len(cs[k].blocks) + m /\ text = Note(NotesHere(cs, k)[m])

(* a section an item that is a heading, and a chapter too, or without title. *)
HeadingOrigin(cs, num, k, key, text) ==
  \/ /\ key = <<"chapter", 0>>
     /\ \/ text = BookTitle /\ Untitled
        \/ \E i \in At(num[k], Len(file)) : Title(i) /\ text = Item(i)
  \/ \E s \in DOMAIN cs[k].sections :
       /\ key = <<"section", s>> /\ text = cs[k].sections[s].title
       /\ \E i \in At(num[k], Len(file)) : Section(i) /\ text = Item(i)

(* What is known of a chapter that is laid out.                              *)
LEMMA LaidChapter ==
  ASSUME NEW cs, NEW num, Laid(parsed, cs, num), NEW k \in 1..Len(cs)
  PROVE  /\ FileChapter(cs[k], num[k]) /\ FiguresRead(cs[k], parsed.assets) /\ num[k] \in 0..ChapterOf(Len(file))
         /\ Untitled => Len(cs) = 1
         /\ cs[k].title = BookTitle => Untitled
         /\ \A j \in 1..Len(cs) : num[j] = num[k] => j = k
<1>1. FileChapter(cs[k], num[k]) /\ FiguresRead(cs[k], parsed.assets) /\ num[k] \in 0..ChapterOf(Len(file))
  BY DEF Laid, AsFile
<1>2. (Untitled => Len(cs) = 1) /\ (cs[k].title = BookTitle => Untitled)
  BY DEF Laid, AsFile
<1>3. ASSUME NEW j \in 1..Len(cs), num[j] = num[k] PROVE j = k
  <2>1. num \in [1..Len(cs) -> 0..ChapterOf(Len(file))] /\ (j < k => num[j] < num[k]) /\ (k < j => num[k] < num[j])
    BY DEF Laid, AsFile
  <2>2. num[k] \in Int /\ ~(num[k] < num[k])
    BY <2>1
  <2>3. QED
    BY <1>3, <2>1, <2>2
<1>4. QED
  BY <1>1, <1>2, <1>3

(* All texts and all headings come from there.                               *)
LEMMA TextComes ==
  ASSUME NEW cs, NEW num, Laid(parsed, cs, num), NEW k \in 1..Len(cs), NEW b \in DOMAIN BlocksAt(k), IsText(BlocksAt(k)[b])
  PROVE  TextOrigin(cs, num, k, b, BlocksAt(k)[b].text)
<1> DEFINE l == Len(cs[k].blocks)
           m == Len(NotesHere(cs, k))
<1>1. /\ l \in Nat /\ m \in Nat /\ DOMAIN BlocksAt(k) = 1..(l + m) /\ DOMAIN cs[k].blocks = 1..l
      /\ \A a \in 1..l : BlocksAt(k)[a] = cs[k].blocks[a]
      /\ \A n \in 1..m : BlocksAt(k)[l + n] = NoteBlock(NotesHere(cs, k)[n])
  <2>1. BlocksAt(k) = parsed.chapters[k].blocks
    BY DEF BlocksAt
  <2>2. QED
    BY <2>1, LaidBlocks
<1>2. BlocksRead(cs[k], num[k], Len(file))
  BY LaidChapter DEF FileChapter
<1> HIDE DEF l, m
<1>3. b \in 1..l \/ \E n \in 1..m : b = l + n
  <2>1. b \in 1..l \/ (b - l \in 1..m /\ b = l + (b - l))
    BY <1>1
  <2>2. QED
    BY <2>1
<1>4. CASE b \in 1..l
  <2>1. PICK block : block = cs[k].blocks[b] /\ block = BlocksAt(k)[b]
    BY <1>1, <1>4
  <2>2. PICK i \in At(num[k], Len(file)) : FromItem(cs[k], block, i)
    BY <1>1, <1>2, <1>4, <2>1 DEF BlocksRead
  <2>3. block.type # "heading" /\ block.type # "figure"
    BY <2>1 DEF IsText
  <2>4. block.type = TypeOfItem(i) /\ block.text \in {Item(i), Inner(i)}
    BY <2>2, <2>3 DEF FromItem
  <2>5. ~Heading(i)
    BY <2>3, <2>4 DEF TypeOfItem, Heading
  <2>6. QED
    BY <1>4, <2>1, <2>3, <2>4, <2>5 DEF TextOrigin, l
<1>5. CASE \E n \in 1..m : b = l + n
  <2>1. PICK n \in 1..m : b = l + n
    BY <1>5
  <2>2. BlocksAt(k)[b].text = Note(NotesHere(cs, k)[n])
    <3>1. \A x : NoteBlock(x).text = Note(x)
      BY DEF NoteBlock
    <3>2. QED
      BY <1>1, <2>1, <3>1
  <2>3. QED
    BY <2>1, <2>2 DEF TextOrigin, l, m
<1>6. QED
  BY <1>3, <1>4, <1>5

LEMMA HeadingComes ==
  ASSUME NEW cs, NEW num, Laid(parsed, cs, num), NEW k \in 1..Len(cs), NEW key \in Keys(k)
  PROVE  HeadingOrigin(cs, num, k, key, TitleOf(parsed.chapters[k], key))
<1>1. parsed.chapters[k].title = cs[k].title /\ parsed.chapters[k].sections = cs[k].sections
  BY LaidIs
<1>2. /\ FileChapter(cs[k], num[k]) /\ (cs[k].title = BookTitle => Untitled)
  BY LaidChapter
<1>3. CASE key = <<"chapter", 0>> /\ cs[k].title # None
  <2>1. TitleOf(parsed.chapters[k], key) = cs[k].title
    BY <1>1, <1>3 DEF TitleOf
  <2>2. CASE cs[k].title = BookTitle
    BY <1>2, <1>3, <2>1, <2>2 DEF HeadingOrigin
  <2>3. CASE cs[k].title # BookTitle
    <3>1. PICK i \in At(num[k], Len(file)) : Title(i) /\ cs[k].title = Item(i)
      BY <1>2, <1>3, <2>3 DEF FileChapter, TitleReads
    <3>2. QED
      BY <1>3, <2>1, <3>1 DEF HeadingOrigin
  <2>4. QED
    BY <2>2, <2>3
<1>4. CASE \E s \in DOMAIN cs[k].sections : key = <<"section", s>>
  <2>1. PICK s \in DOMAIN cs[k].sections : key = <<"section", s>>
    BY <1>4
  <2>2. key[1] # "chapter" /\ key[2] = s
    BY <2>1
  <2>3. TitleOf(parsed.chapters[k], key) = cs[k].sections[s].title
    BY <1>1, <2>2 DEF TitleOf
  <2>4. PICK i \in At(num[k], Len(file)) : Section(i) /\ cs[k].sections[s].title = Item(i)
    BY <1>2, <2>1 DEF FileChapter, SectionsRead
  <2>5. QED
    BY <2>1, <2>3, <2>4 DEF HeadingOrigin
<1>5. QED
  BY <1>1, <1>3, <1>4 DEF Keys, Structural

(* Nothing in a book says the same twice.                                    *)
LEMMA TextsDiffer ==
  ASSUME NEW cs, NEW num, Laid(parsed, cs, num), NEW j \in 1..Len(cs), NEW k \in 1..Len(cs), NEW a, NEW b, NEW text,
         TextOrigin(cs, num, j, a, text), TextOrigin(cs, num, k, b, text)
  PROVE  j = k /\ a = b
<1>1. CASE text[1] = "note"
  <2>1. \A i : Item(i)[1] # "note" /\ Inner(i)[1] # "note"
    BY TextIs
  <2>2. PICK m \in 1..Len(NotesHere(cs, j)) : a = Len(cs[j].blocks) + m /\ text = Note(NotesHere(cs, j)[m])
    BY <1>1, <2>1 DEF TextOrigin
  <2>3. PICK n \in 1..Len(NotesHere(cs, k)) : b = Len(cs[k].blocks) + n /\ text = Note(NotesHere(cs, k)[n])
    BY <1>1, <2>1 DEF TextOrigin
  <2>4. PICK x : x = NotesHere(cs, j)[m] /\ x = NotesHere(cs, k)[n]
    <3>1. Note(NotesHere(cs, j)[m])[2] = Note(NotesHere(cs, k)[n])[2]
      BY <2>2, <2>3
    <3>2. QED
      BY <3>1 DEF Note
  <2>5. format = "docx"
    <3>1. SUFFICES ASSUME format # "docx" PROVE FALSE
      OBVIOUS
    <3>2. NotesHere(cs, j) = <<>> /\ Len(<<>>) = 0
      BY <3>1 DEF NotesHere
    <3>3. QED
      BY <2>2, <3>2
  <2>6. NotesHere(cs, j) = NotesOf(cs, j) /\ NotesHere(cs, k) = NotesOf(cs, k)
    BY <2>5 DEF NotesHere
  <2>7. m \in DOMAIN NotesOf(cs, j) /\ n \in DOMAIN NotesOf(cs, k)
    <3>1. DOMAIN NotesHere(cs, j) = 1..Len(NotesHere(cs, j)) /\ DOMAIN NotesHere(cs, k) = 1..Len(NotesHere(cs, k))
      BY LaidBlocks
    <3>2. QED
      BY <2>6, <3>1
  <2>8. cs[j] \in ChapterSet /\ cs[k] \in ChapterSet /\ Len(cs) \in Nat
    BY LaidIs
  <2>9. x \in NotesIn(cs, j) /\ x \in NotesIn(cs, k)
    <3>1. \A i \in DOMAIN NotesOf(cs, j) : NotesOf(cs, j)[i] \in NotesIn(cs, j)
      BY <2>8, NotesAre
    <3>2. \A i \in DOMAIN NotesOf(cs, k) : NotesOf(cs, k)[i] \in NotesIn(cs, k)
      BY <2>8, NotesAre
    <3>3. QED
      BY <2>4, <2>6, <2>7, <3>1, <3>2
  <2>10. j = k
    <3>1. ~(j < k) /\ ~(k < j)
      <4>1. j < k => j \in 1..(k - 1)
        BY <2>8
      <4>2. k < j => k \in 1..(j - 1)
        BY <2>8
      <4>3. QED
        BY <2>9, <4>1, <4>2 DEF NotesIn
    <3>2. QED
      BY <2>8, <3>1
  <2>11. m = n
    <3>1. \A i, o \in DOMAIN NotesOf(cs, k) : i # o => NotesOf(cs, k)[i] # NotesOf(cs, k)[o]
      BY <2>8, NotesAre
    <3>2. QED
      BY <2>4, <2>6, <2>7, <2>10, <3>1
  <2>12. QED
    BY <2>2, <2>3, <2>10, <2>11
<1>2. CASE text[1] # "note"
  <2>1. \A n : Note(n)[1] = "note"
    BY TextIs
  <2>2. /\ a \in 1..Len(cs[j].blocks) /\ text = cs[j].blocks[a].text /\ cs[j].blocks[a].type # "figure"
        /\ \E i \in At(num[j], Len(file)) : ~Heading(i) /\ text \in {Item(i), Inner(i)}
    BY <1>2, <2>1 DEF TextOrigin
  <2>3. /\ b \in 1..Len(cs[k].blocks) /\ text = cs[k].blocks[b].text /\ cs[k].blocks[b].type # "figure"
        /\ \E i \in At(num[k], Len(file)) : ~Heading(i) /\ text \in {Item(i), Inner(i)}
    BY <1>2, <2>1 DEF TextOrigin
  <2>4. PICK i \in At(num[j], Len(file)) : text \in {Item(i), Inner(i)}
    BY <2>2
  <2>5. PICK x \in At(num[k], Len(file)) : text \in {Item(x), Inner(x)}
    BY <2>3
  <2>6. text[2] = i /\ text[2] = x
    BY <2>4, <2>5, TextIs
  <2>7. num[j] = num[k]
    BY <2>4, <2>5, <2>6 DEF At
  <2>8. j = k
    BY <2>7, LaidChapter
  <2>9. BlocksRead(cs[k], num[k], Len(file)) /\ DOMAIN cs[k].blocks = 1..Len(cs[k].blocks)
    BY LaidChapter, LaidBlocks DEF FileChapter
  <2>10. a = b
    BY <2>2, <2>3, <2>8, <2>9 DEF BlocksRead
  <2>11. QED
    BY <2>8, <2>10
<1>3. QED
  BY <1>1, <1>2

(* Nor do headings,                                                          *)
LEMMA HeadingsDiffer ==
  ASSUME NEW cs, NEW num, Laid(parsed, cs, num), NEW j \in 1..Len(cs), NEW k \in 1..Len(cs), NEW key, NEW other, NEW text,
         HeadingOrigin(cs, num, j, key, text), HeadingOrigin(cs, num, k, other, text)
  PROVE  j = k /\ key = other
<1>1. CASE text = BookTitle
  <2>1. \A i : Item(i) # BookTitle
    BY TextIs
  <2>2. key = <<"chapter", 0>> /\ other = <<"chapter", 0>> /\ Untitled
    BY <1>1, <2>1 DEF HeadingOrigin
  <2>3. Len(cs) = 1
    BY <2>2, LaidChapter
  <2>4. QED
    BY <2>2, <2>3
<1>2. CASE text # BookTitle
  <2>1. PICK i \in At(num[j], Len(file)) :
          /\ text = Item(i)
          /\ \/ key = <<"chapter", 0>> /\ Title(i)
             \/ Section(i) /\ \E s \in DOMAIN cs[j].sections : key = <<"section", s>> /\ text = cs[j].sections[s].title
    BY <1>2 DEF HeadingOrigin
  <2>2. PICK x \in At(num[k], Len(file)) :
          /\ text = Item(x)
          /\ \/ other = <<"chapter", 0>> /\ Title(x)
             \/ Section(x) /\ \E s \in DOMAIN cs[k].sections : other = <<"section", s>> /\ text = cs[k].sections[s].title
    BY <1>2 DEF HeadingOrigin
  <2>3. i = x
    BY <2>1, <2>2, TextIs
  <2>4. num[j] = num[k]
    BY <2>1, <2>2, <2>3 DEF At
  <2>5. j = k
    BY <2>4, LaidChapter
  <2>6. CASE Title(i)
    <3>1. ~Section(i)
      BY <2>6 DEF Section
    <3>2. QED
      BY <2>1, <2>2, <2>3, <2>5, <3>1
  <2>7. CASE ~Title(i)
    <3>1. PICK s \in DOMAIN cs[j].sections : key = <<"section", s>> /\ text = cs[j].sections[s].title
      BY <2>1, <2>7
    <3>2. PICK t \in DOMAIN cs[k].sections : other = <<"section", t>> /\ text = cs[k].sections[t].title
      BY <2>2, <2>3, <2>7
    <3>3. SectionsRead(cs[k], num[k], Len(file)) /\ cs[k] \in ChapterSet
      BY LaidChapter DEF FileChapter
    <3>4. cs[k].sections \in Seq(SectionSet)
      BY <3>3 DEF ChapterSet
    <3>5. s \in Nat /\ t \in Nat /\ s \in DOMAIN cs[k].sections
      BY <2>5, <3>1, <3>2, <3>4
    <3>6. (s < t => text[2] < text[2]) /\ (t < s => text[2] < text[2])
      BY <2>5, <3>1, <3>2, <3>3, <3>5 DEF SectionsRead
    <3>7. text[2] = i /\ i \in Nat
      BY <2>1, TextIs DEF At
    <3>8. s = t
      BY <3>5, <3>6, <3>7
    <3>9. QED
      BY <2>5, <3>1, <3>2, <3>8
  <2>8. QED
    BY <2>6, <2>7
<1>3. QED
  BY <1>1, <1>2

(* and no text is a heading.                                                 *)
LEMMA TextsAreNoHeadings ==
  ASSUME NEW cs, NEW num, NEW j, NEW k, NEW b, NEW key, NEW text,
         TextOrigin(cs, num, j, b, text), HeadingOrigin(cs, num, k, key, text)
  PROVE  FALSE
<1>1. text = BookTitle \/ \E i : Heading(i) /\ text = Item(i)
  BY DEF HeadingOrigin, Title, Section
<1>2. (\E m : text = Note(m)) \/ \E i : ~Heading(i) /\ text \in {Item(i), Inner(i)}
  BY DEF TextOrigin
<1>3. BookTitle[1] = "title"
  BY DEF BookTitle
<1>4. QED
  BY <1>1, <1>2, <1>3, TextIs

(* The rows that have a text are its own.                                    *)
LEMMA OfText ==
  ASSUME DocumentInv, NEW cs, NEW num, Laid(parsed, cs, num), NEW k \in 1..Len(cs),
         NEW b \in DOMAIN BlocksAt(k), IsText(BlocksAt(k)[b]), NEW r \in rows, r.text = BlocksAt(k)[b].text
  PROVE  TextRow(r) /\ r.chapter = k /\ r.block = b
<1>1. TextOrigin(cs, num, k, b, r.text)
  BY TextComes
<1>2. CASE HeadingRow(r)
  <2>1. PICK j, key : j \in 1..Len(cs) /\ j = r.chapter /\ key = r.key /\ key \in Keys(j) /\ r.text = TitleOf(parsed.chapters[j], key)
    BY <1>2, LaidIs DEF HeadingRow
  <2>2. HeadingOrigin(cs, num, j, key, r.text)
    BY <2>1, HeadingComes
  <2>3. QED
    BY <1>1, <2>2, TextsAreNoHeadings
<1>3. CASE TextRow(r)
  <2>1. PICK j, a : j \in 1..Len(cs) /\ j = r.chapter /\ a = r.block /\ a \in DOMAIN BlocksAt(j) /\ IsText(BlocksAt(j)[a])
                         /\ r.text = BlocksAt(j)[a].text
    BY <1>3, LaidIs DEF TextRow
  <2>2. TextOrigin(cs, num, j, a, r.text)
    BY <2>1, TextComes
  <2>3. j = k /\ a = b
    BY <1>1, <2>1, <2>2, TextsDiffer
  <2>4. QED
    BY <1>3, <2>1, <2>3
<1>4. QED
  BY <1>2, <1>3 DEF DocumentInv, RowsInv

LEMMA OfHeading ==
  ASSUME DocumentInv, NEW cs, NEW num, Laid(parsed, cs, num), NEW k \in 1..Len(cs), NEW key \in Keys(k),
         NEW r \in rows, r.text = TitleOf(parsed.chapters[k], key)
  PROVE  HeadingRow(r) /\ r.chapter = k /\ r.key = key
<1>1. HeadingOrigin(cs, num, k, key, r.text)
  BY HeadingComes
<1>2. CASE TextRow(r)
  <2>1. PICK j, a : j \in 1..Len(cs) /\ j = r.chapter /\ a = r.block /\ a \in DOMAIN BlocksAt(j) /\ IsText(BlocksAt(j)[a])
                         /\ r.text = BlocksAt(j)[a].text
    BY <1>2, LaidIs DEF TextRow
  <2>2. TextOrigin(cs, num, j, a, r.text)
    BY <2>1, TextComes
  <2>3. QED
    BY <1>1, <2>2, TextsAreNoHeadings
<1>3. CASE HeadingRow(r)
  <2>1. PICK j, other : j \in 1..Len(cs) /\ j = r.chapter /\ other = r.key /\ other \in Keys(j)
                             /\ r.text = TitleOf(parsed.chapters[j], other)
    BY <1>3, LaidIs DEF HeadingRow
  <2>2. HeadingOrigin(cs, num, j, other, r.text)
    BY <2>1, HeadingComes
  <2>3. j = k /\ other = key
    BY <1>1, <2>1, <2>2, HeadingsDiffer
  <2>4. QED
    BY <1>3, <2>1, <2>3
<1>4. QED
  BY <1>2, <1>3 DEF DocumentInv, RowsInv

-------------------------------------------------------------------------------
(* The rows of a text, by their positions.                                   *)
RowsIn(k, b) == {r \in rows : r.chapter = k /\ r.block = b}
Positions(S) == [r \in S |-> r.position]

LEMMA RowsOfIs == \A k, b : RowsOf(k, b) = InOrder(RowsIn(k, b), Positions(RowsIn(k, b)))
<1> TAKE k, b
<1> DEFINE S == RowsIn(k, b)
           f == Positions(S)
           Under(x) == {y \in S : y.position < x.position}
<1>1. \A x \in S : Under(x) = Below(S, f, x)
  BY DEF Below, Positions
<1>2. RowsOf(k, b) = [n \in 1..Cardinality(S) |-> CHOOSE x \in S : Cardinality(Under(x)) = n - 1]
  BY DEF RowsOf, Sorted, RowsIn
<1>3. ASSUME NEW n
      PROVE  (CHOOSE x \in S : Cardinality(Under(x)) = n - 1) = CHOOSE x \in S : Cardinality(Below(S, f, x)) = n - 1
  <2> HIDE DEF S, f, Under
  <2>1. \A x : (x \in S /\ Cardinality(Under(x)) = n - 1) <=> (x \in S /\ Cardinality(Below(S, f, x)) = n - 1)
    BY <1>1
  <2>2. QED
    BY <2>1
<1>4. QED
  BY <1>2, <1>3 DEF InOrder

(* A text has a row for each of its parts, in order.                         *)
LEMMA RowsOfText ==
  ASSUME DocumentInv, NEW k \in DOMAIN parsed.chapters, NEW b \in DOMAIN BlocksAt(k), IsText(BlocksAt(k)[b]),
         NEW parts \in Nat, parts = BlocksAt(k)[b].parts
  PROVE  /\ DOMAIN RowsOf(k, b) = 1..parts
         /\ \A p \in 1..parts : /\ RowsOf(k, b)[p] \in rows /\ RowsOf(k, b)[p].chapter = k /\ RowsOf(k, b)[p].block = b
                                /\ RowsOf(k, b)[p].part = p /\ TextRow(RowsOf(k, b)[p])
<1> DEFINE S == RowsIn(k, b)
           f == Positions(S)
           g == [r \in S |-> r.part]
           s == InOrder(S, f)
<1>1. \A r \in S : r \in rows /\ r.chapter = k /\ r.block = b
  BY DEF RowsIn
<1>2. b # 0
  <2>1. PICK p \in 1..parts : TRUE
    <3>1. SUFFICES ASSUME parts = 0 PROVE FALSE
      <4>1. parts # 0 => 1 \in 1..parts
        OBVIOUS
      <4>2. QED
        BY <4>1
    <3>2. Bound(parsed.chapters)
      <4>1. parsed # NoBook
        BY DEF NoBook
      <4>2. QED
        BY <4>1, ParsedIs DEF DocumentInv
    <3>3. BlocksAt(k) \in Seq(BlockSet)
      BY <3>2 DEF Bound, BlocksAt
    <3>4. BlocksAt(k)[b] \in BlockSet
      BY <3>3
    <3>5. QED
      BY <3>1, <3>4 DEF BlockSet
  <2>2. PICK r \in rows : r.chapter = k /\ r.block = b
    BY <2>1 DEF DocumentInv, RowsInv, AllParts
  <2>3. TextRow(r) \/ (r.block = 0 /\ HeadingRow(r))
    BY DEF DocumentInv, RowsInv, HeadingRow
  <2>4. Bound(parsed.chapters)
    <3>1. parsed # NoBook
      BY DEF NoBook
    <3>2. QED
      BY <3>1, ParsedIs DEF DocumentInv
  <2>5. BlocksAt(k) \in Seq(BlockSet)
    BY <2>4 DEF Bound, BlocksAt
  <2>6. QED
    BY <2>5
<1>3. \A r \in S : TextRow(r) /\ r.part \in 1..parts /\ r.part \in Nat /\ r.position \in Int
  <2> TAKE r \in S
  <2>1. TextRow(r)
    BY <1>1, <1>2 DEF DocumentInv, RowsInv, HeadingRow
  <2>2. QED
    BY <1>1, <2>1 DEF TextRow
<1>4. \A r, q \in S : (r.part = q.part => r = q) /\ (r.part < q.part => r.position < q.position)
  BY <1>1, <1>2 DEF DocumentInv, RowsInv, PartsInOrder
<1>5. \A p \in 1..parts : \E r \in S : r.part = p
  <2> TAKE p \in 1..parts
  <2>1. PICK r \in rows : r.chapter = k /\ r.block = b /\ r.part = p
    BY DEF DocumentInv, RowsInv, AllParts
  <2>2. QED
    BY <2>1 DEF RowsIn
<1> HIDE DEF S
<1>6. g \in Injection(S, 1..parts) /\ g \in Surjection(S, 1..parts)
  <2>1. \A p \in 1..parts : \E r \in S : g[r] = p
    BY <1>5
  <2>2. QED
    BY <1>3, <1>4, <2>1 DEF Injection, IsInjective, Surjection
<1>7. IsFiniteSet(1..parts) /\ Cardinality(1..parts) = parts
  <2>1. 1 \in Int /\ parts \in Int /\ (1 > parts <=> parts = 0) /\ parts - 1 + 1 = parts
    OBVIOUS
  <2>2. QED
    BY <2>1, FS_Interval
<1>8. IsFiniteSet(S) /\ Cardinality(S) = parts
  BY <1>6, <1>7, FS_Injection
<1>9. \A r, q \in S : /\ f[r] = r.position /\ f[r] \in Int
                      /\ (f[r] < f[q] <=> r.part < q.part) /\ (f[r] = f[q] => r = q)
  <2> TAKE r, q \in S
  <2>1. f[r] = r.position /\ f[q] = q.position
    BY DEF Positions
  <2>2. r.position \in Int /\ q.position \in Int /\ r.part \in Int /\ q.part \in Int
    BY <1>3
  <2>3. r.part = q.part \/ r.part < q.part \/ q.part < r.part
    BY <2>2
  <2>4. r.part = q.part => r.position = q.position
    BY <1>4
  <2>5. QED
    BY <1>4, <2>1, <2>2, <2>3, <2>4
<1>10. f \in [S -> Int]
  BY <1>3 DEF Positions
<1> HIDE DEF f
<1>11. ASSUME NEW r \in S PROVE Cardinality(Below(S, f, r)) = r.part - 1
  <2>1. Below(S, f, r) = {q \in S : q.part < r.part}
    BY <1>9 DEF Below
  <2> DEFINE T == {q \in S : q.part < r.part}
             h == [q \in T |-> q.part]
  <2>2. PICK n \in Nat : n = r.part /\ n \in 1..parts
    BY <1>3
  <2>3. h \in Injection(T, 1..(n - 1)) /\ h \in Surjection(T, 1..(n - 1))
    <3>1. \A q \in T : q \in S /\ q.part \in 1..(n - 1)
      BY <1>3, <2>2
    <3>2. \A p \in 1..(n - 1) : \E q \in T : h[q] = p
      <4> TAKE p \in 1..(n - 1)
      <4>1. p \in 1..parts /\ p < n
        BY <2>2
      <4>2. PICK q \in S : q.part = p
        BY <1>5, <4>1
      <4>3. q \in T
        BY <2>2, <4>1, <4>2
      <4>4. QED
        BY <4>2, <4>3
    <3>3. QED
      BY <1>4, <3>1, <3>2 DEF Injection, IsInjective, Surjection
  <2>4. IsFiniteSet(1..(n - 1)) /\ Cardinality(1..(n - 1)) = n - 1
    <3>1. 1 \in Int /\ n - 1 \in Int /\ (1 > n - 1 => n - 1 = 0) /\ (n - 1) - 1 + 1 = n - 1
      BY <2>2
    <3>2. QED
      BY <3>1, FS_Interval
  <2>5. Cardinality(T) = n - 1
    BY <2>3, <2>4, FS_Injection
  <2>6. QED
    BY <2>1, <2>2, <2>5
<1>12. \A n \in 1..parts : s[n] \in S /\ s[n].part = n
  <2> TAKE n \in 1..parts
  <2>1. \E x \in S : Cardinality(Below(S, f, x)) = n - 1
    <3>1. PICK x \in S : x.part = n
      BY <1>5
    <3>2. QED
      BY <1>11, <3>1
  <2>2. s[n] = CHOOSE x \in S : Cardinality(Below(S, f, x)) = n - 1
    BY <1>8 DEF InOrder
  <2>3. s[n] \in S /\ Cardinality(Below(S, f, s[n])) = n - 1
    BY <2>1, <2>2
  <2>4. s[n].part - 1 = n - 1 /\ s[n].part \in Int
    BY <1>3, <1>11, <2>3
  <2>5. s[n].part = n
    BY <2>4
  <2>6. QED
    BY <2>3, <2>5
<1>13. RowsOf(k, b) = s /\ DOMAIN s = 1..parts
  BY <1>8, RowsOfIs DEF InOrder, S, f
<1>14. QED
  BY <1>1, <1>3, <1>12, <1>13

-------------------------------------------------------------------------------
(* What the export reads back.                                               *)
IsBent(text)          == \E r \in rows : r.text = text /\ r.state = "bent"
TextSays(text, parts) == [p \in 1..parts |-> <<text, p, Done(text, p) /\ ~IsBent(text)>>]

(* A part is translated when its row is.                                     *)
LEMMA DoneIs ==
  ASSUME DocumentInv, NEW cs, NEW num, Laid(parsed, cs, num), NEW k \in 1..Len(cs),
         NEW b \in DOMAIN BlocksAt(k), IsText(BlocksAt(k)[b]), NEW parts \in Nat, parts = BlocksAt(k)[b].parts,
         NEW p \in 1..parts
  PROVE  /\ RowsOf(k, b)[p].text = BlocksAt(k)[b].text /\ RowsOf(k, b)[p].part = p /\ RowsOf(k, b)[p] \in rows
         /\ DOMAIN RowsOf(k, b) = 1..parts
         /\ Done(BlocksAt(k)[b].text, p) <=> RowsOf(k, b)[p].state # "source"
<1>1. k \in DOMAIN parsed.chapters
  BY LaidIs
<1> DEFINE q == RowsOf(k, b)[p]
<1>2. /\ DOMAIN RowsOf(k, b) = 1..parts
      /\ q \in rows /\ q.chapter = k /\ q.block = b /\ q.part = p /\ TextRow(q)
  BY <1>1, RowsOfText
<1>3. q.text = BlocksAt(k)[b].text /\ b # 0
  BY <1>2 DEF TextRow
<1>4. ASSUME Done(BlocksAt(k)[b].text, p) PROVE q.state # "source"
  <2>1. PICK r \in rows : r.state # "source" /\ r.text = BlocksAt(k)[b].text /\ r.part = p
    BY <1>4 DEF Done, Translated
  <2>2. r.chapter = k /\ r.block = b
    BY <2>1, OfText
  <2>3. r = q
    BY <1>2, <1>3, <2>1, <2>2 DEF DocumentInv, RowsInv, PartsInOrder
  <2>4. QED
    BY <2>1, <2>3
<1>5. ASSUME q.state # "source" PROVE Done(BlocksAt(k)[b].text, p)
  BY <1>2, <1>3, <1>5 DEF Done, Translated
<1>6. QED
  BY <1>2, <1>3, <1>4, <1>5

(* Only a table comes back with another shape.                               *)
LEMMA BentIs ==
  ASSUME DocumentInv, NEW cs, NEW num, Laid(parsed, cs, num), NEW k \in 1..Len(cs),
         NEW b \in DOMAIN BlocksAt(k), IsText(BlocksAt(k)[b]), NEW parts \in Nat, parts = BlocksAt(k)[b].parts
  PROVE  /\ IsBent(BlocksAt(k)[b].text) => BlocksAt(k)[b].type = "table"
         /\ IsBent(BlocksAt(k)[b].text) <=> \E n \in DOMAIN RowsOf(k, b) : RowsOf(k, b)[n].state = "bent"
<1>1. k \in DOMAIN parsed.chapters
  BY LaidIs
<1>2. ASSUME NEW r \in rows, r.text = BlocksAt(k)[b].text, r.state = "bent"
      PROVE  BlocksAt(k)[b].type = "table" /\ \E n \in DOMAIN RowsOf(k, b) : RowsOf(k, b)[n].state = "bent"
  <2>1. TextRow(r) /\ r.chapter = k /\ r.block = b
    BY <1>2, OfText
  <2>2. BlocksAt(k)[b].type = "table" /\ r.part \in 1..parts /\ b # 0
    BY <1>2, <2>1 DEF TextRow
  <2>3. PICK p \in 1..parts : p = r.part
    BY <2>2
  <2>4. DOMAIN RowsOf(k, b) = 1..parts /\ RowsOf(k, b)[p] \in rows /\ RowsOf(k, b)[p].chapter = k
          /\ RowsOf(k, b)[p].block = b /\ RowsOf(k, b)[p].part = p
    BY <1>1, <2>3, RowsOfText
  <2>5. RowsOf(k, b)[p] = r
    BY <2>1, <2>2, <2>3, <2>4 DEF DocumentInv, RowsInv, PartsInOrder
  <2>6. QED
    BY <1>2, <2>2, <2>3, <2>4, <2>5
<1>3. ASSUME NEW n \in DOMAIN RowsOf(k, b), RowsOf(k, b)[n].state = "bent" PROVE IsBent(BlocksAt(k)[b].text)
  <2>1. DOMAIN RowsOf(k, b) = 1..parts
    BY <1>1, RowsOfText
  <2>2. RowsOf(k, b)[n].text = BlocksAt(k)[b].text /\ RowsOf(k, b)[n] \in rows
    BY <2>1, DoneIs
  <2>3. QED
    BY <1>3, <2>2 DEF IsBent
<1>4. QED
  BY <1>2, <1>3 DEF IsBent

LEMMA LoadedIs ==
  ASSUME DocumentInv, NEW cs, NEW num, Laid(parsed, cs, num), NEW k \in 1..Len(cs),
         NEW b \in DOMAIN BlocksAt(k), IsText(BlocksAt(k)[b])
  PROVE  LoadedText(k, b) = TextSays(BlocksAt(k)[b].text, BlocksAt(k)[b].parts)
<1> DEFINE block == BlocksAt(k)[b]
           mine  == RowsOf(k, b)
           joined == [n \in DOMAIN mine |-> <<mine[n].text, mine[n].part, mine[n].state # "source">>]
<1>1. k \in DOMAIN parsed.chapters
  BY LaidIs
<1>2. block \in BlockSet
  <2>1. BlocksAt(k) \in Seq(BlockSet)
    BY <1>1, LaidTyped DEF Bound, BlocksAt
  <2>2. QED
    BY <2>1
<1>3. PICK parts \in Nat : parts = block.parts
  BY <1>2 DEF BlockSet
<1>4. LoadedText(k, b) = IF block.type = "table" /\ (\E n \in DOMAIN mine : mine[n].state = "bent")
                         THEN SourceText(block) ELSE joined
  BY DEF LoadedText, BlocksAt, IsText
<1>5. /\ IsBent(block.text) => block.type = "table"
      /\ IsBent(block.text) <=> \E n \in DOMAIN mine : mine[n].state = "bent"
  BY <1>3, BentIs
<1>6. CASE IsBent(block.text)
  <2>1. LoadedText(k, b) = [p \in 1..parts |-> <<block.text, p, FALSE>>]
    BY <1>3, <1>4, <1>5, <1>6 DEF SourceText
  <2>2. TextSays(block.text, parts) = [p \in 1..parts |-> <<block.text, p, FALSE>>]
    BY <1>6 DEF TextSays
  <2>3. QED
    BY <1>3, <2>1, <2>2
<1>7. CASE ~IsBent(block.text)
  <2>1. LoadedText(k, b) = joined
    BY <1>4, <1>5, <1>7
  <2>2. \A p \in 1..parts : /\ mine[p].text = block.text /\ mine[p].part = p /\ DOMAIN mine = 1..parts
                            /\ Done(block.text, p) <=> mine[p].state # "source"
    BY <1>3, DoneIs
  <2>3. DOMAIN mine = 1..parts
    BY <1>1, <1>3, RowsOfText
  <2>4. TextSays(block.text, parts) = [p \in 1..parts |-> <<block.text, p, Done(block.text, p)>>]
    <3>1. \A p \in 1..parts : (Done(block.text, p) /\ ~IsBent(block.text)) = Done(block.text, p)
      BY <1>7 DEF Done
    <3>2. QED
      BY <3>1 DEF TextSays
  <2>5. joined = [p \in 1..parts |-> <<block.text, p, Done(block.text, p)>>]
    <3>1. \A p \in 1..parts : Done(block.text, p) = (mine[p].state # "source")
      BY <2>2 DEF Done
    <3> HIDE DEF mine, block
    <3>2. QED
      BY <2>2, <2>3, <3>1
  <2>6. QED
    BY <1>3, <2>1, <2>4, <2>5
<1>8. QED
  BY <1>6, <1>7

(* What is read of a heading's segment.                                      *)
LEMMA HeadingSays ==
  ASSUME DocumentInv, NEW cs, NEW num, Laid(parsed, cs, num), NEW k \in 1..Len(cs), NEW key \in Keys(k),
         NEW text, text = TitleOf(parsed.chapters[k], key)
  PROVE  HeadingText(k, key) = <<<<text, 1, Done(text, 1)>>>>
<1> DEFINE found == {r \in Translated : r.chapter = k /\ r.key = key}
           last  == CHOOSE r \in found : \A q \in found : q.position <= r.position
<1>1. HeadingText(k, key) = IF found = {} THEN <<<<text, 1, FALSE>>>> ELSE <<<<last.text, 1, TRUE>>>>
  BY DEF HeadingText
<1>2. \A r \in Translated : r.text = text => r \in found
  <2> TAKE r \in Translated
  <2>1. r \in rows
    BY DEF Translated
  <2>2. QED
    BY <2>1, OfHeading
<1>3. \A r \in found : r \in rows /\ HeadingRow(r) /\ r.text = text /\ r.part = 1 /\ r.position \in Int
  <2> TAKE r \in found
  <2>1. r \in rows /\ r.chapter = k /\ r.key = key
    BY DEF Translated
  <2>2. r.key # None
    BY <2>1, KeyIs
  <2>3. HeadingRow(r)
    BY <2>1, <2>2 DEF DocumentInv, RowsInv, TextRow
  <2>4. QED
    BY <2>1, <2>3 DEF HeadingRow
<1>4. \A r, q \in found : r = q
  <2>1. key # None
    BY KeyIs
  <2>2. QED
    BY <2>1 DEF Translated, DocumentInv, HeadingsInv, HeadingsAreSegmentedOnce
<1>5. CASE found = {}
  <2>1. ~Done(text, 1)
    BY <1>2, <1>5 DEF Done
  <2>2. Done(text, 1) = FALSE
    BY <2>1 DEF Done
  <2>3. QED
    BY <1>1, <1>5, <2>2
<1>6. CASE found # {}
  <2>1. PICK r \in found : TRUE
    BY <1>6
  <2>2. \A q \in found : q.position <= r.position
    BY <1>3, <1>4
  <2>3. last \in found
    BY <2>1, <2>2
  <2>4. last.text = text /\ last.part = 1
    BY <1>3, <2>3
  <2>5. Done(text, 1)
    BY <2>3, <2>4 DEF Done
  <2>6. Done(text, 1) = TRUE
    BY <2>5 DEF Done
  <2>7. QED
    BY <1>1, <1>6, <2>4, <2>6
<1>7. QED
  BY <1>5, <1>6

-------------------------------------------------------------------------------
(* Where a block comes from.                                                 *)
LEMMA BlockComes ==
  ASSUME NEW cs, NEW num, Laid(parsed, cs, num), NEW k \in 1..Len(cs), NEW b \in 1..Len(cs[k].blocks)
  PROVE  /\ BlocksAt(k)[b] = cs[k].blocks[b] /\ b \in DOMAIN BlocksAt(k) /\ BlocksAt(k)[b] \in BlockSet
         /\ BlocksAt(k)[b].text[2] \in At(num[k], Len(file))
         /\ FromItem(cs[k], BlocksAt(k)[b], BlocksAt(k)[b].text[2])
<1>1. FileChapter(cs[k], num[k])
  BY LaidChapter
<1>2. b \in DOMAIN cs[k].blocks /\ BlocksAt(k)[b] = cs[k].blocks[b] /\ cs[k].blocks[b] \in BlockSet
  BY LaidBlocks DEF BlocksAt
<1>3. PICK i \in At(num[k], Len(file)) : FromItem(cs[k], cs[k].blocks[b], i)
  BY <1>1, <1>2 DEF FileChapter, BlocksRead
<1>4. cs[k].blocks[b].text[2] = i
  BY <1>3, FromItemIs
<1>5. b \in DOMAIN BlocksAt(k)
  <2>1. Len(cs[k].blocks) \in Nat /\ Len(NotesHere(cs, k)) \in Nat
          /\ DOMAIN BlocksAt(k) = 1..(Len(cs[k].blocks) + Len(NotesHere(cs, k)))
    BY LaidBlocks DEF BlocksAt
  <2>2. QED
    BY <2>1
<1>6. QED
  BY <1>2, <1>3, <1>4, <1>5

(* A paragraph in a quotation is no table.                                   *)
LEMMA QuotesStand ==
  ASSUME DocumentInv, FileOK, NEW cs, NEW num, Laid(parsed, cs, num), NEW k \in 1..Len(cs),
         NEW i \in At(num[k], Len(file)), file[i].kind = "quote", ~Title(i)
  PROVE  ~Bent(i)
<1>1. FileChapter(cs[k], num[k])
  BY LaidChapter
<1>2. PICK a \in DOMAIN cs[k].blocks : cs[k].blocks[a].type # "figure" /\ cs[k].blocks[a].text = Item(i)
  BY <1>1 DEF FileChapter, TextsRead, Textual
<1>3. a \in 1..Len(cs[k].blocks)
  BY LaidBlocks
<1>4. /\ BlocksAt(k)[a] = cs[k].blocks[a] /\ a \in DOMAIN BlocksAt(k) /\ BlocksAt(k)[a] \in BlockSet
      /\ FromItem(cs[k], BlocksAt(k)[a], BlocksAt(k)[a].text[2])
  BY <1>3, BlockComes
<1>5. BlocksAt(k)[a].text = Item(i) /\ BlocksAt(k)[a].text[2] = i
  BY <1>2, <1>4, TextIs
<1>6. BlocksAt(k)[a].type = "text"
  <2>1. BlocksAt(k)[a].type = TypeOfItem(i)
    BY <1>2, <1>4, <1>5 DEF FromItem
  <2>2. QED
    BY <2>1 DEF TypeOfItem
<1>7. PICK parts \in Nat : parts = BlocksAt(k)[a].parts
  BY <1>4 DEF BlockSet
<1>8. IsText(BlocksAt(k)[a])
  BY <1>6 DEF IsText
<1>9. ~IsBent(BlocksAt(k)[a].text)
  BY <1>4, <1>6, <1>7, <1>8, BentIs
<1>10. QED
  BY <1>5, <1>9 DEF IsBent, Bent

(* A text says what the file says, part by part.                             *)
LEMMA SaysReads ==
  ASSUME DocumentInv, FileOK, NEW cs, NEW num, Laid(parsed, cs, num), NEW k \in 1..Len(cs), NEW b \in 1..Len(cs[k].blocks),
         IsText(BlocksAt(k)[b])
  PROVE  LoadedText(k, b) = Reads(BlocksAt(k)[b].text, BlocksAt(k)[b].text[2])
<1> DEFINE block == BlocksAt(k)[b]
           i     == block.text[2]
<1>1. /\ b \in DOMAIN BlocksAt(k) /\ i \in At(num[k], Len(file)) /\ FromItem(cs[k], block, i)
  BY BlockComes
<1>2. LoadedText(k, b) = TextSays(block.text, block.parts)
  BY <1>1, LoadedIs
<1>3. IsBent(block.text) <=> Bent(i)
  <2>1. CASE block.text = Item(i)
    BY <2>1 DEF IsBent, Bent
  <2>2. CASE block.text # Item(i)
    <3>1. file[i].kind = "quote" /\ block.type = "text" /\ ~Title(i)
      BY <1>1, <2>2 DEF FromItem
    <3>2. ~Bent(i)
      BY <1>1, <3>1, QuotesStand
    <3>3. block \in BlockSet
      BY BlockComes
    <3>4. PICK parts \in Nat : parts = block.parts
      BY <3>3 DEF BlockSet
    <3>5. ~IsBent(block.text)
      BY <1>1, <3>1, <3>4, BentIs
    <3>6. QED
      BY <3>2, <3>5
  <2>3. QED
    BY <2>1, <2>2
<1>4. block.parts = file[i].parts
  BY <1>1 DEF FromItem
<1>5. IsBent(block.text) = Bent(i)
  BY <1>3 DEF IsBent, Bent
<1> HIDE DEF block, i
<1>6. \A p : (Done(block.text, p) /\ ~IsBent(block.text)) = (Done(block.text, p) /\ ~Bent(i))
  BY <1>5
<1>7. TextSays(block.text, block.parts) = [p \in 1..file[i].parts |-> <<block.text, p, Done(block.text, p) /\ ~Bent(i)>>]
  BY <1>4, <1>6 DEF TextSays
<1>8. QED
  BY <1>2, <1>7 DEF Reads, block, i

(* And a heading its title.                                                  *)
LEMMA HeadingReads ==
  ASSUME DocumentInv, NEW cs, NEW num, Laid(parsed, cs, num), NEW k \in 1..Len(cs), NEW b \in 1..Len(cs[k].blocks),
         BlocksAt(k)[b].type = "heading"
  PROVE  LoadedText(k, b) = <<<<BlocksAt(k)[b].text, 1, Done(BlocksAt(k)[b].text, 1)>>>>
<1> DEFINE block == BlocksAt(k)[b]
           key   == <<"section", block.section>>
<1>1. FromItem(cs[k], block, block.text[2])
  BY BlockComes
<1>2. block.section \in DOMAIN cs[k].sections /\ cs[k].sections[block.section].title = block.text
  BY <1>1 DEF FromItem
<1>3. parsed.chapters[k].sections = cs[k].sections
  BY LaidIs
<1>4. key \in Keys(k)
  BY <1>2, <1>3 DEF Keys, Structural
<1>5. TitleOf(parsed.chapters[k], key) = block.text
  <2>1. key[1] = "section" /\ key[2] = block.section
    OBVIOUS
  <2>2. QED
    BY <1>2, <1>3, <2>1 DEF TitleOf
<1>6. HeadingText(k, key) = <<<<block.text, 1, Done(block.text, 1)>>>>
  BY <1>4, <1>5, HeadingSays
<1>7. LoadedText(k, b) = HeadingText(k, key)
  BY DEF LoadedText, BlocksAt
<1>8. QED
  BY <1>6, <1>7

-------------------------------------------------------------------------------
(* A block is printed as its item is.                                        *)
BlockPrinted(k, b, to) == IF to = "docx" THEN DocxBlock(k, b) ELSE EpubBlock(k, b)

LEMMA BlockIsPrinted ==
  ASSUME DocumentInv, FileOK, NEW cs, NEW num, Laid(parsed, cs, num), NEW k \in 1..Len(cs), NEW b \in 1..Len(cs[k].blocks),
         NEW to \in Formats
  PROVE  BlockPrinted(k, b, to) = PrintOf(cs[k].blocks[b], to)
<1> DEFINE block == BlocksAt(k)[b]
           note  == IF to = "docx" /\ format = "docx" THEN block.note ELSE 0
<1>1. block = cs[k].blocks[b] /\ block \in BlockSet
  BY BlockComes
<1>2. block = parsed.chapters[k].blocks[b]
  BY DEF BlocksAt
<1>3. CASE block.type = "figure"
  <2>1. parsed.assets[block.asset] = file[block.text[2]].image
    <3>1. FiguresRead(cs[k], parsed.assets) /\ b \in DOMAIN cs[k].blocks
      BY LaidChapter, LaidBlocks
    <3>2. QED
      BY <1>1, <1>3, <3>1 DEF FiguresRead
  <2>2. BlockPrinted(k, b, to) = Printed("figure", 0, <<>>, parsed.assets[block.asset], 0)
    BY <1>2, <1>3 DEF BlockPrinted, DocxBlock, EpubBlock
  <2>3. QED
    BY <1>1, <1>3, <2>1, <2>2 DEF PrintOf
<1>4. CASE block.type = "note"
  <2>1. LoadedText(k, b) = Reads(block.text, block.text[2])
    BY <1>4, SaysReads DEF IsText
  <2>2. BlockPrinted(k, b, to) = IF to = "docx" THEN <<>> ELSE Printed("note", 0, LoadedText(k, b), 0, block.note)
    BY <1>2, <1>4 DEF BlockPrinted, DocxBlock, EpubBlock
  <2>3. QED
    BY <1>1, <1>4, <2>1, <2>2 DEF PrintOf
<1>5. CASE block.type = "heading"
  <2>1. LoadedText(k, b) = <<<<block.text, 1, Done(block.text, 1)>>>>
    BY <1>5, HeadingReads
  <2>2. BlockPrinted(k, b, to) =
          Printed("heading", IF to = "docx" THEN block.level ELSE Max({2, block.level}), LoadedText(k, b), 0, note)
    BY <1>2, <1>5 DEF BlockPrinted, DocxBlock, EpubBlock
  <2>3. QED
    BY <1>1, <1>5, <2>1, <2>2 DEF PrintOf
<1>6. CASE block.type \notin {"figure", "note", "heading"}
  <2>1. LoadedText(k, b) = Reads(block.text, block.text[2])
    BY <1>6, SaysReads DEF IsText
  <2>2. BlockPrinted(k, b, to) = Printed(block.type, 0, LoadedText(k, b), 0, note)
    BY <1>2, <1>6 DEF BlockPrinted, DocxBlock, EpubBlock
  <2>3. QED
    BY <1>1, <1>6, <2>1, <2>2 DEF PrintOf
<1>7. QED
  BY <1>3, <1>4, <1>5, <1>6

(* The notes after the blocks of a chapter.                                  *)
NotePrinted(n, to) ==
  IF to = "docx" THEN <<>> ELSE Printed("note", 0, <<<<Note(n), 1, Done(Note(n), 1)>>>>, 0, n)

(* A note at the end of a chapter says what the file's note says.            *)
LEMMA NoteReads ==
  ASSUME DocumentInv, NEW cs, NEW num, Laid(parsed, cs, num), NEW k \in 1..Len(cs), NEW m \in 1..Len(NotesHere(cs, k)),
         NEW b, b = Len(cs[k].blocks) + m, NEW n, n = NotesHere(cs, k)[m]
  PROVE  /\ BlocksAt(k)[b] = NoteBlock(n) /\ n \in Notes
         /\ b \in DOMAIN BlocksAt(k)
         /\ LoadedText(k, b) = <<<<Note(n), 1, Done(Note(n), 1)>>>>
         /\ \A to \in Formats : BlockPrinted(k, b, to) = NotePrinted(n, to)
<1>1. b \in DOMAIN BlocksAt(k) /\ BlocksAt(k)[b] = NoteBlock(n)
  <2>1. Len(cs[k].blocks) \in Nat /\ Len(NotesHere(cs, k)) \in Nat
          /\ DOMAIN BlocksAt(k) = 1..(Len(cs[k].blocks) + Len(NotesHere(cs, k)))
          /\ BlocksAt(k)[Len(cs[k].blocks) + m] = NoteBlock(NotesHere(cs, k)[m])
    BY LaidBlocks DEF BlocksAt
  <2>2. QED
    BY <2>1
<1>2. n \in Notes
  <2>1. NotesHere(cs, k) \in Seq(Notes)
    BY LaidIs
  <2>2. QED
    BY <2>1
<1>3. /\ BlocksAt(k)[b].type = "note" /\ BlocksAt(k)[b].text = Note(n) /\ BlocksAt(k)[b].parts = 1
      /\ BlocksAt(k)[b].note = n
  BY <1>1, <1>2, NoteBlockIs
<1>4. IsText(BlocksAt(k)[b])
  BY <1>3 DEF IsText
<1>5. LoadedText(k, b) = TextSays(Note(n), 1)
  BY <1>1, <1>3, <1>4, LoadedIs
<1>6. ~IsBent(Note(n))
  <2>1. IsBent(BlocksAt(k)[b].text) => BlocksAt(k)[b].type = "table"
    BY <1>1, <1>3, <1>4, BentIs
  <2>2. QED
    BY <1>3, <2>1
<1>7. TextSays(Note(n), 1) = <<<<Note(n), 1, Done(Note(n), 1)>>>>
  <2>1. (Done(Note(n), 1) /\ ~IsBent(Note(n))) = Done(Note(n), 1)
    BY <1>6 DEF Done
  <2>2. \A p \in 1..1 : p = 1
    OBVIOUS
  <2>3. TextSays(Note(n), 1) = [p \in 1..1 |-> <<Note(n), 1, Done(Note(n), 1)>>]
    BY <2>1, <2>2 DEF TextSays
  <2>4. QED
    BY <2>3
<1>8. \A to \in Formats : BlockPrinted(k, b, to) = NotePrinted(n, to)
  BY <1>3, <1>5, <1>7 DEF BlockPrinted, DocxBlock, EpubBlock, NotePrinted, BlocksAt
<1>9. QED
  BY <1>1, <1>2, <1>5, <1>7, <1>8

-------------------------------------------------------------------------------
(* The notes of a DOCX: a chapter refers to a note when the file does.       *)
LEMMA NoteAtBlock ==
  ASSUME FileOK, format = "docx", NEW c \in ChapterSet, NEW q, NEW b \in DOMAIN c.blocks, NEW n \in Notes,
         c.blocks[b].note = n, BlocksRead(c, q, Len(file))
  PROVE  c.blocks[b].text[2] \in At(q, Len(file)) /\ NoteAt(c.blocks[b].text[2]) = n
<1>1. PICK i \in At(q, Len(file)) : FromItem(c, c.blocks[b], i)
  BY DEF BlocksRead
<1>2. c.blocks[b].text[2] = i
  BY <1>1, FromItemIs
<1>3. n # 0
  BY DocumentsAssumption
<1>4. i \in 1..Len(file)
  BY <1>1 DEF At
<1>5. c.blocks[b].type \notin {"table", "figure"} /\ file[i].note = n /\ ~Title(i)
      /\ file[i].kind \notin {"image", "break"} /\ c.blocks[b].type = TypeOfItem(i)
  BY <1>1, <1>3 DEF FromItem
<1>6. file[i].kind # "table"
  BY <1>5 DEF TypeOfItem
<1>7. NoteAt(i) = n
  BY <1>5, <1>6 DEF NoteAt
<1>8. QED
  BY <1>1, <1>2, <1>7

LEMMA BlockAtNote ==
  ASSUME FileOK, format = "docx", NEW c \in ChapterSet, NEW q, NEW i \in At(q, Len(file)), NEW n \in Notes, NoteAt(i) = n,
         BlocksRead(c, q, Len(file)), TextsRead(c, q, Len(file))
  PROVE  \E b \in References(c, n) : c.blocks[b].text[2] = i
<1>1. n # 0
  BY DocumentsAssumption
<1>2. ~Title(i) /\ file[i].kind \notin {"table", "image"} /\ file[i].note = n
  BY <1>1 DEF NoteAt
<1>3. file[i].kind \in {"heading", "text", "caption", "table", "image"}
  BY ItemIs DEF At
<1>4. PICK b \in DOMAIN c.blocks : c.blocks[b].type # "figure" /\ c.blocks[b].text = Item(i)
  BY <1>2, <1>3 DEF TextsRead, Textual
<1>5. PICK j \in At(q, Len(file)) : FromItem(c, c.blocks[b], j)
  BY <1>4 DEF BlocksRead
<1>6. j = i
  BY <1>4, <1>5, FromItemIs, TextIs
<1>7. c.blocks[b].type = TypeOfItem(i)
  BY <1>4, <1>5, <1>6 DEF FromItem
<1>8. c.blocks[b].type \notin {"table", "figure"}
  BY <1>2, <1>3, <1>4, <1>7 DEF TypeOfItem
<1>9. c.blocks[b].note = n
  BY <1>2, <1>5, <1>6, <1>8 DEF FromItem
<1>10. QED
  BY <1>4, <1>9, TextIs DEF References

(* A chapter that prints nothing refers to nothing.                          *)
LEMMA NothingRefers ==
  ASSUME FileOK, format = "docx", NEW q, Nothing(q, Len(file)), NEW i \in At(q, Len(file)), NEW n \in Notes
  PROVE  NoteAt(i) # n
<1>1. n # 0
  BY DocumentsAssumption
<1>2. file[i].kind \in {"heading", "text", "caption", "table", "image"}
  BY ItemIs DEF At
<1>3. QED
  BY <1>1, <1>2 DEF Nothing, NoteAt, Textual

(* The first block that refers to a note comes from the first item that does.*)
LEMMA FirstReference ==
  ASSUME FileOK, format = "docx", NEW cs, NEW num, Laid(parsed, cs, num), NEW k \in 1..Len(cs), NEW n \in NotesIn(cs, k),
         NEW b, b = Min(References(cs[k], n)), NEW i, i = cs[k].blocks[b].text[2]
  PROVE  i \in At(num[k], Len(file)) /\ FirstAt(n) = {i}
<1>1. /\ Len(cs) \in Nat /\ num \in [1..Len(cs) -> 0..ChapterOf(Len(file))]
      /\ \A x, y \in 1..Len(cs) : x < y => num[x] < num[y]
      /\ \A q \in 0..ChapterOf(Len(file)) : (\E x \in 1..Len(cs) : num[x] = q) \/ Nothing(q, Len(file))
  BY LaidIs DEF Laid, AsFile
<1>2. \A x \in 1..Len(cs) : FileChapter(cs[x], num[x]) /\ cs[x] \in ChapterSet
  BY LaidChapter, LaidIs
<1>3. n \in Notes /\ References(cs[k], n) # {} /\ \A x \in 1..(k - 1) : References(cs[x], n) = {}
  BY DEF NotesIn
<1>4. b \in DOMAIN cs[k].blocks /\ cs[k].blocks[b].note = n /\ b \in Nat
      /\ \A a \in DOMAIN cs[k].blocks : cs[k].blocks[a].note = n => b <= a
  BY <1>2, <1>3, ReferencesAre
<1>5. BlocksRead(cs[k], num[k], Len(file))
  BY <1>2 DEF FileChapter
<1>6. i \in At(num[k], Len(file)) /\ NoteAt(i) = n
  BY <1>2, <1>3, <1>4, <1>5, NoteAtBlock
<1>7. i \in 1..Len(file) /\ ChapterOf(i) = num[k] /\ i \in Nat /\ Len(file) \in Nat /\ DOMAIN file = 1..Len(file)
  <2>1. i \in 1..Len(file) /\ ChapterOf(i) = num[k]
    BY <1>6 DEF At
  <2>2. QED
    BY <2>1, ItemIs
<1>8. ASSUME NEW j \in 1..(i - 1), NoteAt(j) = n PROVE FALSE
  <2>1. j \in 1..Len(file) /\ j \in Nat /\ j < i
    BY <1>7
  <2>2. ChapterOf(j) \in Nat /\ ChapterOf(j) <= ChapterOf(i) /\ ChapterOf(i) <= ChapterOf(Len(file)) /\ ChapterOf(Len(file)) \in Nat
    <3>1. ChapterOf(j) \in Nat /\ ChapterOf(Len(file)) \in Nat
      BY <1>7, <2>1, ChapterIs
    <3>2. i <= Len(file) /\ j <= i
      BY <1>7, <2>1
    <3>3. ChapterOf(j) <= ChapterOf(i)
      BY <1>7, <2>1, <3>2, ChapterGrows
    <3>4. ChapterOf(i) <= ChapterOf(Len(file))
      BY <1>7, <3>2, ChapterGrows
    <3>5. QED
      BY <3>1, <3>3, <3>4
  <2>3. ChapterOf(j) \in 0..ChapterOf(Len(file)) /\ j \in At(ChapterOf(j), Len(file))
    <3>1. PICK q \in Nat, l \in Nat, m \in Nat : q = ChapterOf(j) /\ l = ChapterOf(Len(file)) /\ m = ChapterOf(i)
      BY <1>7, <2>2, ChapterIs
    <3>2. q \in 0..l
      BY <2>2, <3>1
    <3>3. QED
      BY <2>1, <3>1, <3>2 DEF At
  <2>4. PICK x \in 1..Len(cs) : num[x] = ChapterOf(j)
    BY <1>1, <1>3, <1>8, <2>3, NothingRefers
  <2>5. PICK a \in References(cs[x], n) : cs[x].blocks[a].text[2] = j
    <3>1. BlocksRead(cs[x], num[x], Len(file)) /\ TextsRead(cs[x], num[x], Len(file)) /\ cs[x] \in ChapterSet
      BY <1>2 DEF FileChapter
    <3>2. QED
      BY <1>3, <1>8, <2>3, <2>4, <3>1, BlockAtNote
  <2>6. x \notin 1..(k - 1)
    BY <1>3, <2>5
  <2>7. x \in Nat /\ k \in Nat /\ x \in Int /\ ~(x < k)
    BY <1>1, <2>6
  <2>8. ~(k < x)
    BY <1>1, <1>7, <2>2, <2>4
  <2>9. x = k
    BY <2>7, <2>8
  <2>10. a \in DOMAIN cs[k].blocks /\ cs[k].blocks[a].note = n
    BY <2>5, <2>9 DEF References
  <2>11. b <= a
    BY <1>4, <2>10
  <2>12. cs[k].blocks \in Seq(BlockSet)
    BY <1>2 DEF ChapterSet
  <2>13. a \in Nat
    BY <2>10, <2>12
  <2>14. b = a \/ b < a
    BY <1>4, <2>11, <2>13
  <2>15. i <= j
    <3>1. b < a => cs[k].blocks[b].text[2] <= cs[k].blocks[a].text[2]
      BY <1>4, <1>5, <2>10 DEF BlocksRead
    <3>2. b = a => i = j
      BY <2>5, <2>9
    <3>3. QED
      BY <1>7, <2>1, <2>5, <2>9, <2>14, <3>1, <3>2
  <2>16. QED
    BY <1>7, <2>1, <2>15
<1>9. i \in FirstAt(n)
  BY <1>6, <1>7, <1>8 DEF FirstAt
<1>10. ASSUME NEW j \in FirstAt(n) PROVE j = i
  <2>1. j \in 1..Len(file) /\ j \in Nat /\ NoteAt(j) = n /\ \A x \in 1..(j - 1) : NoteAt(x) # n
    BY <1>7 DEF FirstAt
  <2>2. ~(i < j)
    <3>1. i < j => i \in 1..(j - 1)
      BY <1>7, <2>1
    <3>2. QED
      BY <1>6, <2>1, <3>1
  <2>3. ~(j < i)
    <3>1. j < i => j \in 1..(i - 1)
      BY <1>7, <2>1
    <3>2. QED
      BY <1>8, <2>1, <3>1
  <2>4. QED
    BY <1>7, <2>1, <2>2, <2>3
<1>11. QED
  BY <1>6, <1>9, <1>10

(* The notes that are first referred to in a chapter, told both ways.        *)
NotesAt(q) == {n \in Notes : \E i \in FirstAt(n) : ChapterOf(i) = q}

LEMMA NotesAreAt ==
  ASSUME FileOK, format = "docx", NEW cs, NEW num, Laid(parsed, cs, num), NEW k \in 1..Len(cs)
  PROVE  NotesIn(cs, k) = NotesAt(num[k])
<1>1. Len(cs) \in Nat /\ num \in [1..Len(cs) -> 0..ChapterOf(Len(file))] /\ \A x, y \in 1..Len(cs) : x < y => num[x] < num[y]
  BY LaidIs DEF Laid, AsFile
<1>2. ASSUME NEW n \in NotesIn(cs, k) PROVE n \in NotesAt(num[k])
  <2>1. PICK i : i \in At(num[k], Len(file)) /\ FirstAt(n) = {i}
    BY FirstReference
  <2>2. n \in Notes
    BY DEF NotesIn
  <2>3. QED
    BY <2>1, <2>2 DEF NotesAt, At
<1>3. ASSUME NEW n \in NotesAt(num[k]) PROVE n \in NotesIn(cs, k)
  <2>1. n \in Notes
    BY DEF NotesAt
  <2>2. PICK i \in DOMAIN file : ChapterOf(i) = num[k] /\ NoteAt(i) = n /\ \A j \in 1..(i - 1) : NoteAt(j) # n
    BY DEF NotesAt, FirstAt
  <2>3. DOMAIN file = 1..Len(file) /\ Len(file) \in Nat
    BY DEF FileOK
  <2>4. i \in 1..Len(file) /\ i \in Nat /\ i \in At(num[k], Len(file))
    BY <2>2, <2>3 DEF At
  <2>5. \A x \in 1..Len(cs) : /\ BlocksRead(cs[x], num[x], Len(file)) /\ TextsRead(cs[x], num[x], Len(file))
                              /\ cs[x] \in ChapterSet
    BY LaidChapter DEF FileChapter
  <2>6. References(cs[k], n) # {}
    BY <2>1, <2>2, <2>4, <2>5, BlockAtNote
  <2>7. ASSUME NEW x \in 1..(k - 1), References(cs[x], n) # {} PROVE FALSE
    <3>1. x \in 1..Len(cs) /\ x < k
      BY <1>1
    <3>2. PICK b \in DOMAIN cs[x].blocks : cs[x].blocks[b].note = n
      BY <2>7 DEF References
    <3>3. PICK j \in At(num[x], Len(file)) : NoteAt(j) = n
      BY <2>1, <2>5, <3>1, <3>2, NoteAtBlock
    <3>4. j \in 1..Len(file) /\ j \in Nat /\ ChapterOf(j) = num[x]
      BY <2>3, <3>3 DEF At
    <3>5. num[x] < num[k] /\ num[x] \in Nat /\ num[k] \in Nat
      <4>1. PICK l \in Nat : l = ChapterOf(Len(file))
        BY <2>3, ChapterIs
      <4>2. num \in [1..Len(cs) -> 0..l]
        BY <1>1, <4>1
      <4>3. QED
        BY <1>1, <3>1, <4>2
    <3>6. ~(i <= j)
      BY <2>2, <2>4, <3>4, <3>5, ChapterGrows
    <3>7. j \in 1..(i - 1)
      BY <2>4, <3>4, <3>6
    <3>8. QED
      BY <2>2, <3>3, <3>7
  <2>8. QED
    BY <2>1, <2>6, <2>7 DEF NotesIn
<1>4. QED
  BY <1>2, <1>3

(* And in the same order.                                                    *)
LEMMA NotesFollow ==
  ASSUME FileOK, format = "docx", NEW cs, NEW num, Laid(parsed, cs, num), NEW k \in 1..Len(cs)
  PROVE  NotesOf(cs, k) = NotesFrom(num[k])
<1> DEFINE S == NotesIn(cs, k)
           f == FirstBlock(cs[k], S)
           Under(x) == {y \in S : Max(FirstAt(y)) < Max(FirstAt(x))}
<1>1. FileChapter(cs[k], num[k]) /\ cs[k] \in ChapterSet
  BY LaidChapter, LaidIs
<1>2. S = NotesAt(num[k])
  BY NotesAreAt
<1>3. ASSUME NEW n \in S
      PROVE  /\ f[n] \in DOMAIN cs[k].blocks /\ f[n] \in Nat
             /\ Max(FirstAt(n)) = cs[k].blocks[f[n]].text[2] /\ Max(FirstAt(n)) \in Nat /\ NoteAt(Max(FirstAt(n))) = n
  <2>1. PICK b : b = Min(References(cs[k], n))
    OBVIOUS
  <2>2. PICK i : i = cs[k].blocks[b].text[2]
    OBVIOUS
  <2>3. i \in At(num[k], Len(file)) /\ FirstAt(n) = {i}
    BY <2>1, <2>2, FirstReference
  <2>4. i \in Nat
    BY <2>3, ItemIs DEF At
  <2>5. Max(FirstAt(n)) = i
    <3>1. FirstAt(n) \in SUBSET Nat /\ i \in FirstAt(n) /\ \A x \in FirstAt(n) : x <= i
      BY <2>3, <2>4
    <3>2. QED
      BY <3>1, MaxOf
  <2>6. NoteAt(i) = n
    BY <2>3 DEF FirstAt
  <2>7. b \in DOMAIN cs[k].blocks /\ b \in Nat
    BY <1>1, <2>1, ReferencesAre DEF NotesIn
  <2>8. f[n] = b
    BY <2>1 DEF FirstBlock
  <2>9. QED
    BY <2>2, <2>4, <2>5, <2>6, <2>7, <2>8
<1>4. \A a, b \in DOMAIN cs[k].blocks : a < b => cs[k].blocks[a].text[2] <= cs[k].blocks[b].text[2]
  BY <1>1 DEF FileChapter, BlocksRead
<1> HIDE DEF f, S
<1>5. ASSUME NEW x \in S, NEW y \in S, f[y] < f[x] PROVE Max(FirstAt(y)) < Max(FirstAt(x))
  <2>1. Max(FirstAt(y)) <= Max(FirstAt(x))
    BY <1>3, <1>4, <1>5
  <2>2. x # y
    BY <1>3, <1>5
  <2>3. Max(FirstAt(y)) # Max(FirstAt(x))
    BY <1>3, <2>2
  <2>4. PICK m \in Nat, n \in Nat : m = Max(FirstAt(y)) /\ n = Max(FirstAt(x))
    BY <1>3
  <2>5. QED
    BY <2>1, <2>3, <2>4
<1>6. ASSUME NEW x \in S, NEW y \in S, ~(f[y] < f[x]) PROVE ~(Max(FirstAt(y)) < Max(FirstAt(x)))
  <2>1. PICK a \in Nat, b \in Nat : a = f[y] /\ b = f[x]
    BY <1>3
  <2>2. PICK m \in Nat, n \in Nat : m = Max(FirstAt(y)) /\ n = Max(FirstAt(x))
    BY <1>3
  <2>3. a = b \/ b < a
    BY <1>6, <2>1
  <2>4. a = b => m = n
    BY <1>3, <2>1, <2>2
  <2>5. b < a => n < m
    BY <1>5, <2>1, <2>2
  <2>6. QED
    BY <2>2, <2>3, <2>4, <2>5
<1>7. \A x \in S : Under(x) = Below(S, f, x)
  BY <1>5, <1>6 DEF Below
<1>8. NotesFrom(num[k]) = [n \in 1..Cardinality(S) |-> CHOOSE x \in S : Cardinality(Under(x)) = n - 1]
  BY <1>2 DEF NotesFrom, Sorted, NotesAt
<1>9. ASSUME NEW n
      PROVE  (CHOOSE x \in S : Cardinality(Under(x)) = n - 1) = CHOOSE x \in S : Cardinality(Below(S, f, x)) = n - 1
  <2> HIDE DEF Under
  <2>1. \A x : (x \in S /\ Cardinality(Under(x)) = n - 1) <=> (x \in S /\ Cardinality(Below(S, f, x)) = n - 1)
    BY <1>7
  <2>2. QED
    BY <2>1
<1>10. NotesOf(cs, k) = InOrder(S, f)
  BY NotesOfIs DEF S, f
<1>11. QED
  BY <1>8, <1>9, <1>10 DEF InOrder

-------------------------------------------------------------------------------
LEMMA Associates ==
  ASSUME NEW U, NEW r \in Seq(U), NEW s \in Seq(U), NEW t \in Seq(U)
  PROVE  /\ (r \o s) \o t = r \o (s \o t)
         /\ r \o <<>> = r /\ <<>> \o r = r /\ r \o s \in Seq(U)
<1>1. r \o s \in Seq(U) /\ s \o t \in Seq(U)
  OBVIOUS
<1>2. r \o <<>> = r /\ <<>> \o r = r
  OBVIOUS
<1>3. (r \o s) \o t = r \o (s \o t)
  OBVIOUS
<1>4. QED
  BY <1>1, <1>2, <1>3

(* The first n sequences, and the m after them.                              *)
Rest(F, G, n, m) == \A j \in 1..m : G[j] = F[n + j]

LEMMA FlatSplits ==
  ASSUME NEW n \in Nat, NEW m \in Nat, NEW l, l = n + m, NEW F, SeqsIn(F, l, Lines), NEW G, Rest(F, G, n, m)
  PROVE  Flat(F, l) = Flat(F, n) \o Flat(G, m)
<1> DEFINE Bad == {j \in 0..m : Flat(F, n + j) # Flat(F, n) \o Flat(G, j)}
<1>1. \A i \in 1..(n + m) : F[i] \in Seq(Lines)
  BY DEF SeqsIn
<1>2. \A i \in 1..n : F[i] \in Seq(Lines)
  BY <1>1
<1>3. \A j \in 1..m : G[j] \in Seq(Lines)
  <2> TAKE j \in 1..m
  <2>1. n + j \in 1..(n + m) /\ G[j] = F[n + j]
    BY DEF Rest
  <2>2. QED
    BY <1>1, <2>1
<1>4. \A a \in 0..m : Flat(F, n + a) \in Seq(Lines)
  <2> TAKE a \in 0..m
  <2>1. [i \in 1..(n + a) |-> F[i]] \in Seq(Seq(Lines))
    <3>1. \A i \in 1..(n + a) : F[i] \in Seq(Lines)
      BY <1>1
    <3>2. QED
      BY <3>1
  <2>2. QED
    BY <2>1, FlattenTyped DEF Flat
<1>5. \A a \in 0..m : Flat(G, a) \in Seq(Lines)
  <2> TAKE a \in 0..m
  <2>1. [i \in 1..a |-> G[i]] \in Seq(Seq(Lines))
    <3>1. \A i \in 1..a : G[i] \in Seq(Lines)
      BY <1>3
    <3>2. QED
      BY <3>1
  <2>2. QED
    BY <2>1, FlattenTyped DEF Flat
<1>6. SUFFICES ASSUME Bad # {} PROVE FALSE
  <2>1. m \in 0..m
    OBVIOUS
  <2>2. QED
    BY <2>1
<1>7. PICK j \in Bad : \A x \in Bad : j <= x
  <2>1. Bad \in SUBSET Nat
    OBVIOUS
  <2>2. QED
    BY <1>6, <2>1, Least
<1>8. j \in 0..m /\ j \in Nat /\ Flat(F, n + j) # Flat(F, n) \o Flat(G, j)
  BY <1>7
<1>9. Flat(F, n + 0) \in Seq(Lines)
  <2>1. 0 \in 0..m
    OBVIOUS
  <2>2. QED
    BY <1>4, <2>1
<1>20. CASE j = 0
  <2>1. n + 0 = n
    OBVIOUS
  <2>2. Flat(G, 0) = <<>>
    <3>1. [i \in 1..0 |-> G[i]] = <<>>
      OBVIOUS
    <3>2. QED
      BY <3>1, FlattenEmpty DEF Flat
  <2>3. Flat(F, n) \in Seq(Lines)
    BY <1>9, <2>1
  <2>4. Flat(F, n) \o <<>> = Flat(F, n)
    BY <2>3
  <2>5. QED
    BY <1>8, <1>20, <2>1, <2>2, <2>4
<1>21. CASE j # 0
  <2>1. PICK p \in Nat : j = p + 1 /\ p \in 0..m /\ p < j
    <3>1. j - 1 \in Nat /\ j = (j - 1) + 1 /\ j - 1 \in 0..m /\ j - 1 < j
      BY <1>8, <1>21
    <3>2. QED
      BY <3>1
  <2>2. Flat(F, n + p) = Flat(F, n) \o Flat(G, p)
    BY <1>7, <1>8, <2>1
  <2>3. Flat(F, n + j) = Flat(F, n + p) \o F[n + j]
    <3>1. PICK a \in Nat : a = n + p
      BY <2>1
    <3>2. n + j = a + 1 /\ \A i \in 1..(a + 1) : F[i] \in Seq(Lines)
      BY <1>1, <1>8, <2>1, <3>1
    <3>3. Flat(F, a + 1) = Flat(F, a) \o F[a + 1]
      BY <3>2, FlatIs
    <3>4. QED
      BY <3>1, <3>2, <3>3
  <2>4. Flat(G, j) = Flat(G, p) \o G[j]
    <3>1. \A i \in 1..(p + 1) : G[i] \in Seq(Lines)
      BY <1>3, <1>8, <2>1
    <3>2. Flat(G, p + 1) = Flat(G, p) \o G[p + 1]
      BY <2>1, <3>1, FlatIs
    <3>3. QED
      BY <2>1, <3>2
  <2>5. G[j] = F[n + j] /\ G[j] \in Seq(Lines)
    <3>1. j \in 1..m
      BY <1>8, <1>21
    <3>2. QED
      BY <1>3, <3>1 DEF Rest
  <2>6. Flat(F, n) \in Seq(Lines) /\ Flat(G, p) \in Seq(Lines)
    <3>1. n + 0 = n
      OBVIOUS
    <3>2. QED
      BY <1>5, <1>9, <2>1, <3>1
  <2>7. Flat(F, n + j) = Flat(F, n) \o Flat(G, j)
    <3>1. \A r, s, t \in Seq(Lines) : (r \o s) \o t = r \o (s \o t)
      BY Associates
    <3>2. (Flat(F, n) \o Flat(G, p)) \o G[j] = Flat(F, n) \o (Flat(G, p) \o G[j])
      BY <2>5, <2>6, <3>1
    <3>3. QED
      BY <2>2, <2>3, <2>4, <2>5, <3>2
  <2>8. QED
    BY <1>8, <2>7
<1>22. QED
  BY <1>20, <1>21

-------------------------------------------------------------------------------
(* What is printed of a chapter that is stored, and of one of the file.      *)
ChapterPrinted(k, to) ==
  (IF parsed.chapters[k].title = None THEN <<>> ELSE TitlePrinted(k))
    \o FlattenSeq([b \in DOMAIN parsed.chapters[k].blocks |-> BlockPrinted(k, b, to)])

TitleItems(q, to) == [i \in DOMAIN file |-> IF ChapterOf(i) = q /\ Title(i) THEN Expected(i, to) ELSE <<>>]

ChapterExpected(q, to) == TitleOfChapter(q, to) \o BodyOfChapter(q, to) \o NotesOfChapter(q, to)

(* Both ways to join the same sequences.                                     *)
LEMMA FlattenIsFlat ==
  ASSUME NEW F, NEW n \in Nat, DOMAIN F = 1..n
  PROVE  FlattenSeq([i \in DOMAIN F |-> F[i]]) = Flat(F, n)
  BY DEF Flat

(* The blocks of a chapter, and the notes after them.                        *)
LEMMA BlocksPrint ==
  ASSUME DocumentInv, FileOK, NEW cs, NEW num, Laid(parsed, cs, num), NEW k \in 1..Len(cs), NEW to \in Formats,
         NEW notes, notes = [m \in DOMAIN NotesHere(cs, k) |-> NotePrinted(NotesHere(cs, k)[m], to)]
  PROVE  /\ FlattenSeq([b \in DOMAIN parsed.chapters[k].blocks |-> BlockPrinted(k, b, to)])
              = BodyOf(cs[k], to) \o Flat(notes, Len(NotesHere(cs, k)))
         /\ BodyOf(cs[k], to) \in Seq(Lines) /\ Flat(notes, Len(NotesHere(cs, k))) \in Seq(Lines)
<1> DEFINE F == [b \in DOMAIN parsed.chapters[k].blocks |-> BlockPrinted(k, b, to)]
<1>1. PICK n \in Nat, m \in Nat : n = Len(cs[k].blocks) /\ m = Len(NotesHere(cs, k))
  BY LaidBlocks
<1>2. DOMAIN parsed.chapters[k].blocks = 1..(n + m) /\ DOMAIN cs[k].blocks = 1..n /\ DOMAIN NotesHere(cs, k) = 1..m
  BY <1>1, LaidBlocks
<1>3. cs[k] \in ChapterSet /\ BlocksFromFile(cs[k])
  <2>1. cs[k] \in ChapterSet /\ FileChapter(cs[k], num[k])
    BY LaidIs, LaidChapter
  <2>2. Len(file) \in 0..Len(file)
    BY DEF FileOK
  <2>3. QED
    BY <2>1, <2>2, ReadsFromFile DEF FileChapter
<1>4. /\ \A b \in 1..n : Prints(cs[k], to)[b] \in Seq(Lines)
      /\ BodyOf(cs[k], to) \in Seq(Lines)
  BY <1>1, <1>3, BodyTyped
<1>5. \A b \in 1..n : F[b] = Prints(cs[k], to)[b]
  <2> TAKE b \in 1..n
  <2>1. b \in 1..(n + m)
    OBVIOUS
  <2>2. BlockPrinted(k, b, to) = PrintOf(cs[k].blocks[b], to)
    BY <1>1, BlockIsPrinted
  <2>3. QED
    BY <1>2, <2>1, <2>2 DEF Prints
<1>6. \A j \in 1..m : notes[j] = F[n + j] /\ notes[j] \in Seq(Lines)
  <2> TAKE j \in 1..m
  <2>1. n + j \in 1..(n + m)
    OBVIOUS
  <2>2. BlockPrinted(k, n + j, to) = NotePrinted(NotesHere(cs, k)[j], to) /\ NotesHere(cs, k)[j] \in Notes
    BY <1>1, NoteReads
  <2>3. NotePrinted(NotesHere(cs, k)[j], to) \in Seq(Lines)
    <3>1. PICK x \in Notes : x = NotesHere(cs, k)[j]
      BY <2>2
    <3>2. x \in NoteIds /\ Note(x) \in TextSet
      BY TextsAre DEF NoteIds
    <3>3. <<<<Note(x), 1, Done(Note(x), 1)>>>> \in Sayings /\ 0 \in Pictures
      BY <3>2, SayingsAre DEF Pictures
    <3>4. Printed("note", 0, <<<<Note(x), 1, Done(Note(x), 1)>>>>, 0, x) \in Seq(Lines)
      BY <3>2, <3>3, PrintedTyped
    <3>5. QED
      BY <3>1, <3>4 DEF NotePrinted
  <2>4. QED
    BY <1>2, <2>1, <2>2, <2>3
<1>7. \A i \in 1..(n + m) : F[i] \in Seq(Lines)
  <2> TAKE i \in 1..(n + m)
  <2>1. CASE i <= n
    <3>1. i \in 1..n
      BY <2>1
    <3>2. QED
      BY <1>4, <1>5, <3>1
  <2>2. CASE i > n
    <3>1. PICK j \in 1..m : i = n + j
      <4>1. i - n \in 1..m /\ i = n + (i - n)
        BY <2>2
      <4>2. QED
        BY <4>1
    <3>2. QED
      BY <1>6, <3>1
  <2>3. QED
    BY <2>1, <2>2
<1>8. Flat(F, n + m) = Flat(F, n) \o Flat(notes, m)
  <2>1. Rest(F, notes, n, m)
    BY <1>6 DEF Rest
  <2>2. SeqsIn(F, n + m, Lines)
    BY <1>7 DEF SeqsIn
  <2> HIDE DEF F
  <2>3. \A f, g, l : SeqsIn(f, l, Lines) /\ Rest(f, g, n, m) /\ l = n + m => Flat(f, l) = Flat(f, n) \o Flat(g, m)
    BY FlatSplits
  <2>4. QED
    BY <2>1, <2>2, <2>3
<1>9. Flat(F, n) = BodyOf(cs[k], to)
  <2>1. Flat(F, n) = Flat(Prints(cs[k], to), n)
    BY <1>5, FlatSame
  <2>2. QED
    BY <1>1, <2>1 DEF BodyOf
<1>10. FlattenSeq(F) = Flat(F, n + m)
  <2>1. n + m \in Nat /\ DOMAIN F = 1..(n + m) /\ F = [i \in DOMAIN F |-> F[i]]
    BY <1>2
  <2> HIDE DEF F
  <2>2. QED
    BY <2>1, FlattenIsFlat
<1>11. Flat(notes, m) \in Seq(Lines)
  <2>1. [i \in 1..m |-> notes[i]] \in Seq(Seq(Lines))
    <3>1. PICK g : g = notes
      OBVIOUS
    <3>2. \A i \in 1..m : g[i] \in Seq(Lines)
      BY <1>6, <3>1
    <3>3. [i \in 1..m |-> g[i]] \in Seq(Seq(Lines))
      BY <3>2
    <3>4. QED
      BY <3>1, <3>3
  <2>2. QED
    BY <2>1, FlattenTyped DEF Flat
<1>12. QED
  BY <1>1, <1>4, <1>8, <1>9, <1>10, <1>11

(* The body of a chapter.                                                    *)
LEMMA BodyIs ==
  ASSUME DocumentInv, FileOK, NEW cs, NEW num, Laid(parsed, cs, num), NEW k \in 1..Len(cs), NEW to \in Formats
  PROVE  BodyOf(cs[k], to) = BodyOfChapter(num[k], to)
<1>1. BodyOf(cs[k], to) = BodyUpTo(num[k], Len(file), to)
  BY LaidChapter DEF FileChapter, PrintsRead
<1>2. Len(file) \in Nat /\ DOMAIN file = 1..Len(file)
  BY DEF FileOK
<1>3. BodyOfChapter(num[k], to) = BodyUpTo(num[k], Len(file), to)
  <2>1. DOMAIN BodyItems(num[k], to) = 1..Len(file)
    BY <1>2 DEF BodyItems
  <2>2. FlattenSeq([i \in DOMAIN BodyItems(num[k], to) |-> BodyItems(num[k], to)[i]]) = Flat(BodyItems(num[k], to), Len(file))
    BY <1>2, <2>1, FlattenIsFlat
  <2>3. [i \in DOMAIN BodyItems(num[k], to) |-> BodyItems(num[k], to)[i]] = BodyItems(num[k], to)
    BY DEF BodyItems
  <2>4. QED
    BY <2>2, <2>3 DEF BodyOfChapter, BodyUpTo, BodyItems
<1>4. QED
  BY <1>1, <1>3

(* The notes of a chapter.                                                   *)
LEMMA NotesPrint ==
  ASSUME FileOK, NEW cs, NEW num, Laid(parsed, cs, num), NEW k \in 1..Len(cs), NEW to \in Formats,
         NEW notes, notes = [m \in DOMAIN NotesHere(cs, k) |-> NotePrinted(NotesHere(cs, k)[m], to)]
  PROVE  Flat(notes, Len(NotesHere(cs, k))) = NotesOfChapter(num[k], to)
<1>1. NotesHere(cs, k) \in Seq(Notes)
  BY LaidIs
<1>2. PICK m \in Nat : m = Len(NotesHere(cs, k)) /\ DOMAIN notes = 1..m /\ DOMAIN NotesHere(cs, k) = 1..m
  BY <1>1
<1>3. Flat(notes, m) = FlattenSeq(notes)
  <2>1. notes = [i \in DOMAIN notes |-> notes[i]]
    OBVIOUS
  <2>2. QED
    BY <1>2, <2>1, FlattenIsFlat
<1>4. CASE to = "docx"
  <2>1. \A i \in 1..m : notes[i] = <<>>
    BY <1>2, <1>4 DEF NotePrinted
  <2>2. Flat(notes, m) = <<>>
    BY <2>1, FlatNothing
  <2>3. QED
    BY <1>2, <1>4, <2>2 DEF NotesOfChapter
<1>5. CASE to # "docx" /\ format = "epub"
  <2>1. NotesHere(cs, k) = <<>>
    BY <1>5 DEF NotesHere
  <2>2. m = 0
    BY <1>2, <2>1
  <2>3. Flat(notes, m) = <<>>
    <3>1. [i \in 1..0 |-> notes[i]] = <<>>
      OBVIOUS
    <3>2. QED
      BY <2>2, <3>1, FlattenEmpty DEF Flat
  <2>4. QED
    BY <1>2, <1>5, <2>3 DEF NotesOfChapter
<1>6. CASE to # "docx" /\ format # "epub"
  <2>1. format = "docx"
    BY <1>6 DEF FileOK, Formats
  <2>2. NotesHere(cs, k) = NotesFrom(num[k])
    BY <2>1, NotesFollow DEF NotesHere
  <2>3. notes = [n \in DOMAIN NotesFrom(num[k]) |->
                   LET note == NotesFrom(num[k])[n] IN Printed("note", 0, <<<<Note(note), 1, Done(Note(note), 1)>>>>, 0, note)]
    BY <1>6, <2>2 DEF NotePrinted
  <2>4. NotesOfChapter(num[k], to) = FlattenSeq(notes)
    BY <1>6, <2>3 DEF NotesOfChapter
  <2>5. QED
    BY <1>2, <1>3, <2>4
<1>7. QED
  BY <1>4, <1>5, <1>6

-------------------------------------------------------------------------------
(* Sequences of lines, and the empty ones among them.                        *)
LEMMA LinesSkip ==
  ASSUME NEW n \in Nat, NEW m \in Nat, NEW F, NEW G, NEW num \in [1..m -> 1..n],
         SeqsIn(F, n, Lines), Picks(F, G, num, m), Rising(num, m), Elsewhere(F, num, n, m)
  PROVE  Flat(G, m) = Flat(F, n)
  BY FlatSkips

LEMMA FlatOne ==
  ASSUME NEW s \in Seq(Lines), NEW G, G[1] = s
  PROVE  Flat(G, 1) = s
<1>1. 0 \in Nat /\ 0 + 1 = 1 /\ \A i \in 1..(0 + 1) : G[i] \in Seq(Lines)
  OBVIOUS
<1>2. Flat(G, 0) = <<>> /\ Flat(G, 0 + 1) = Flat(G, 0) \o G[0 + 1]
  BY <1>1, FlatIs
<1>3. <<>> \o s = s
  OBVIOUS
<1>4. QED
  BY <1>1, <1>2, <1>3

(* What is expected of a title.                                              *)
LEMMA TitleExpected ==
  ASSUME FileOK, NEW i \in 1..Len(file), Title(i), NEW to \in Formats
  PROVE  Expected(i, to) = Printed("heading", 1, <<<<Item(i), 1, Done(Item(i), 1)>>>>, 0, 0)
<1>1. Heading(i)
  BY DEF Title
<1>2. NoteOn(i, to) = 0
  BY DEF NoteOn, NoteAt
<1>3. TextExpected(i, to) = Printed("heading", 1, <<<<Item(i), 1, Done(Item(i), 1)>>>>, 0, 0)
  BY <1>1, <1>2 DEF TextExpected
<1>4. QuoteExpected(i, to) = <<>> /\ FigureExpected(i) = <<>>
  BY <1>1 DEF QuoteExpected, FigureExpected, Heading
<1>5. TextExpected(i, to) \in Seq(Lines)
  BY ExpectedTyped
<1>6. PICK s \in Seq(Lines) : s = TextExpected(i, to)
  BY <1>5
<1>7. s \o <<>> \o <<>> = s
  OBVIOUS
<1>8. Expected(i, to) = s
  BY <1>4, <1>6, <1>7, ExpectedIs
<1>9. QED
  BY <1>3, <1>6, <1>8

LEMMA TitlesFlat ==
  ASSUME FileOK, NEW q, NEW to \in Formats
  PROVE  /\ TitleOfChapter(q, to) = Flat(TitleItems(q, to), Len(file))
         /\ SeqsIn(TitleItems(q, to), Len(file), Lines)
         /\ \A i \in 1..Len(file) : TitleItems(q, to)[i] = IF ChapterOf(i) = q /\ Title(i) THEN Expected(i, to) ELSE <<>>
<1>1. Len(file) \in Nat /\ DOMAIN file = 1..Len(file)
  BY DEF FileOK
<1>2. \A i \in 1..Len(file) : TitleItems(q, to)[i] = IF ChapterOf(i) = q /\ Title(i) THEN Expected(i, to) ELSE <<>>
  BY <1>1 DEF TitleItems
<1>3. SeqsIn(TitleItems(q, to), Len(file), Lines)
  <2>1. \A i \in 1..Len(file) : Expected(i, to) \in Seq(Lines) /\ <<>> \in Seq(Lines)
    BY ExpectedTyped
  <2>2. QED
    BY <1>2, <2>1 DEF SeqsIn
<1>4. TitleOfChapter(q, to) = Flat(TitleItems(q, to), Len(file))
  <2>1. DOMAIN TitleItems(q, to) = 1..Len(file)
    BY <1>1 DEF TitleItems
  <2>2. FlattenSeq([i \in DOMAIN TitleItems(q, to) |-> TitleItems(q, to)[i]]) = Flat(TitleItems(q, to), Len(file))
    BY <1>1, <2>1, FlattenIsFlat
  <2>3. [i \in DOMAIN TitleItems(q, to) |-> TitleItems(q, to)[i]] = TitleItems(q, to)
    BY DEF TitleItems
  <2>4. QED
    BY <2>2, <2>3 DEF TitleOfChapter, TitleItems
<1>5. QED
  BY <1>2, <1>3, <1>4

(* A chapter without a title has none to print, and one with a title prints  *)
(* that.                                                                     *)
LEMMA NoTitle ==
  ASSUME FileOK, NEW q, \A i \in At(q, Len(file)) : ~Title(i), NEW to \in Formats
  PROVE  TitleOfChapter(q, to) = <<>>
<1>1. \A i \in 1..Len(file) : TitleItems(q, to)[i] = <<>>
  BY TitlesFlat DEF At
<1>2. Len(file) \in Nat
  BY DEF FileOK
<1>3. QED
  BY <1>1, <1>2, FlatNothing, TitlesFlat

LEMMA OneTitle ==
  ASSUME FileOK, NEW q, NEW i \in At(q, Len(file)), Title(i), \A j \in At(q, Len(file)) : Title(j) => j = i, NEW to \in Formats
  PROVE  TitleOfChapter(q, to) = Printed("heading", 1, <<<<Item(i), 1, Done(Item(i), 1)>>>>, 0, 0)
<1> DEFINE F   == TitleItems(q, to)
           num == [x \in 1..1 |-> i]
           G   == [x \in 1..1 |-> Expected(i, to)]
<1>1. Len(file) \in Nat /\ i \in 1..Len(file) /\ ChapterOf(i) = q
  BY DEF FileOK, At
<1>2. num \in [1..1 -> 1..Len(file)]
  BY <1>1
<1>3. SeqsIn(F, Len(file), Lines)
  BY TitlesFlat
<1>4. \A j \in 1..Len(file) : F[j] = IF ChapterOf(j) = q /\ Title(j) THEN Expected(j, to) ELSE <<>>
  BY TitlesFlat
<1>5. Picks(F, G, num, 1)
  BY <1>1, <1>4 DEF Picks
<1>6. Rising(num, 1)
  BY DEF Rising
<1>7. Elsewhere(F, num, Len(file), 1)
  <2>1. SUFFICES ASSUME NEW c \in 1..Len(file), \A x \in 1..1 : num[x] # c PROVE F[c] = <<>>
    BY DEF Elsewhere
  <2>2. c # i
    BY <2>1
  <2>3. ~(ChapterOf(c) = q /\ Title(c))
    BY <2>1, <2>2 DEF At
  <2>4. QED
    BY <1>4, <2>1, <2>3
<1> HIDE DEF F, num
<1>8. Flat(G, 1) = Flat(F, Len(file))
  <2> HIDE DEF G
  <2>1. PICK n \in Nat, m \in Nat : n = Len(file) /\ m = 1
    BY <1>1
  <2>2. num \in [1..m -> 1..n] /\ SeqsIn(F, n, Lines) /\ Picks(F, G, num, m) /\ Rising(num, m) /\ Elsewhere(F, num, n, m)
    BY <1>2, <1>3, <1>5, <1>6, <1>7, <2>1
  <2>3. Flat(G, m) = Flat(F, n)
    BY <2>2, LinesSkip
  <2>4. QED
    BY <2>1, <2>3
<1>9. Flat(G, 1) = Expected(i, to)
  <2>1. Expected(i, to) \in Seq(Lines)
    BY <1>1, ExpectedTyped
  <2>2. G[1] = Expected(i, to)
    OBVIOUS
  <2>3. QED
    BY <2>1, <2>2, FlatOne
<1>10. QED
  BY <1>1, <1>8, <1>9, TitlesFlat, TitleExpected DEF F

(* The title of a chapter is printed once.                                   *)
MadeUp(to) == Printed("heading", 1, <<<<BookTitle, 1, Done(BookTitle, 1)>>>>, 0, 0)

LEMMA TitlePrints ==
  ASSUME DocumentInv, FileOK, NEW cs, NEW num, Laid(parsed, cs, num), NEW k \in 1..Len(cs), NEW to \in Formats,
         NEW title, title = IF parsed.chapters[k].title = None THEN <<>> ELSE TitlePrinted(k)
  PROVE  /\ parsed.chapters[k].title # BookTitle => title = TitleOfChapter(num[k], to)
         /\ parsed.chapters[k].title = BookTitle => title = MadeUp(to) /\ TitleOfChapter(num[k], to) = <<>>
<1>1. parsed.chapters[k].title = cs[k].title
  BY LaidIs
<1>2. /\ cs[k].title # BookTitle => TitleReads(cs[k], num[k], Len(file))
      /\ cs[k].title = BookTitle => \A i \in At(num[k], Len(file)) : ~Title(i)
  BY LaidChapter DEF FileChapter
<1>3. ASSUME cs[k].title # None
      PROVE  TitlePrinted(k) = Printed("heading", 1, <<<<cs[k].title, 1, Done(cs[k].title, 1)>>>>, 0, 0)
  <2>1. <<"chapter", 0>> \in Keys(k)
    BY <1>1, <1>3 DEF Keys, Structural
  <2>2. TitleOf(parsed.chapters[k], <<"chapter", 0>>) = cs[k].title
    <3>1. <<"chapter", 0>>[1] = "chapter"
      OBVIOUS
    <3>2. QED
      BY <1>1, <3>1 DEF TitleOf
  <2>3. HeadingText(k, <<"chapter", 0>>) = <<<<cs[k].title, 1, Done(cs[k].title, 1)>>>>
    BY <2>1, <2>2, HeadingSays
  <2>4. QED
    BY <2>3 DEF TitlePrinted
<1>4. CASE cs[k].title = None
  <2>1. \A i \in At(num[k], Len(file)) : ~Title(i)
    BY <1>2, <1>4, TextIs DEF TitleReads
  <2>2. QED
    BY <1>1, <1>4, <2>1, NoTitle, TextIs
<1>5. CASE cs[k].title = BookTitle
  <2>1. TitleOfChapter(num[k], to) = <<>>
    BY <1>2, <1>5, NoTitle
  <2>2. title = MadeUp(to)
    BY <1>1, <1>3, <1>5, TextIs DEF MadeUp
  <2>3. QED
    BY <1>1, <1>5, <2>1, <2>2
<1>6. CASE cs[k].title # None /\ cs[k].title # BookTitle
  <2>1. PICK i \in At(num[k], Len(file)) : Title(i) /\ cs[k].title = Item(i)
    BY <1>2, <1>6 DEF TitleReads
  <2>2. \A j \in At(num[k], Len(file)) : Title(j) => j = i
    BY <1>2, <1>6, <2>1, TextIs DEF TitleReads
  <2>3. TitleOfChapter(num[k], to) = Printed("heading", 1, <<<<Item(i), 1, Done(Item(i), 1)>>>>, 0, 0)
    BY <2>1, <2>2, OneTitle
  <2>4. QED
    BY <1>1, <1>3, <1>6, <2>1, <2>3
<1>7. QED
  BY <1>4, <1>5, <1>6

-------------------------------------------------------------------------------
LEMMA FlatTyped ==
  ASSUME NEW n \in Nat, NEW F, SeqsIn(F, n, Lines)
  PROVE  Flat(F, n) \in Seq(Lines)
<1>1. \A i \in 1..n : F[i] \in Seq(Lines)
  BY DEF SeqsIn
<1>2. [i \in 1..n |-> F[i]] \in Seq(Seq(Lines))
  BY <1>1
<1>3. QED
  BY <1>2, FlattenTyped DEF Flat

LEMMA MadeUpTyped == \A to \in Formats : MadeUp(to) \in Seq(Lines)
<1>1. <<<<BookTitle, 1, Done(BookTitle, 1)>>>> \in Sayings /\ 1 \in Nat /\ 0 \in Pictures /\ 0 \in NoteIds
  BY TextsAre, SayingsAre DEF Pictures, NoteIds
<1>2. QED
  BY <1>1, PrintedTyped DEF MadeUp

(* A chapter is printed as the file has it, after the title that is made up. *)
LEMMA ChapterPrints ==
  ASSUME DocumentInv, FileOK, NEW cs, NEW num, Laid(parsed, cs, num), NEW k \in 1..Len(cs), NEW to \in Formats
  PROVE  /\ ChapterExpected(num[k], to) \in Seq(Lines)
         /\ parsed.chapters[k].title # BookTitle => ChapterPrinted(k, to) = ChapterExpected(num[k], to)
         /\ parsed.chapters[k].title = BookTitle => ChapterPrinted(k, to) = MadeUp(to) \o ChapterExpected(num[k], to)
<1> DEFINE title == IF parsed.chapters[k].title = None THEN <<>> ELSE TitlePrinted(k)
           notes == [m \in DOMAIN NotesHere(cs, k) |-> NotePrinted(NotesHere(cs, k)[m], to)]
<1>1. PICK body, after : /\ body = BodyOf(cs[k], to) /\ after = Flat(notes, Len(NotesHere(cs, k)))
                         /\ body \in Seq(Lines) /\ after \in Seq(Lines)
                         /\ ChapterPrinted(k, to) = title \o (body \o after)
  <2>1. PICK x : x = notes
    OBVIOUS
  <2>2. /\ FlattenSeq([b \in DOMAIN parsed.chapters[k].blocks |-> BlockPrinted(k, b, to)])
              = BodyOf(cs[k], to) \o Flat(x, Len(NotesHere(cs, k)))
        /\ BodyOf(cs[k], to) \in Seq(Lines) /\ Flat(x, Len(NotesHere(cs, k))) \in Seq(Lines)
    BY <2>1, BlocksPrint
  <2>3. ChapterPrinted(k, to) = title \o FlattenSeq([b \in DOMAIN parsed.chapters[k].blocks |-> BlockPrinted(k, b, to)])
    BY DEF ChapterPrinted
  <2> HIDE DEF title, notes
  <2>4. QED
    BY <2>1, <2>2, <2>3
<1>2. body = BodyOfChapter(num[k], to)
  BY <1>1, BodyIs
<1>3. after = NotesOfChapter(num[k], to)
  BY <1>1, NotesPrint
<1>4. PICK first \in Seq(Lines) : first = TitleOfChapter(num[k], to)
  <2>1. Len(file) \in Nat
    BY DEF FileOK
  <2>2. TitleOfChapter(num[k], to) \in Seq(Lines)
    BY <2>1, TitlesFlat, FlatTyped
  <2>3. QED
    BY <2>2
<1>5. ChapterExpected(num[k], to) = (first \o body) \o after
  BY <1>2, <1>3, <1>4 DEF ChapterExpected
<1>6. /\ (first \o body) \o after = first \o (body \o after)
      /\ body \o after \in Seq(Lines) /\ first \o (body \o after) \in Seq(Lines)
      /\ <<>> \o (body \o after) = body \o after
  <2>1. \A r, s, t \in Seq(Lines) : (r \o s) \o t = r \o (s \o t) /\ r \o s \in Seq(Lines) /\ <<>> \o r = r
    BY Associates
  <2>2. body \o after \in Seq(Lines)
    BY <1>1, <2>1
  <2>3. QED
    BY <1>1, <1>4, <2>1, <2>2
<1>7. /\ parsed.chapters[k].title # BookTitle => title = first
      /\ parsed.chapters[k].title = BookTitle => title = MadeUp(to) /\ first = <<>>
  BY <1>4, TitlePrints
<1> HIDE DEF title
<1>8. QED
  BY <1>1, <1>5, <1>6, <1>7

(* A chapter of the file that was not kept has nothing to print.             *)
LEMMA NothingExpected ==
  ASSUME FileOK, NEW q, Nothing(q, Len(file)), NEW to \in Formats
  PROVE  ChapterExpected(q, to) = <<>>
<1>1. TitleOfChapter(q, to) = <<>>
  BY NoTitle DEF Nothing
<1>2. BodyOfChapter(q, to) = <<>>
  <2>1. BodyUpTo(q, Len(file), to) = <<>>
    BY DEF Nothing
  <2>2. Len(file) \in Nat /\ DOMAIN file = 1..Len(file)
    BY DEF FileOK
  <2>3. DOMAIN BodyItems(q, to) = 1..Len(file)
    BY <2>2 DEF BodyItems
  <2>4. FlattenSeq([i \in DOMAIN BodyItems(q, to) |-> BodyItems(q, to)[i]]) = Flat(BodyItems(q, to), Len(file))
    BY <2>2, <2>3, FlattenIsFlat
  <2>5. [i \in DOMAIN BodyItems(q, to) |-> BodyItems(q, to)[i]] = BodyItems(q, to)
    BY DEF BodyItems
  <2>6. QED
    BY <2>1, <2>4, <2>5 DEF BodyOfChapter, BodyUpTo, BodyItems
<1>3. NotesOfChapter(q, to) = <<>>
  <2>1. CASE to = "docx" \/ format = "epub"
    BY <2>1 DEF NotesOfChapter
  <2>2. CASE ~(to = "docx" \/ format = "epub")
    <3>1. format = "docx"
      BY <2>2 DEF FileOK, Formats
    <3>2. \A n \in Notes : \A i \in FirstAt(n) : ChapterOf(i) # q
      <4>1. DOMAIN file = 1..Len(file)
        BY DEF FileOK
      <4>2. QED
        BY <3>1, <4>1, NothingRefers DEF FirstAt, At
    <3>3. {n \in Notes : \E i \in FirstAt(n) : ChapterOf(i) = q} = {}
      BY <3>2
    <3>4. DOMAIN NotesFrom(q) = 1..Cardinality({n \in Notes : \E i \in FirstAt(n) : ChapterOf(i) = q})
      BY DEF NotesFrom, Sorted
    <3>5. DOMAIN NotesFrom(q) = {}
      <4>1. Cardinality({}) = 0
        BY FS_EmptySet
      <4>2. DOMAIN NotesFrom(q) = 1..0
        BY <3>3, <3>4, <4>1
      <4>3. QED
        BY <4>2
    <3>6. NotesOfChapter(q, to) = FlattenSeq([n \in DOMAIN NotesFrom(q) |->
             LET note == NotesFrom(q)[n] IN Printed("note", 0, <<<<Note(note), 1, Done(Note(note), 1)>>>>, 0, note)])
      BY <2>2 DEF NotesOfChapter
    <3>7. [n \in DOMAIN NotesFrom(q) |->
             LET note == NotesFrom(q)[n] IN Printed("note", 0, <<<<Note(note), 1, Done(Note(note), 1)>>>>, 0, note)] = <<>>
      BY <3>5
    <3>8. QED
      BY <3>6, <3>7, FlattenEmpty
  <2>3. QED
    BY <2>1, <2>2
<1>4. QED
  BY <1>1, <1>2, <1>3 DEF ChapterExpected

-------------------------------------------------------------------------------
(* The whole file.                                                           *)
ChaptersExpected(to) == [c \in 1..(ChapterOf(Len(file)) + 1) |-> ChapterExpected(c - 1, to)]
ChaptersPrinted(to)  == [k \in DOMAIN parsed.chapters |-> ChapterPrinted(k, to)]

(* The file that is expected and the one that is exported, chapter by        *)
(* chapter.                                                                  *)
LEMMA FileIs == \A to \in Formats : ExpectedFile(to) = (IF Untitled THEN MadeUp(to) ELSE <<>>) \o FlattenSeq(ChaptersExpected(to))
  BY DEF ExpectedFile, MadeUp, ChaptersExpected, ChapterExpected

LEMMA ExportIs == \A to \in Formats : Exported(to) = FlattenSeq(ChaptersPrinted(to))
  BY DEF Exported, ChaptersPrinted, ChapterPrinted, BlockPrinted

(* They are the same.                                                        *)
LEMMA FileExported ==
  ASSUME DocumentInv, FileOK, NEW cs, NEW num, Laid(parsed, cs, num), NEW to \in Formats
  PROVE  Exported(to) = ExpectedFile(to)
<1> DEFINE C   == ChaptersExpected(to)
           G   == [k \in 1..Len(cs) |-> ChapterExpected(num[k], to)]
           new == [k \in 1..Len(cs) |-> num[k] + 1]
<1>1. PICK n \in Nat, m \in Nat : n = ChapterOf(Len(file)) /\ m = Len(cs)
  <2>1. Len(file) \in Nat
    BY DEF FileOK
  <2>2. QED
    BY <2>1, ChapterIs, LaidIs
<1>2. /\ m # 0 /\ num \in [1..m -> 0..n]
      /\ \A j, k \in 1..m : j < k => num[j] < num[k]
      /\ \A q \in 0..n : (\E k \in 1..m : num[k] = q) \/ Nothing(q, Len(file))
      /\ Untitled => m = 1 /\ cs[1].title = BookTitle
      /\ ~Untitled => \A k \in 1..m : cs[k].title # BookTitle
  BY <1>1 DEF Laid, AsFile
<1>3. DOMAIN parsed.chapters = 1..m /\ \A k \in 1..m : parsed.chapters[k].title = cs[k].title
  BY <1>1, LaidIs
<1>4. \A k \in 1..m : /\ num[k] \in 0..n /\ new[k] = num[k] + 1 /\ num[k] + 1 \in 1..(n + 1) /\ (num[k] + 1) - 1 = num[k]
  <2> TAKE k \in 1..m
  <2>1. num[k] \in 0..n /\ new[k] = num[k] + 1
    BY <1>1, <1>2
  <2>2. PICK x \in 0..n : x = num[k]
    BY <2>1
  <2>3. x + 1 \in 1..(n + 1) /\ (x + 1) - 1 = x
    OBVIOUS
  <2>4. QED
    BY <2>1, <2>2, <2>3
<1>5. \A k \in 1..m : ChapterExpected(num[k], to) \in Seq(Lines)
  BY <1>1, ChapterPrints
<1>6. DOMAIN C = 1..(n + 1) /\ \A c \in 1..(n + 1) : C[c] = ChapterExpected(c - 1, to)
  BY <1>1 DEF ChaptersExpected
<1>7. \A c \in 1..(n + 1) : (\A k \in 1..m : num[k] # c - 1) => C[c] = <<>>
  <2> TAKE c \in 1..(n + 1)
  <2>1. c - 1 \in 0..n
    OBVIOUS
  <2>2. (\A k \in 1..m : num[k] # c - 1) => Nothing(c - 1, Len(file))
    BY <1>2, <2>1
  <2>3. QED
    BY <1>6, <2>2, NothingExpected
<1>8. SeqsIn(C, n + 1, Lines)
  <2>1. SUFFICES ASSUME NEW c \in 1..(n + 1) PROVE C[c] \in Seq(Lines)
    BY DEF SeqsIn
  <2>2. CASE \E k \in 1..m : num[k] = c - 1
    BY <1>5, <1>6, <2>2
  <2>3. CASE \A k \in 1..m : num[k] # c - 1
    <3>1. C[c] = <<>>
      BY <1>7, <2>3
    <3>2. <<>> \in Seq(Lines)
      OBVIOUS
    <3>3. QED
      BY <3>1, <3>2
  <2>4. QED
    BY <2>2, <2>3
<1>9. Flat(G, m) = Flat(C, n + 1)
  <2>1. new \in [1..m -> 1..(n + 1)]
    BY <1>1, <1>4
  <2>2. Picks(C, G, new, m)
    BY <1>1, <1>4, <1>6 DEF Picks
  <2>3. Rising(new, m)
    <3>1. SUFFICES ASSUME NEW j \in 1..m, NEW k \in 1..m, j < k PROVE new[j] < new[k]
      BY DEF Rising
    <3>2. num[j] < num[k] /\ num[j] \in 0..n /\ num[k] \in 0..n
      BY <1>2, <1>4, <3>1
    <3>3. QED
      BY <1>4, <3>2
  <2>4. Elsewhere(C, new, n + 1, m)
    <3>1. SUFFICES ASSUME NEW c \in 1..(n + 1), \A k \in 1..m : new[k] # c PROVE C[c] = <<>>
      BY DEF Elsewhere
    <3>2. \A k \in 1..m : num[k] # c - 1
      <4> TAKE k \in 1..m
      <4>1. PICK x \in 0..n : x = num[k] /\ new[k] = x + 1
        BY <1>4
      <4>2. x + 1 # c
        BY <3>1, <4>1
      <4>3. QED
        BY <4>1, <4>2
    <3>3. QED
      BY <1>7, <3>2
  <2>5. PICK l \in Nat : l = n + 1
    OBVIOUS
  <2> HIDE DEF C, G, new
  <2>6. new \in [1..m -> 1..l] /\ SeqsIn(C, l, Lines) /\ Picks(C, G, new, m) /\ Rising(new, m) /\ Elsewhere(C, new, l, m)
    BY <1>8, <2>1, <2>2, <2>3, <2>4, <2>5
  <2>7. Flat(G, m) = Flat(C, l)
    BY <2>6, LinesSkip
  <2>8. QED
    BY <2>5, <2>7
<1>10. PICK rest \in Seq(Lines) : rest = FlattenSeq(C) /\ rest = Flat(G, m)
  <2>1. FlattenSeq(C) = Flat(C, n + 1)
    <3>1. n + 1 \in Nat /\ C = [i \in DOMAIN C |-> C[i]]
      BY DEF ChaptersExpected
    <3> HIDE DEF C
    <3>2. QED
      BY <1>6, <3>1, FlattenIsFlat
  <2>2. Flat(C, n + 1) \in Seq(Lines)
    <3>1. PICK l \in Nat : l = n + 1
      OBVIOUS
    <3>2. Flat(C, l) \in Seq(Lines)
      BY <1>8, <3>1, FlatTyped
    <3>3. QED
      BY <3>1, <3>2
  <2>3. QED
    BY <1>9, <2>1, <2>2
<1>11. Exported(to) = Flat(ChaptersPrinted(to), m)
  <2>1. DOMAIN ChaptersPrinted(to) = 1..m /\ ChaptersPrinted(to) = [k \in DOMAIN ChaptersPrinted(to) |-> ChaptersPrinted(to)[k]]
    BY <1>3 DEF ChaptersPrinted
  <2>2. QED
    BY <2>1, FlattenIsFlat, ExportIs
<1>12. \A k \in 1..m : ChaptersPrinted(to)[k] = ChapterPrinted(k, to)
  BY <1>3 DEF ChaptersPrinted
<1>13. CASE ~Untitled
  <2>1. \A k \in 1..m : ChaptersPrinted(to)[k] = G[k]
    <3> TAKE k \in 1..m
    <3>1. ChapterPrinted(k, to) = ChapterExpected(num[k], to)
      BY <1>1, <1>2, <1>3, <1>13, ChapterPrints
    <3>2. QED
      BY <1>1, <1>12, <3>1
  <2>2. Flat(ChaptersPrinted(to), m) = Flat(G, m)
    BY <2>1, FlatSame
  <2>3. <<>> \o rest = rest
    BY Associates
  <2>4. ExpectedFile(to) = <<>> \o rest
    BY <1>10, <1>13, FileIs
  <2>5. QED
    BY <1>10, <1>11, <2>2, <2>3, <2>4
<1>14. CASE Untitled
  <2>1. m = 1 /\ parsed.chapters[1].title = BookTitle
    BY <1>2, <1>3, <1>14
  <2>2. 1 \in 1..Len(cs) /\ 1 \in 1..m
    BY <1>1, <2>1
  <2>3. ChapterPrinted(1, to) = MadeUp(to) \o ChapterExpected(num[1], to) /\ ChapterExpected(num[1], to) \in Seq(Lines)
    BY <2>1, <2>2, ChapterPrints
  <2>4. Flat(G, 1) = ChapterExpected(num[1], to)
    <3>1. G[1] = ChapterExpected(num[1], to)
      BY <2>2
    <3> HIDE DEF G
    <3>2. QED
      BY <2>3, <3>1, FlatOne
  <2>5. rest = ChapterExpected(num[1], to)
    BY <1>10, <2>1, <2>4
  <2>6. MadeUp(to) \o rest \in Seq(Lines)
    BY MadeUpTyped, Associates
  <2>7. Flat(ChaptersPrinted(to), 1) = MadeUp(to) \o rest
    <3>1. ChaptersPrinted(to)[1] = MadeUp(to) \o rest
      BY <1>12, <2>2, <2>3, <2>5
    <3>2. QED
      BY <2>6, <3>1, FlatOne
  <2>8. ExpectedFile(to) = MadeUp(to) \o rest
    BY <1>10, <1>14, FileIs
  <2>9. QED
    BY <1>11, <2>1, <2>7, <2>8
<1>15. QED
  BY <1>13, <1>14

-------------------------------------------------------------------------------
(* The notes that are exported.                                              *)
IsNote(k, b) == k \in DOMAIN parsed.chapters /\ b \in DOMAIN BlocksAt(k) /\ BlocksAt(k)[b].type = "note"
Latest(mine, at) == at \in mine /\ \A o \in mine : o[1] < at[1] \/ (o[1] = at[1] /\ o[2] <= at[2])
NoteBlocksFor(n) == {at \in NoteBlocks : NoteOf(at) = n}

LEMMA NoteBlocksAre ==
  /\ \A k, b : IsNote(k, b) => <<k, b>> \in NoteBlocks /\ NoteOf(<<k, b>>) = BlocksAt(k)[b].note
  /\ \A at \in NoteBlocks : \E k, b : at = <<k, b>> /\ IsNote(k, b)
<1>1. ASSUME NEW k, NEW b, IsNote(k, b)
      PROVE  <<k, b>> \in NoteBlocks /\ NoteOf(<<k, b>>) = BlocksAt(k)[b].note
  <2>1. <<k, b>>[1] = k /\ <<k, b>>[2] = b
    OBVIOUS
  <2>2. k \in DOMAIN parsed.chapters /\ b \in DOMAIN parsed.chapters[k].blocks /\ parsed.chapters[k].blocks[b].type = "note"
    BY <1>1 DEF IsNote, BlocksAt
  <2>3. <<k, b>> \in UNION {{<<j, a>> : a \in DOMAIN parsed.chapters[j].blocks} : j \in DOMAIN parsed.chapters}
    <3>1. <<k, b>> \in {<<k, a>> : a \in DOMAIN parsed.chapters[k].blocks}
      BY <2>2
    <3>2. {<<k, a>> : a \in DOMAIN parsed.chapters[k].blocks}
            \in {{<<j, a>> : a \in DOMAIN parsed.chapters[j].blocks} : j \in DOMAIN parsed.chapters}
      BY <2>2
    <3>3. QED
      BY <3>1, <3>2
  <2>4. QED
    BY <2>1, <2>2, <2>3 DEF NoteBlocks, NoteOf, BlocksAt
<1>2. ASSUME NEW at \in NoteBlocks PROVE \E k, b : at = <<k, b>> /\ IsNote(k, b)
  <2>1. PICK k \in DOMAIN parsed.chapters : at \in {<<k, a>> : a \in DOMAIN parsed.chapters[k].blocks}
    BY DEF NoteBlocks
  <2>2. PICK b \in DOMAIN parsed.chapters[k].blocks : at = <<k, b>>
    BY <2>1
  <2>3. at[1] = k /\ at[2] = b
    BY <2>2
  <2>4. parsed.chapters[k].blocks[b].type = "note"
    BY <2>3 DEF NoteBlocks
  <2>5. QED
    BY <2>2, <2>4 DEF IsNote, BlocksAt
<1>3. QED
  BY <1>1, <1>2

(* ExportedNotes, note by note.                                              *)
LEMMA ExportedNotesAre ==
  ExportedNotes = [n \in {NoteOf(at) : at \in NoteBlocks} |->
    LET last == CHOOSE at \in NoteBlocksFor(n) : \A o \in NoteBlocksFor(n) : o[1] < at[1] \/ (o[1] = at[1] /\ o[2] <= at[2])
    IN  LoadedText(last[1], last[2])]
  BY DEF ExportedNotes, NoteBlocksFor

(* The last block of a note decides.                                         *)
LEMMA NoteExported ==
  ASSUME NEW n, NEW at, Latest(NoteBlocksFor(n), at),
         \A o : Latest(NoteBlocksFor(n), o) => LoadedText(o[1], o[2]) = LoadedText(at[1], at[2])
  PROVE  n \in DOMAIN ExportedNotes /\ ExportedNotes[n] = LoadedText(at[1], at[2])
<1> DEFINE last == CHOOSE x \in NoteBlocksFor(n) : \A o \in NoteBlocksFor(n) : o[1] < x[1] \/ (o[1] = x[1] /\ o[2] <= x[2])
<1>1. Latest(NoteBlocksFor(n), last)
  BY DEF Latest
<1>2. n \in {NoteOf(x) : x \in NoteBlocks}
  BY DEF Latest, NoteBlocksFor
<1>3. n \in DOMAIN ExportedNotes /\ ExportedNotes[n] = LoadedText(last[1], last[2])
  BY <1>2, ExportedNotesAre
<1> HIDE DEF last
<1>4. QED
  BY <1>1, <1>3

(* Of a DOCX: one block for every note that is referred to.                  *)
LEMMA DocxNotes ==
  ASSUME FileOK, format = "docx", NEW cs, NEW num, Laid(parsed, cs, num)
  PROVE  /\ \A k \in 1..Len(cs) : \A m \in 1..Len(NotesHere(cs, k)) :
              IsNote(k, Len(cs[k].blocks) + m) /\ BlocksAt(k)[Len(cs[k].blocks) + m].note = NotesHere(cs, k)[m]
         /\ \A k, b : IsNote(k, b) =>
              k \in 1..Len(cs) /\ \E m \in 1..Len(NotesHere(cs, k)) : b = Len(cs[k].blocks) + m
<1>1. ASSUME NEW k \in 1..Len(cs), NEW m \in 1..Len(NotesHere(cs, k))
      PROVE  IsNote(k, Len(cs[k].blocks) + m) /\ BlocksAt(k)[Len(cs[k].blocks) + m].note = NotesHere(cs, k)[m]
  <2>1. PICK b : b = Len(cs[k].blocks) + m
    OBVIOUS
  <2>2. Len(cs[k].blocks) \in Nat /\ Len(NotesHere(cs, k)) \in Nat
          /\ DOMAIN BlocksAt(k) = 1..(Len(cs[k].blocks) + Len(NotesHere(cs, k)))
          /\ BlocksAt(k)[b] = NoteBlock(NotesHere(cs, k)[m])
    BY <2>1, LaidBlocks DEF BlocksAt
  <2>3. b \in DOMAIN BlocksAt(k)
    BY <2>1, <2>2
  <2>4. NotesHere(cs, k) \in Seq(Notes) /\ DOMAIN parsed.chapters = 1..Len(cs)
    BY LaidIs
  <2>5. NotesHere(cs, k)[m] \in Notes
    BY <2>4
  <2>6. BlocksAt(k)[b].type = "note" /\ BlocksAt(k)[b].note = NotesHere(cs, k)[m]
    BY <2>2, <2>5, NoteBlockIs
  <2>7. QED
    BY <2>1, <2>3, <2>4, <2>6 DEF IsNote
<1>2. ASSUME NEW k, NEW b, IsNote(k, b)
      PROVE  k \in 1..Len(cs) /\ \E m \in 1..Len(NotesHere(cs, k)) : b = Len(cs[k].blocks) + m
  <2>1. k \in 1..Len(cs) /\ b \in DOMAIN BlocksAt(k) /\ BlocksAt(k)[b].type = "note"
    BY <1>2, LaidIs DEF IsNote
  <2>2. PICK l \in Nat, m \in Nat : l = Len(cs[k].blocks) /\ m = Len(NotesHere(cs, k)) /\ b \in 1..(l + m)
    <3>1. Len(cs[k].blocks) \in Nat /\ Len(NotesHere(cs, k)) \in Nat
            /\ DOMAIN BlocksAt(k) = 1..(Len(cs[k].blocks) + Len(NotesHere(cs, k)))
      BY <2>1, LaidBlocks DEF BlocksAt
    <3>2. QED
      BY <2>1, <3>1
  <2>3. ~(b <= l)
    <3>1. SUFFICES ASSUME b \in 1..l PROVE FALSE
      BY <2>2
    <3>2. PICK i : i \in At(num[k], Len(file)) /\ FromItem(cs[k], BlocksAt(k)[b], i)
      BY <2>1, <2>2, <3>1, BlockComes
    <3>3. TypeOfItem(i) = "note"
      BY <2>1, <3>2 DEF FromItem
    <3>4. file[i].kind \in {"heading", "text", "caption", "table", "image"}
      BY <3>2, ItemIs DEF At
    <3>5. QED
      BY <3>3, <3>4 DEF TypeOfItem
  <2>4. b - l \in 1..m /\ b = l + (b - l)
    BY <2>2, <2>3
  <2>5. QED
    BY <2>1, <2>2, <2>4
<1>3. QED
  BY <1>1, <1>2

(* So the notes of a DOCX are the file's.                                    *)
LEMMA NotesExportedDocx ==
  ASSUME DocumentInv, FileOK, format = "docx", NEW cs, NEW num, Laid(parsed, cs, num)
  PROVE  ExportedNotes = ExpectedNotes
<1> DEFINE D == {m \in Notes : FirstAt(m) # {}}
<1>1. ExpectedNotes = [n \in D |-> <<<<Note(n), 1, Done(Note(n), 1)>>>>]
  BY DEF ExpectedNotes
<1>2. \A k \in 1..Len(cs) : NotesHere(cs, k) = NotesOf(cs, k) /\ cs[k] \in ChapterSet
  BY LaidIs DEF NotesHere
<1>3. Len(cs) \in Nat /\ num \in [1..Len(cs) -> 0..ChapterOf(Len(file))]
      /\ \A q \in 0..ChapterOf(Len(file)) : (\E x \in 1..Len(cs) : num[x] = q) \/ Nothing(q, Len(file))
  BY LaidIs DEF Laid, AsFile
<1>4. ASSUME NEW n \in D
      PROVE  /\ n \in DOMAIN ExportedNotes
             /\ ExportedNotes[n] = <<<<Note(n), 1, Done(Note(n), 1)>>>>
  <2>1. PICK i \in FirstAt(n) : TRUE
    OBVIOUS
  <2>2. i \in 1..Len(file) /\ Len(file) \in Nat /\ NoteAt(i) = n
    BY DEF FirstAt, FileOK
  <2>3. PICK k \in 1..Len(cs) : num[k] = ChapterOf(i)
    <3>1. i \in Nat /\ i <= Len(file)
      BY <2>2
    <3>2. ChapterOf(i) \in Nat /\ ChapterOf(Len(file)) \in Nat
      BY <2>2, <3>1, ChapterIs
    <3>3. ChapterOf(i) <= ChapterOf(Len(file))
      BY <2>2, <3>1, ChapterGrows
    <3>4. PICK q \in Nat, l \in Nat : q = ChapterOf(i) /\ l = ChapterOf(Len(file))
      BY <3>2
    <3>5. q \in 0..l
      BY <3>3, <3>4
    <3>6. i \in At(q, Len(file))
      BY <2>2, <3>4 DEF At
    <3>7. ~Nothing(q, Len(file))
      BY <2>2, <3>6, NothingRefers
    <3>8. QED
      BY <1>3, <3>4, <3>5, <3>7
  <2>4. n \in NotesIn(cs, k)
    <3>1. n \in NotesAt(num[k])
      BY <2>1, <2>3 DEF NotesAt
    <3>2. QED
      BY <3>1, NotesAreAt
  <2>5. PICK m \in 1..Len(NotesHere(cs, k)) : NotesHere(cs, k)[m] = n
    <3>1. PICK m \in DOMAIN NotesOf(cs, k) : NotesOf(cs, k)[m] = n
      BY <1>2, <2>4, NotesAre
    <3>2. DOMAIN NotesHere(cs, k) = 1..Len(NotesHere(cs, k))
      BY LaidBlocks
    <3>3. QED
      BY <1>2, <3>1, <3>2
  <2> DEFINE b == Len(cs[k].blocks) + m
             at == <<k, b>>
  <2>6. b \in Nat /\ k \in Nat
    <3>1. Len(cs[k].blocks) \in Nat /\ Len(NotesHere(cs, k)) \in Nat
      BY LaidBlocks
    <3>2. QED
      BY <1>3, <3>1
  <2>7. at \in NoteBlocksFor(n)
    <3>1. IsNote(k, b) /\ BlocksAt(k)[b].note = n
      BY <2>5, DocxNotes
    <3>2. QED
      BY <3>1, NoteBlocksAre DEF NoteBlocksFor
  <2>8. ASSUME NEW o \in NoteBlocksFor(n) PROVE o = at
    <3>1. PICK j, a : o = <<j, a>> /\ IsNote(j, a) /\ BlocksAt(j)[a].note = n
      BY NoteBlocksAre DEF NoteBlocksFor
    <3>2. j \in 1..Len(cs)
      BY <3>1, DocxNotes
    <3>3. PICK l \in 1..Len(NotesHere(cs, j)) : a = Len(cs[j].blocks) + l
      BY <3>1, DocxNotes
    <3>4. NotesHere(cs, j)[l] = n
      BY <3>1, <3>2, <3>3, DocxNotes
    <3>5. n \in NotesIn(cs, j)
      <4>1. l \in DOMAIN NotesOf(cs, j)
        BY <1>2, <3>2, LaidBlocks
      <4>2. QED
        BY <1>2, <3>2, <3>4, <4>1, NotesAre
    <3>6. j = k
      <4>1. PICK x : x \in At(num[j], Len(file)) /\ FirstAt(n) = {x}
        BY <3>2, <3>5, FirstReference
      <4>2. PICK y : y \in At(num[k], Len(file)) /\ FirstAt(n) = {y}
        BY <2>4, FirstReference
      <4>3. x = y
        BY <4>1, <4>2
      <4>4. num[j] = num[k]
        BY <4>1, <4>2, <4>3 DEF At
      <4>5. QED
        BY <3>2, <4>4, LaidChapter
    <3>7. l = m
      <4>1. l \in DOMAIN NotesOf(cs, k) /\ m \in DOMAIN NotesOf(cs, k)
        BY <1>2, <3>2, <3>6, LaidBlocks
      <4>2. NotesOf(cs, k)[l] = NotesOf(cs, k)[m]
        BY <1>2, <2>5, <3>4, <3>6
      <4>3. QED
        BY <1>2, <4>1, <4>2, NotesAre
    <3>8. QED
      BY <3>1, <3>3, <3>6, <3>7
  <2>9. at[1] = k /\ at[2] = b
    OBVIOUS
  <2>10. Latest(NoteBlocksFor(n), at)
    BY <2>6, <2>7, <2>8, <2>9 DEF Latest
  <2>11. \A o : Latest(NoteBlocksFor(n), o) => o = at
    BY <2>8 DEF Latest
  <2>12. LoadedText(k, b) = <<<<Note(n), 1, Done(Note(n), 1)>>>>
    BY <2>5, NoteReads
  <2> HIDE DEF at, b
  <2>13. QED
    BY <2>9, <2>10, <2>11, <2>12, NoteExported
<1>5. ASSUME NEW n \in DOMAIN ExportedNotes PROVE n \in D
  <2>1. PICK at \in NoteBlocks : NoteOf(at) = n
    BY ExportedNotesAre
  <2>2. PICK k, b : IsNote(k, b) /\ BlocksAt(k)[b].note = n
    BY <2>1, NoteBlocksAre
  <2>3. PICK m \in 1..Len(NotesHere(cs, k)) : k \in 1..Len(cs) /\ NotesHere(cs, k)[m] = n
    <3>1. PICK m \in 1..Len(NotesHere(cs, k)) : b = Len(cs[k].blocks) + m
      BY <2>2, DocxNotes
    <3>2. k \in 1..Len(cs)
      BY <2>2, DocxNotes
    <3>3. BlocksAt(k)[Len(cs[k].blocks) + m].note = NotesHere(cs, k)[m]
      BY <3>2, DocxNotes
    <3>4. QED
      BY <2>2, <3>1, <3>2, <3>3
  <2>4. m \in DOMAIN NotesOf(cs, k) /\ NotesOf(cs, k)[m] = n
    BY <1>2, <2>3, LaidBlocks
  <2>5. n \in NotesIn(cs, k)
    BY <1>2, <2>3, <2>4, NotesAre
  <2>6. PICK i : i \in At(num[k], Len(file)) /\ FirstAt(n) = {i}
    BY <2>3, <2>5, FirstReference
  <2>7. QED
    BY <2>5, <2>6 DEF NotesIn
<1>6. DOMAIN ExportedNotes = D
  BY <1>4, <1>5
<1>7. ExportedNotes = [n \in DOMAIN ExportedNotes |-> ExportedNotes[n]]
  BY ExportedNotesAre
<1> HIDE DEF D
<1>8. QED
  BY <1>1, <1>4, <1>6, <1>7

-------------------------------------------------------------------------------
(* Of an EPUB: one block for every aside, in their order.                    *)
Aside(i) == i \in DOMAIN file /\ file[i].kind = "aside"

(* Every aside has its block, every such block its aside, in the same order. *)
LEMMA AsideBlock ==
  ASSUME FileOK, format # "docx", NEW cs, NEW num, Laid(parsed, cs, num), NEW i, Aside(i)
  PROVE  \E k \in 1..Len(cs) : \E b \in 1..Len(cs[k].blocks) : IsNote(k, b) /\ BlocksAt(k)[b].text = Item(i)
<1>1. DOMAIN file = 1..Len(file) /\ Len(file) \in Nat
  BY DEF FileOK
<1>2. i \in 1..Len(file) /\ file[i].kind = "aside" /\ i \in Nat /\ i <= Len(file)
  BY <1>1 DEF Aside
<1>3. Textual(i)
  BY <1>2 DEF Textual, Title, Heading
<1>4. PICK q \in Nat, l \in Nat : q = ChapterOf(i) /\ l = ChapterOf(Len(file)) /\ q <= l
  <2>1. ChapterOf(i) \in Nat /\ ChapterOf(Len(file)) \in Nat
    BY <1>1, <1>2, ChapterIs
  <2>2. ChapterOf(i) <= ChapterOf(Len(file))
    BY <1>1, <1>2, ChapterGrows
  <2>3. QED
    BY <2>1, <2>2
<1>5. i \in At(q, Len(file))
  BY <1>2, <1>4 DEF At
<1>6. PICK k \in 1..Len(cs) : num[k] = q
  <2>1. ~Nothing(q, Len(file))
    BY <1>3, <1>5 DEF Nothing
  <2>2. q \in 0..l
    BY <1>4
  <2>3. \A x \in 0..ChapterOf(Len(file)) : (\E k \in 1..Len(cs) : num[k] = x) \/ Nothing(x, Len(file))
    BY DEF Laid, AsFile
  <2>4. QED
    BY <1>4, <2>1, <2>2, <2>3
<1>7. PICK b \in DOMAIN cs[k].blocks : cs[k].blocks[b].type # "figure" /\ cs[k].blocks[b].text = Item(i)
  BY <1>3, <1>5, <1>6, LaidChapter DEF FileChapter, TextsRead
<1>8. b \in 1..Len(cs[k].blocks)
  BY LaidBlocks
<1>9. /\ BlocksAt(k)[b] = cs[k].blocks[b] /\ b \in DOMAIN BlocksAt(k)
      /\ FromItem(cs[k], BlocksAt(k)[b], BlocksAt(k)[b].text[2])
  BY <1>8, BlockComes
<1>10. BlocksAt(k)[b].text = Item(i) /\ BlocksAt(k)[b].text[2] = i
  BY <1>7, <1>9, TextIs
<1>11. BlocksAt(k)[b].type = "note"
  <2>1. BlocksAt(k)[b].type = TypeOfItem(i)
    BY <1>7, <1>9, <1>10 DEF FromItem
  <2>2. QED
    BY <1>2, <2>1 DEF TypeOfItem
<1>12. k \in DOMAIN parsed.chapters
  BY LaidIs
<1>13. QED
  BY <1>8, <1>9, <1>10, <1>11, <1>12 DEF IsNote

LEMMA BlockAside ==
  ASSUME FileOK, format # "docx", NEW cs, NEW num, Laid(parsed, cs, num), NEW k, NEW b, IsNote(k, b),
         NEW i, i = BlocksAt(k)[b].text[2]
  PROVE  /\ k \in 1..Len(cs) /\ b \in 1..Len(cs[k].blocks) /\ Aside(i) /\ i \in Nat /\ i \in At(num[k], Len(file))
         /\ BlocksAt(k)[b].text = Item(i) /\ BlocksAt(k)[b].note = file[i].note
<1>1. k \in 1..Len(cs) /\ b \in DOMAIN BlocksAt(k) /\ BlocksAt(k)[b].type = "note"
  BY LaidIs DEF IsNote
<1>2. b \in 1..Len(cs[k].blocks)
  <2>1. NotesHere(cs, k) = <<>>
    BY DEF NotesHere
  <2>2. Len(NotesHere(cs, k)) = 0
    BY <2>1
  <2>3. Len(cs[k].blocks) \in Nat /\ DOMAIN BlocksAt(k) = 1..(Len(cs[k].blocks) + Len(NotesHere(cs, k)))
    BY <1>1, LaidBlocks DEF BlocksAt
  <2>4. QED
    BY <1>1, <2>2, <2>3
<1>3. /\ i \in At(num[k], Len(file))
      /\ FromItem(cs[k], BlocksAt(k)[b], i)
  BY <1>1, <1>2, BlockComes
<1>4. TypeOfItem(i) = "note"
  BY <1>1, <1>3 DEF FromItem
<1>5. i \in 1..Len(file) /\ i \in DOMAIN file /\ i \in Nat
        /\ file[i].kind \in {"heading", "text", "quote", "caption", "table", "image", "aside", "break"}
  <2>1. i \in 1..Len(file)
    BY <1>3 DEF At
  <2>2. QED
    BY <2>1, ItemIs
<1>6. file[i].kind = "aside"
  BY <1>4, <1>5 DEF TypeOfItem
<1>7. BlocksAt(k)[b].text = Item(i) /\ BlocksAt(k)[b].note = file[i].note
  BY <1>1, <1>3, <1>6 DEF FromItem
<1>8. QED
  BY <1>1, <1>2, <1>3, <1>5, <1>6, <1>7 DEF Aside

LEMMA AsidesInOrder ==
  ASSUME FileOK, format # "docx", NEW cs, NEW num, Laid(parsed, cs, num), NEW j, NEW a, IsNote(j, a), NEW k, NEW b, IsNote(k, b),
         NEW i, i = BlocksAt(j)[a].text[2], NEW l, l = BlocksAt(k)[b].text[2]
  PROVE  /\ j \in Nat /\ a \in Nat /\ k \in Nat /\ b \in Nat /\ i \in Nat /\ l \in Nat
         /\ j < k \/ (j = k /\ a < b) => i < l
<1>1. /\ j \in 1..Len(cs) /\ a \in 1..Len(cs[j].blocks) /\ i \in Nat /\ i \in At(num[j], Len(file))
      /\ BlocksAt(j)[a].text = Item(i)
  BY BlockAside
<1>2. /\ k \in 1..Len(cs) /\ b \in 1..Len(cs[k].blocks) /\ l \in Nat /\ l \in At(num[k], Len(file))
      /\ BlocksAt(k)[b].text = Item(l)
  BY BlockAside
<1>3. /\ Len(cs) \in Nat /\ num \in [1..Len(cs) -> 0..ChapterOf(Len(file))]
      /\ \A x, y \in 1..Len(cs) : x < y => num[x] < num[y]
  BY LaidIs DEF Laid, AsFile
<1>4. j \in Nat /\ k \in Nat /\ a \in Nat /\ b \in Nat
  BY <1>1, <1>2, <1>3
<1>5. ChapterOf(i) = num[j] /\ ChapterOf(l) = num[k]
  BY <1>1, <1>2 DEF At
<1>6. CASE j < k
  <2>1. ChapterOf(i) < ChapterOf(l) /\ ChapterOf(i) \in Nat /\ ChapterOf(l) \in Nat
    BY <1>1, <1>2, <1>3, <1>5, <1>6, ChapterIs
  <2>2. ~(l <= i)
    BY <1>1, <1>2, <2>1, ChapterGrows
  <2>3. QED
    BY <1>1, <1>2, <1>4, <2>2
<1>7. CASE j = k /\ a < b
  <2>1. BlocksAt(k)[a] = cs[k].blocks[a] /\ BlocksAt(k)[b] = cs[k].blocks[b]
    BY <1>1, <1>2, <1>7, BlockComes
  <2>2. a \in DOMAIN cs[k].blocks /\ b \in DOMAIN cs[k].blocks
    BY <1>1, <1>2, <1>7, LaidBlocks
  <2>3. BlocksRead(cs[k], num[k], Len(file))
    BY <1>2, LaidChapter DEF FileChapter
  <2>4. cs[k].blocks[a].type = "note" /\ cs[k].blocks[b].type = "note"
    BY <1>7, <2>1 DEF IsNote
  <2>5. i <= l
    BY <1>7, <2>1, <2>2, <2>3 DEF BlocksRead
  <2>6. a # b
    BY <1>4, <1>7
  <2>7. Item(i) # Item(l)
    BY <1>1, <1>2, <1>7, <2>1, <2>2, <2>3, <2>4, <2>6 DEF BlocksRead
  <2>8. i # l
    BY <2>7
  <2>9. QED
    BY <1>1, <1>2, <1>4, <2>5, <2>8
<1>8. QED
  BY <1>1, <1>2, <1>4, <1>6, <1>7

(* So the notes of an EPUB are the file's: of asides with one id, the last.  *)
LEMMA NotesExportedEpub ==
  ASSUME DocumentInv, FileOK, format # "docx", NEW cs, NEW num, Laid(parsed, cs, num)
  PROVE  ExportedNotes = ExpectedNotes
<1> DEFINE A    == {i \in DOMAIN file : file[i].kind = "aside"}
           D    == {file[i].note : i \in A}
           E(n) == {i \in A : file[i].note = n}
<1>1. ExpectedNotes = [n \in D |-> Reads(Item(Max(E(n))), Max(E(n)))]
  BY DEF ExpectedNotes
<1>2. ASSUME NEW n \in D
      PROVE  n \in DOMAIN ExportedNotes /\ ExportedNotes[n] = Reads(Item(Max(E(n))), Max(E(n)))
  <2>1. PICK i : i = Max(E(n))
    OBVIOUS
  <2>2. i \in E(n) /\ \A x \in E(n) : i >= x
    <3>1. E(n) \in SUBSET Nat /\ E(n) # {} /\ Len(file) \in Nat /\ \A x \in E(n) : x <= Len(file)
      BY DEF FileOK
    <3>2. Max(E(n)) \in E(n) /\ \A x \in E(n) : x <= Max(E(n))
      <4> HIDE DEF E
      <4>1. QED
        BY <3>1, MaxIs
    <3>3. Max(E(n)) \in Nat
      BY <3>1, <3>2
    <3> HIDE DEF E
    <3>4. QED
      BY <2>1, <3>1, <3>2, <3>3
  <2>3. Aside(i) /\ file[i].note = n
    BY <2>2 DEF Aside
  <2>4. PICK k, b : k \in 1..Len(cs) /\ b \in 1..Len(cs[k].blocks) /\ IsNote(k, b) /\ BlocksAt(k)[b].text = Item(i)
    BY <2>3, AsideBlock
  <2>5. BlocksAt(k)[b].text[2] = i
    BY <2>4, TextIs
  <2>6. BlocksAt(k)[b].note = n
    BY <2>3, <2>4, <2>5, BlockAside
  <2> DEFINE at == <<k, b>>
  <2>7. at[1] = k /\ at[2] = b
    OBVIOUS
  <2>8. at \in NoteBlocksFor(n)
    BY <2>4, <2>6, NoteBlocksAre DEF NoteBlocksFor
  <2>9. ASSUME NEW o \in NoteBlocksFor(n)
        PROVE  \E j, a : /\ o = <<j, a>> /\ o[1] = j /\ o[2] = a /\ j \in Nat /\ a \in Nat /\ k \in Nat /\ b \in Nat
                         /\ (j = k /\ a = b) \/ j < k \/ (j = k /\ a < b)
    <3>1. PICK j, a : o = <<j, a>> /\ IsNote(j, a) /\ BlocksAt(j)[a].note = n
      BY NoteBlocksAre DEF NoteBlocksFor
    <3>2. PICK l : l = BlocksAt(j)[a].text[2]
      OBVIOUS
    <3>3. Aside(l) /\ file[l].note = n
      BY <3>1, <3>2, BlockAside
    <3>4. l \in E(n)
      BY <3>3 DEF Aside
    <3>5. i >= l
      BY <2>2, <3>4
    <3>6. /\ j \in Nat /\ a \in Nat /\ k \in Nat /\ b \in Nat /\ i \in Nat /\ l \in Nat
          /\ k < j \/ (k = j /\ b < a) => i < l
      BY <2>4, <2>5, <3>1, <3>2, AsidesInOrder
    <3>7. o[1] = j /\ o[2] = a
      BY <3>1
    <3>8. ~(k < j \/ (k = j /\ b < a))
      BY <3>5, <3>6
    <3>9. (j = k /\ a = b) \/ j < k \/ (j = k /\ a < b)
      BY <3>6, <3>8
    <3>10. QED
      BY <3>1, <3>6, <3>7, <3>9
  <2> HIDE DEF at
  <2>10. k \in Nat /\ b \in Nat
    BY <2>8, <2>9
  <2>11. Latest(NoteBlocksFor(n), at)
    <3>1. ASSUME NEW o \in NoteBlocksFor(n) PROVE o[1] < at[1] \/ (o[1] = at[1] /\ o[2] <= at[2])
      <4>1. PICK j, a : /\ o = <<j, a>> /\ o[1] = j /\ o[2] = a /\ j \in Nat /\ a \in Nat
                        /\ (j = k /\ a = b) \/ j < k \/ (j = k /\ a < b)
        BY <2>9
      <4>2. QED
        BY <2>7, <2>10, <4>1
    <3>2. QED
      BY <2>8, <3>1 DEF Latest
  <2>12. ASSUME NEW o, Latest(NoteBlocksFor(n), o) PROVE o[1] = at[1] /\ o[2] = at[2]
    <3>1. o \in NoteBlocksFor(n)
      BY <2>12 DEF Latest
    <3>2. PICK j, a : /\ o = <<j, a>> /\ o[1] = j /\ o[2] = a /\ j \in Nat /\ a \in Nat
                      /\ (j = k /\ a = b) \/ j < k \/ (j = k /\ a < b)
      BY <2>9, <3>1
    <3>3. k < j \/ (k = j /\ b <= a)
      BY <2>7, <2>8, <2>12, <3>2 DEF Latest
    <3>4. j = k /\ a = b
      BY <2>10, <3>2, <3>3
    <3>5. QED
      BY <2>7, <3>2, <3>4
  <2>13. LoadedText(k, b) = Reads(Item(i), i)
    <3>1. IsText(BlocksAt(k)[b])
      BY <2>4 DEF IsNote, IsText
    <3>2. QED
      BY <2>4, <2>5, <3>1, SaysReads
  <2>14. \A o : Latest(NoteBlocksFor(n), o) => LoadedText(o[1], o[2]) = LoadedText(at[1], at[2])
    BY <2>12
  <2>15. n \in DOMAIN ExportedNotes /\ ExportedNotes[n] = LoadedText(at[1], at[2])
    BY <2>11, <2>14, NoteExported
  <2>16. QED
    BY <2>1, <2>7, <2>13, <2>15
<1>3. ASSUME NEW n \in DOMAIN ExportedNotes PROVE n \in D
  <2>1. PICK at \in NoteBlocks : NoteOf(at) = n
    BY ExportedNotesAre
  <2>2. PICK k, b : IsNote(k, b) /\ BlocksAt(k)[b].note = n
    BY <2>1, NoteBlocksAre
  <2>3. PICK i : i = BlocksAt(k)[b].text[2]
    OBVIOUS
  <2>4. Aside(i) /\ file[i].note = n
    BY <2>2, <2>3, BlockAside
  <2>5. QED
    BY <2>4 DEF Aside
<1> HIDE DEF D, E, A
<1>4. DOMAIN ExportedNotes = D
  BY <1>2, <1>3
<1>5. ExportedNotes = [n \in DOMAIN ExportedNotes |-> ExportedNotes[n]]
  BY ExportedNotesAre
<1>6. QED
  BY <1>1, <1>2, <1>4, <1>5

-------------------------------------------------------------------------------
(* The invariant has all that the export needs.                              *)
LEMMA Follow == DocumentInv => ExportFollowsSource
<1>1. SUFFICES ASSUME DocumentInv, parsed # NoBook PROVE
        StructureFollowsFile /\ ExportedNotes = ExpectedNotes /\ \A to \in Formats : Exported(to) = ExpectedFile(to)
  BY DEF ExportFollowsSource
<1>2. FileOK /\ \E cs, num : Laid(parsed, cs, num)
  BY <1>1, ParsedIs DEF DocumentInv
<1>3. PICK cs, num : Laid(parsed, cs, num)
  BY <1>2
<1>4. StructureFollowsFile
  BY <1>3, LaidFollows
<1>5. ExportedNotes = ExpectedNotes
  BY <1>1, <1>2, <1>3, NotesExportedDocx, NotesExportedEpub
<1>6. \A to \in Formats : Exported(to) = ExpectedFile(to)
  BY <1>1, <1>2, <1>3, FileExported
<1>7. QED
  BY <1>4, <1>5, <1>6

(* What is exported is what was in the file. Whatever the file's items, and  *)
(* whichever of the translation jobs have segmented the headings and         *)
(* translated which rows, in whichever order: both exports hold every text,  *)
(* heading, figure and note of the file once, in the file's order, under its *)
(* sections, with the translation of exactly those parts that have one; a    *)
(* caption is that of the figure or table before it; and a table whose       *)
(* translation has another shape is printed as it was. (docx_parser.py and   *)
(* epub_structured_parser.py into segmentation.py and translation_jobs.py,   *)
(* and out by reconstruction.py, document_export.py and epub_export.py.)     *)
THEOREM ExportFollows == DocumentSpec => []ExportFollowsSource
  BY DocumentInvariant, Follow, PTL
=============================================================================
