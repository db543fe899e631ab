------------------------------- MODULE Documents -------------------------------
(***************************************************************************)
(* A book's way through the system: a DOCX or EPUB file is parsed          *)
(* (services/docx_parser.py, services/epub_structured_parser.py), cut into *)
(* segments (services/segmentation.py) and stored (api/upload.py);         *)
(* translation jobs add segments for its headings                          *)
(* (services/translation_jobs.py); the export reads the rows back          *)
(* (services/document_export.py) and writes a file of either format        *)
(* (services/reconstruction.py, services/epub_export.py).  A text is known *)
(* by where it stands in the file.                                         *)
(***************************************************************************)
EXTENDS Integers, Sequences, FiniteSets, SequencesExt

CONSTANTS
  DocxItems, EpubItems,    (* what a file of each format is made of        *)
  Notes,                   (* the notes of a DOCX file that have a text    *)
  HeadingJobs,             (* translation jobs that start on the book      *)
  MaxItems, MaxTranslated  (* bounds: items of a file, segments translated *)

Levels  == 1..6
Formats == {"docx", "epub"}

(* A paragraph, table or element.  note: in DOCX the note it refers to, in   *)
(* EPUB the id of an aside.  parts: how many segments its text is too long   *)
(* for; a table's parts end at a row.                                        *)
ItemsOf(f) == IF f = "docx" THEN DocxItems ELSE EpubItems

ASSUME DocumentsAssumption ==
  /\ \A item \in DocxItems : item.kind \in {"heading", "text", "caption", "table", "image"}
  /\ \A item \in EpubItems :
       /\ item.kind \in {"heading", "text", "quote", "caption", "table", "image", "aside", "break"}
       /\ item.kind \in {"heading", "break"} => item.image = 0
  /\ \A item \in DocxItems \union EpubItems : item.level \in Levels /\ item.parts \in Nat \ {0}
  /\ 0 \notin Notes

VARIABLES
  format, file,    (* the file that is uploaded: a sequence of items          *)
  parsed,          (* the rows of its chapters, sections, blocks and assets   *)
  rows,            (* the rows of its segments                                *)
  heading          (* ensure_structural_heading_segments: the chapter it is   *)
                   (* at, and the rows it has added                           *)

documentVars == <<format, file, parsed, rows, heading>>

Sorted(S, Before(_, _)) ==
  [n \in 1..Cardinality(S) |-> CHOOSE x \in S : Cardinality({y \in S : Before(y, x)}) = n - 1]

NoBook  == [chapters |-> <<>>, assets |-> <<>>]
AtStart == [chapter |-> 1, adds |-> {}]
None    == <<"none", 0>>
Item(i) == <<"item", i>>            \* the text of an item,
Inner(i) == <<"inner", i>>          \* of the paragraph in a quotation,
Note(n) == <<"note", n>>            \* of a note,
BookTitle == <<"title", 0>>         \* and the title of the file

DocumentInit ==
  /\ format = "none" /\ file = <<>> /\ parsed = NoBook /\ rows = {}
  /\ heading = [h \in HeadingJobs |-> AtStart]

Choose(f) ==
  /\ format = "none"
  /\ format' = f
  /\ UNCHANGED <<file, parsed, rows, heading>>

Write ==
  /\ format # "none" /\ parsed = NoBook /\ Len(file) < MaxItems
  /\ \E item \in ItemsOf(format) : file' = Append(file, item)
  /\ UNCHANGED <<format, parsed, rows, heading>>

----------------------------------------------------------------------------
(* What both parsers do.  d is the document so far, c its current chapter;   *)
(* the target is the last table or figure, which a caption belongs to.       *)
Blank(title) == [title |-> title, sections |-> <<>>, blocks |-> <<>>,
                 stack |-> [l \in Levels |-> 0], section |-> 0, target |-> 0]

Block(c, type, text, item) ==
  [type |-> type, text |-> text, section |-> c.section, level |-> item.level, parts |-> item.parts,
   note |-> IF type \in {"table", "figure"} THEN 0 ELSE item.note, asset |-> 0, target |-> 0]

Add(c, block) == [c EXCEPT !.blocks = Append(@, block)]

(* Mutant: the deeper levels stay on the stack.                              *)
OpenSectionKeeping(c, i, item, top) ==
  LET above  == {l \in top..(item.level - 1) : c.stack[l] # 0}
      new    == Len(c.sections) + 1
      opened == [c EXCEPT
        !.sections = Append(@, [level |-> item.level, title |-> Item(i),
                                parent |-> IF above = {} THEN 0 ELSE c.stack[Max(above)]]),
        !.stack = [l \in Levels |-> IF l = item.level THEN new ELSE @[l]],
        !.section = new]
  IN  Add(opened, Block(opened, "heading", Item(i), item))

(* A heading inside a chapter; top is the highest level of a section.        *)
OpenSection(c, i, item, top) ==
  LET above  == {l \in top..(item.level - 1) : c.stack[l] # 0}
      new    == Len(c.sections) + 1
      opened == [c EXCEPT
        !.sections = Append(@, [level |-> item.level, title |-> Item(i),
                                parent |-> IF above = {} THEN 0 ELSE c.stack[Max(above)]]),
        !.stack = [l \in Levels |-> CASE l < item.level -> @[l] [] l = item.level -> new [] OTHER -> 0],
        !.section = new]
  IN  Add(opened, Block(opened, "heading", Item(i), item))

AddText(c, i, item) ==
  CASE item.kind \in {"image", "break"} -> c
    [] item.kind = "table"   -> [Add(c, Block(c, "table", Item(i), item)) EXCEPT !.target = Len(c.blocks) + 1]
    [] item.kind = "caption" -> Add(c, [Block(c, "caption", Item(i), item) EXCEPT !.target = c.target])
    [] item.kind = "quote"   -> Add(Add(c, Block(c, "text", Item(i), item)), Block(c, "text", Inner(i), item))
    [] item.kind = "aside"   -> Add(c, Block(c, "note", Item(i), item))
    [] OTHER                 -> Add(c, Block(c, "text", Item(i), item))

(* _register_asset: one asset for images of the same content.                *)
Register(assets, image) == IF Contains(assets, image) THEN assets ELSE Append(assets, image)

AddFigure(d, i, item) ==
  LET assets == Register(d.assets, item.image)
      c      == d.current
      figure == [Block(c, "figure", Item(i), item) EXCEPT !.asset = SelectInSeq(assets, LAMBDA a : a = item.image)]
  IN  IF item.image = 0 THEN d
      ELSE [d EXCEPT !.assets = assets, !.current = [Add(c, figure) EXCEPT !.target = Len(c.blocks) + 1]]

Close(d) ==
  IF d.current.title = None /\ d.current.blocks = <<>> THEN d
  ELSE [d EXCEPT !.chapters = Append(@, d.current)]

NextChapter(d, title) == [Close(d) EXCEPT !.current = Blank(title)]

(* parse_docx: a heading of level 1 starts a chapter; its note and what      *)
(* images a heading has are not read.                                        *)
DocxItem(d, i) ==
  LET item == file[i] IN
  CASE item.kind # "heading" -> AddFigure([d EXCEPT !.current = AddText(@, i, item)], i, item)
    [] item.kind = "heading" /\ item.level = 1 -> NextChapter(d, Item(i))
    [] OTHER -> [d EXCEPT !.current = OpenSection(@, i, item, 2)]

(* _append_referenced_notes: after the blocks of the chapter that refers to  *)
(* them first.                                                               *)
References(c, n) == {b \in DOMAIN c.blocks : c.blocks[b].note = n}

NotesOf(chapters, k) ==
  Sorted({n \in Notes : References(chapters[k], n) # {} /\ \A j \in 1..(k - 1) : References(chapters[j], n) = {}},
         LAMBDA m, n : Min(References(chapters[k], m)) < Min(References(chapters[k], n)))

NoteBlock(n) == [type |-> "note", text |-> Note(n), section |-> 0, level |-> 1, parts |-> 1,
                 note |-> n, asset |-> 0, target |-> 0]

(* parse_epub: a document of the spine is a chapter, titled by its first     *)
(* heading; the paragraph in a blockquote is read a second time.             *)
EpubElement(d, i) ==
  LET item == file[i] IN
  CASE item.kind = "break" -> NextChapter(d, None)
    [] item.kind = "heading" /\ d.current.title = None -> [d EXCEPT !.current.title = Item(i)]
    [] item.kind = "heading" /\ d.current.title # None -> [d EXCEPT !.current = OpenSection(@, i, item, 1)]
    [] OTHER -> AddFigure([d EXCEPT !.current = AddText(@, i, item)], i, item)

Stored(c, notes) ==
  [title |-> c.title, sections |-> c.sections, blocks |-> c.blocks \o [n \in DOMAIN notes |-> NoteBlock(notes[n])]]

NoDocument == [chapters |-> <<>>, current |-> Blank(None), assets |-> <<>>]

Parse ==
  LET read[n \in 0..Len(file)] ==
        IF n = 0 THEN NoDocument
        ELSE IF format = "docx" THEN DocxItem(read[n - 1], n) ELSE EpubElement(read[n - 1], n)
      d        == Close(read[Len(file)])
      untitled == format = "docx" /\ Len(d.chapters) = 1 /\ d.chapters[1].title = None
      chapters == CASE d.chapters = <<>> -> <<Blank(BookTitle)>>
                    [] untitled          -> <<[d.chapters[1] EXCEPT !.title = BookTitle]>>
                    [] OTHER             -> d.chapters
  IN  [chapters |-> [k \in DOMAIN chapters |->
                       Stored(chapters[k], IF format = "docx" THEN NotesOf(chapters, k) ELSE <<>>)],
       assets   |-> d.assets]

----------------------------------------------------------------------------
(* segment_chapter: the parts of the texts, headings aside.                  *)
Drafts(c) ==
  FlattenSeq([b \in DOMAIN c.blocks |->
                IF c.blocks[b].type \in {"heading", "figure"} THEN <<>>
                ELSE [p \in 1..c.blocks[b].parts |-> <<b, p>>]])

SegmentChapter(k, c) ==
  LET drafts == Drafts(c) IN
  {[chapter |-> k, position |-> n - 1, block |-> drafts[n][1], key |-> None,
    text |-> c.blocks[drafts[n][1]].text, part |-> drafts[n][2], state |-> "source", by |-> "upload"] : n \in DOMAIN drafts}

StoreDocument ==       \* upload_book, once the images are stored
  /\ format # "none" /\ parsed = NoBook
  /\ parsed' = Parse
  /\ rows' = UNION {SegmentChapter(k, parsed'.chapters[k]) : k \in DOMAIN parsed'.chapters}
  /\ UNCHANGED <<format, file, heading>>

(* The keys that the segments of a chapter's headings carry in metadata.     *)
Structural(c) ==
  (IF c.title = None THEN {} ELSE {<<"chapter", 0>>}) \union {<<"section", s>> : s \in DOMAIN c.sections}

TitleOf(c, key) == IF key[1] = "chapter" THEN c.title ELSE c.sections[key[2]].title

Top == -100000         \* where the positions of headings start

(* allocate_position, called for the missing headings in their order: the    *)
(* first positions that are left.                                            *)
Allocated(taken, missing, key) ==
  LET free == (Top..(Top + Cardinality(taken) + Cardinality(missing))) \ taken
      rank == Cardinality({m \in missing : m[2] <= key[2]})
  IN  CHOOSE p \in free : Cardinality({q \in free : q <= p}) = rank

(* What a job adds to a chapter, of which it reads the segments that are     *)
(* committed: the headings that lack one.                                    *)
NewHeadings(h, k) ==
  LET c       == parsed.chapters[k]
      here    == {r \in rows : r.chapter = k}
      missing == {key \in Structural(c) : \A r \in here : r.key # key}
  IN  {[chapter |-> k, position |-> Allocated({r.position : r \in here}, missing, key), block |-> 0, key |-> key,
        text |-> TitleOf(c, key), part |-> 1, state |-> "source", by |-> h] : key \in missing}

AddHeadings(h) ==
  /\ heading[h].chapter \in DOMAIN parsed.chapters
  /\ heading' = [heading EXCEPT ![h] = [chapter |-> @.chapter + 1, adds |-> @.adds \union NewHeadings(h, @.chapter)]]
  /\ UNCHANGED <<format, file, parsed, rows>>

(* uq_segment_chapter_position                                               *)
Collide(adds) == \E a \in adds, r \in rows : a.chapter = r.chapter /\ a.position = r.position

(* Mutant: positions need not be unique.                                     *)
CommitHeadingsAnyway(h) ==
  /\ parsed # NoBook /\ heading[h].chapter > Len(parsed.chapters)
  /\ rows' = rows \union heading[h].adds
  /\ heading' = [heading EXCEPT ![h] = AtStart]
  /\ UNCHANGED <<format, file, parsed>>

CommitHeadings(h) ==
  /\ parsed # NoBook /\ heading[h].chapter > Len(parsed.chapters)
  /\ ~Collide(heading[h].adds)
  /\ rows' = rows \union heading[h].adds
  /\ heading' = [heading EXCEPT ![h] = AtStart]
  /\ UNCHANGED <<format, file, parsed>>

HeadingsCollide(h) ==  \* the job ends there, until it is delivered again
  /\ Collide(heading[h].adds)
  /\ heading' = [heading EXCEPT ![h] = AtStart]
  /\ UNCHANGED <<format, file, parsed, rows>>

(* A segment is translated.  A table's text may come back with other rows or *)
(* columns than it had.                                                      *)
Translated == {r \in rows : r.state # "source"}

TypeOf(r) == IF r.block = 0 THEN "heading" ELSE parsed.chapters[r.chapter].blocks[r.block].type

TranslateRow(r) ==
  /\ r.state = "source" /\ Cardinality(Translated) < MaxTranslated
  /\ \E state \in {"kept"} \union IF TypeOf(r) = "table" THEN {"bent"} ELSE {} :
       rows' = (rows \ {r}) \union {[r EXCEPT !.state = state]}
  /\ UNCHANGED <<format, file, parsed, heading>>

DocumentNext ==
  \/ \E f \in Formats : Choose(f)
  \/ Write \/ StoreDocument
  \/ \E h \in HeadingJobs : AddHeadings(h) \/ CommitHeadings(h) \/ HeadingsCollide(h)
  \/ \E r \in rows : TranslateRow(r)

DocumentSpec == DocumentInit /\ [][DocumentNext]_documentVars

----------------------------------------------------------------------------
(* load_normalized_document of the translated book, and what the two exports *)
(* make of it.  A text is the sequence of its parts, each as <<text, part,   *)
(* whether it is translated>>.                                               *)
RowsOf(k, b) ==
  Sorted({r \in rows : r.chapter = k /\ r.block = b}, LAMBDA q, r : q.position < r.position)

SourceText(block) == [p \in 1..block.parts |-> <<block.text, p, FALSE>>]

HeadingText(k, key) ==
  LET found == {r \in Translated : r.chapter = k /\ r.key = key}
      last  == CHOOSE r \in found : \A q \in found : q.position <= r.position
  IN  IF found = {} THEN <<<<TitleOf(parsed.chapters[k], key), 1, FALSE>>>> ELSE <<<<last.text, 1, TRUE>>>>

(* _translated_text and _translated_table_cells.                             *)
LoadedText(k, b) ==
  LET block  == parsed.chapters[k].blocks[b]
      mine   == RowsOf(k, b)
      joined == [n \in DOMAIN mine |-> <<mine[n].text, mine[n].part, mine[n].state # "source">>]
  IN  CASE block.type = "figure"  -> <<>>
        [] block.type = "heading" -> HeadingText(k, <<"section", block.section>>)
        [] block.type = "table"   ->
             IF \E n \in DOMAIN mine : mine[n].state = "bent" THEN SourceText(block) ELSE joined
        [] OTHER -> joined

Printed(as, level, says, shows, note) ==
  <<[as |-> as, level |-> level, says |-> says, shows |-> shows, note |-> note]>>

TitlePrinted(k) == Printed("heading", 1, HeadingText(k, <<"chapter", 0>>), 0, 0)

(* A block of a DOCX, with the reference to its note; and of an EPUB, which  *)
(* has the notes in their place.                                             *)
DocxBlock(k, b) ==
  LET block == parsed.chapters[k].blocks[b] IN
  CASE block.type = "note"    -> <<>>
    [] block.type = "figure"  -> Printed("figure", 0, <<>>, parsed.assets[block.asset], 0)
    [] block.type = "heading" -> Printed("heading", block.level, LoadedText(k, b), 0, IF format = "docx" THEN block.note ELSE 0)
    [] OTHER                  -> Printed(block.type, 0, LoadedText(k, b), 0, IF format = "docx" THEN block.note ELSE 0)

EpubBlock(k, b) ==
  LET block == parsed.chapters[k].blocks[b] IN
  CASE block.type = "note"    -> Printed("note", 0, LoadedText(k, b), 0, block.note)
    [] block.type = "figure"  -> Printed("figure", 0, <<>>, parsed.assets[block.asset], 0)
    [] block.type = "heading" -> Printed("heading", Max({2, block.level}), LoadedText(k, b), 0, 0)
    [] OTHER                  -> Printed(block.type, 0, LoadedText(k, b), 0, 0)

(* reconstruct_docx and reconstruct_epub, which makes up a missing title     *)
(* (left out here); the notes of a DOCX are kept by their id.                *)
Exported(to) ==
  FlattenSeq([k \in DOMAIN parsed.chapters |->
    (IF parsed.chapters[k].title = None THEN <<>> ELSE TitlePrinted(k))
      \o FlattenSeq([b \in DOMAIN parsed.chapters[k].blocks |->
           IF to = "docx" THEN DocxBlock(k, b) ELSE EpubBlock(k, b)])])

NoteBlocks ==
  {at \in UNION {{<<k, b>> : b \in DOMAIN parsed.chapters[k].blocks} : k \in DOMAIN parsed.chapters} :
     parsed.chapters[at[1]].blocks[at[2]].type = "note"}

NoteOf(at) == parsed.chapters[at[1]].blocks[at[2]].note

ExportedNotes ==
  [n \in {NoteOf(at) : at \in NoteBlocks} |->
     LET mine == {at \in NoteBlocks : NoteOf(at) = n}
         last == CHOOSE at \in mine : \A o \in mine : o[1] < at[1] \/ (o[1] = at[1] /\ o[2] <= at[2])
     IN  LoadedText(last[1], last[2])]

----------------------------------------------------------------------------
(* The same, told from the file: no chapters, sections or blocks.            *)
ChapterOf(i) ==
  Cardinality({j \in 1..i : IF format = "docx" THEN file[j].kind = "heading" /\ file[j].level = 1
                                               ELSE file[j].kind = "break"})
Heading(i) == file[i].kind = "heading"
Title(i)   == /\ Heading(i)
              /\ IF format = "docx" THEN file[i].level = 1
                 ELSE \A j \in 1..(i - 1) : Heading(j) => ChapterOf(j) # ChapterOf(i)
Earlier(i, Test(_)) == {j \in 1..(i - 1) : ChapterOf(j) = ChapterOf(i) /\ Test(j)}
Nearest(S) == IF S = {} THEN None ELSE Item(Max(S))

Done(text, part) == \E r \in Translated : r.text = text /\ r.part = part
Bent(i)          == \E r \in rows : r.text = Item(i) /\ r.state = "bent"
Reads(text, i)   == [p \in 1..file[i].parts |-> <<text, p, Done(text, p) /\ ~Bent(i)>>]

(* The notes of a DOCX that are read: not a chapter title's, not a table's.  *)
NoteAt(i)   == IF format # "docx" \/ Title(i) \/ file[i].kind \in {"table", "image"} THEN 0 ELSE file[i].note
FirstAt(n)  == {i \in DOMAIN file : NoteAt(i) = n /\ \A j \in 1..(i - 1) : NoteAt(j) # n}
NotesFrom(c) ==       \* that are first referred to in chapter c
  Sorted({n \in Notes : \E i \in FirstAt(n) : ChapterOf(i) = c}, LAMBDA m, n : Max(FirstAt(m)) < Max(FirstAt(n)))

Expected(i, to) ==
  LET item   == file[i]
      note   == IF to = "docx" THEN NoteAt(i) ELSE 0
      type   == IF item.kind = "quote" THEN "text" ELSE item.kind
      level  == IF Title(i) THEN 1 ELSE IF to = "docx" THEN item.level ELSE Max({2, item.level})
  IN  (CASE Heading(i)                        -> Printed("heading", level, <<<<Item(i), 1, Done(Item(i), 1)>>>>, 0, note)
         [] item.kind = "aside"               -> IF to = "docx" THEN <<>> ELSE Printed("note", 0, Reads(Item(i), i), 0, item.note)
         [] item.kind \in {"image", "break"}  -> <<>>
         [] OTHER                             -> Printed(type, 0, Reads(Item(i), i), 0, note))
      \o (IF item.kind = "quote" THEN Printed(type, 0, Reads(Inner(i), i), 0, note) ELSE <<>>)
      \o (IF item.image = 0 \/ Heading(i) THEN <<>> ELSE Printed("figure", 0, <<>>, item.image, 0))

(* A chapter: its title, what else it has, and, in the EPUB of a DOCX, the   *)
(* notes.                                                                    *)
TitleOfChapter(c, to) ==
  FlattenSeq([i \in DOMAIN file |-> IF ChapterOf(i) = c /\ Title(i) THEN Expected(i, to) ELSE <<>>])

BodyOfChapter(c, to) ==
  FlattenSeq([i \in DOMAIN file |-> IF ChapterOf(i) = c /\ ~Title(i) THEN Expected(i, to) ELSE <<>>])

NotesOfChapter(c, to) ==
  IF to = "docx" \/ format = "epub" THEN <<>>
  ELSE FlattenSeq([n \in DOMAIN NotesFrom(c) |->
         LET note == NotesFrom(c)[n] IN Printed("note", 0, <<<<Note(note), 1, Done(Note(note), 1)>>>>, 0, note)])

(* A DOCX without a chapter title, and an EPUB without anything, get the     *)
(* file's title as the only one.                                             *)
Untitled == \A i \in DOMAIN file :
  IF format = "docx" THEN ~Title(i) ELSE file[i].kind = "break" \/ (file[i].kind = "image" /\ file[i].image = 0)

ExpectedFile(to) ==
  (IF Untitled THEN Printed("heading", 1, <<<<BookTitle, 1, Done(BookTitle, 1)>>>>, 0, 0) ELSE <<>>)
    \o FlattenSeq([c \in 1..(ChapterOf(Len(file)) + 1) |->
          TitleOfChapter(c - 1, to) \o BodyOfChapter(c - 1, to) \o NotesOfChapter(c - 1, to)])

ExpectedNotes ==
  IF format = "docx"
    THEN [n \in {m \in Notes : FirstAt(m) # {}} |-> <<<<Note(n), 1, Done(Note(n), 1)>>>>]
    ELSE LET asides == {i \in DOMAIN file : file[i].kind = "aside"} IN
         [n \in {file[i].note : i \in asides} |->
            LET last == Max({i \in asides : file[i].note = n}) IN Reads(Item(last), last)]

(* The rows of sections and captions: a section belongs to the nearest one   *)
(* of a higher level before it in its chapter, a text to the nearest section,*)
(* a caption to the nearest table or figure.                                 *)
Section(i)  == Heading(i) /\ ~Title(i)
TargetAt(i) == file[i].kind = "table" \/ (file[i].image # 0 /\ ~Heading(i))

StructureFollowsFile ==
  \A k \in DOMAIN parsed.chapters :
    LET c == parsed.chapters[k]
        titleOf(s) == IF s = 0 THEN None ELSE c.sections[s].title
    IN  /\ \A s \in DOMAIN c.sections :
             LET i == c.sections[s].title[2] IN
             titleOf(c.sections[s].parent) = Nearest(Earlier(i, LAMBDA j : Section(j) /\ file[j].level < file[i].level))
        /\ \A b \in DOMAIN c.blocks :
             LET i == c.blocks[b].text[2] IN
             c.blocks[b].text[1] # "note" =>
               /\ c.blocks[b].type # "heading" => titleOf(c.blocks[b].section) = Nearest(Earlier(i, Section))
               /\ c.blocks[b].type = "caption" =>
                    (IF c.blocks[b].target = 0 THEN None ELSE c.blocks[c.blocks[b].target].text) = Nearest(Earlier(i, TargetAt))

(* The export follows the file that was uploaded: every text, table and      *)
(* figure once and in its order, each part of a text translated when its     *)
(* segment is, a table only when its shape was kept, every note under the    *)
(* reference to it; and the structure in between is the file's.  Known       *)
(* exceptions, which the file's reading above repeats: what parse_docx drops *)
(* in headings and tables, the EPUB title that moves to the front of its     *)
(* document, quotations that come twice, asides that share an id in a DOCX.  *)
ExportFollowsSource ==
  parsed # NoBook =>
    /\ StructureFollowsFile
    /\ ExportedNotes = ExpectedNotes
    /\ \A to \in Formats : Exported(to) = ExpectedFile(to)

(* Jobs of one book that start together add one segment for every heading:   *)
(* they count from the same position, and the unique constraint stops the    *)
(* one that commits last.                                                    *)
HeadingsAreSegmentedOnce ==
  \A r, q \in rows : r.chapter = q.chapter /\ r.key = q.key /\ r.key # None => r = q
===============================================================================
