-------------------------------- MODULE MCBook --------------------------------
(* The figures of a book and its texts, as two separate systems: a behaviour *)
(* takes steps of either.                                                    *)
EXTENDS Figures, Documents, TLC

A(kind, level, image, note, parts) ==
  [kind |-> kind, level |-> level, image |-> image, note |-> note, parts |-> parts]

DocxSample == {A("heading", 1, 0, 1, 1), A("heading", 2, 2, 1, 1), A("heading", 3, 0, 0, 1),
               A("heading", 4, 0, 0, 1), A("text", 1, 2, 1, 2), A("caption", 1, 0, 2, 1),
               A("table", 1, 0, 1, 2), A("image", 1, 1, 0, 1)}

EpubSample == {A("heading", 1, 0, 0, 1), A("heading", 2, 0, 0, 1), A("heading", 3, 0, 0, 1),
               A("quote", 1, 0, 0, 2), A("caption", 1, 0, 0, 1), A("table", 1, 0, 0, 1),
               A("image", 1, 1, 0, 1), A("aside", 1, 0, 1, 1), A("break", 1, 0, 0, 1)}

JobSymmetry == Permutations(VisionJobs) \union Permutations(RenderJobs) \union Permutations(HeadingJobs)

MCInit == Init /\ DocumentInit

MCNext == \/ DocumentInit /\ Next /\ UNCHANGED documentVars
          \/ Init /\ DocumentNext /\ UNCHANGED vars

MCSpec == MCInit /\ [][MCNext]_<<vars, documentVars>>

(* Figures: two vision jobs overlap, with one translation; or one vision job *)
(* with two render jobs, on one text and all the translations, or with one   *)
(* render job, on two texts and a translation of each.  An upload may fail   *)
(* twice, and one job runs while it does; once its book is there, one failure*)
(* is left to the jobs.                                                      *)
Running(jobs) == Cardinality({j \in jobs : job[j].status # "none"})

FigureFocus ==
  /\ Running(VisionJobs) > 1 => Running(RenderJobs) = 0 /\ writes <= 1
  /\ Running(RenderJobs) > 1 => Len(segments) <= 1
  /\ Len(segments) > 1 => writes <= 2
  /\ unsure \/ upload.pc # "end" => Running(Jobs) <= 1
  /\ faults > 1 => ~book

(* Documents: two jobs overlap on files of up to three items, and            *)
(* translations are written while none is at work.  Of the files of four     *)
(* items those that start with a heading of level 1 or 2 are taken, with one *)
(* translation.                                                              *)
Working == {h \in HeadingJobs : heading[h] # AtStart}

DocumentFocus ==
  /\ Cardinality(Working) > 1 => Len(file) <= 3
  /\ Working # {} => Translated = {}
  /\ Len(file) > 3 =>
       /\ file[1].kind = "heading" /\ file[1].level <= 2
       /\ Cardinality(Translated) <= 1

Focus == FigureFocus /\ DocumentFocus
===============================================================================
