---------------------------- MODULE CorpusIndex ----------------------------
(***************************************************************************)
(* The start of the process, build_runtime of graph/runtime.py: the corpus *)
(* directory is filled with the packaged texts unless it has some text     *)
(* already, and the documents are indexed unless the index has some        *)
(* document already (storage/documents.py).  Files and the index survive a *)
(* crash; what was to be done is forgotten.                                *)
(*                                                                         *)
(* A text is absent, cut (its copy was begun but not ended) or whole.  A   *)
(* document and its entry in the full-text table are written by one        *)
(* transaction, so the index is one table here.                            *)
(***************************************************************************)
EXTENDS Integers, Sequences

CONSTANT Packaged  \* names of the packaged texts, sorted

Doc == {Packaged[i] : i \in DOMAIN Packaged}

ASSUME PackagedAssumption ==
  /\ Packaged \in Seq(Doc) /\ Packaged # <<>>
  /\ \A i, j \in DOMAIN Packaged : Packaged[i] = Packaged[j] => i = j

VARIABLES phase,   \* of the process
          corpus,  \* files of the corpus directory
          index,   \* documents of the index
          todo,    \* texts still to be copied or indexed
          cut      \* history: some start was cut short

corpusVars == <<phase, corpus, index, todo, cut>>

Phase == {"down", "seeding", "counting", "indexing", "up"}
Text == {"absent", "cut", "whole"}

CorpusTypeOK ==
  /\ phase \in Phase
  /\ corpus \in [Doc -> Text] /\ index \in [Doc -> Text]
  /\ todo \subseteq Doc
  /\ cut \in BOOLEAN

CorpusInit ==
  /\ phase = "down"
  /\ corpus = [d \in Doc |-> "absent"] /\ index = [d \in Doc |-> "absent"]
  /\ todo = {} /\ cut = FALSE

Empty(texts) == \A d \in Doc : texts[d] = "absent"

(* Mutants of StartUp: the texts are copied at every start; the index is counted
   before the directory is filled. *)
StartSeeding ==
  /\ phase = "down"
  /\ phase' = "seeding" /\ todo' = Doc
  /\ UNCHANGED <<corpus, index, cut>>

StartCounting ==
  /\ phase = "down"
  /\ phase' = "counting"
  /\ UNCHANGED <<corpus, index, todo, cut>>

(* _seed_corpus: a directory with any text is left as it is. *)
StartUp ==
  /\ phase = "down"
  /\ IF Empty(corpus) THEN phase' = "seeding" /\ todo' = Doc
     ELSE phase' = "counting" /\ UNCHANGED todo
  /\ UNCHANGED <<corpus, index, cut>>

(* shutil.copy, of one text after the other, in any order. *)
CopyBegins(d) ==
  /\ phase = "seeding" /\ d \in todo /\ corpus[d] # "cut"
  /\ \A e \in todo : corpus[e] # "cut"
  /\ corpus' = [corpus EXCEPT ![d] = "cut"]
  /\ UNCHANGED <<phase, index, todo, cut>>

CopyEnds(d) ==
  /\ phase = "seeding" /\ d \in todo /\ corpus[d] = "cut"
  /\ corpus' = [corpus EXCEPT ![d] = "whole"]
  /\ todo' = todo \ {d}
  /\ UNCHANGED <<phase, index, cut>>

Seeded ==
  /\ phase = "seeding" /\ todo = {}
  /\ phase' = "counting"
  /\ UNCHANGED <<corpus, index, todo, cut>>

(* An index with any document is left as it is. *)
Count ==
  /\ phase = "counting"
  /\ IF Empty(index)
     THEN phase' = "indexing" /\ todo' = {d \in Doc : corpus[d] # "absent"}
     ELSE phase' = "up" /\ UNCHANGED todo
  /\ UNCHANGED <<corpus, index, cut>>

NextDocument(d) ==
  /\ d \in todo
  /\ \E i \in DOMAIN Packaged :
       Packaged[i] = d /\ \A j \in 1 .. i - 1 : Packaged[j] \notin todo

(* Mutant of IndexDocument: a document that is there already is met for ever. *)
IndexDocumentAgain(d) ==
  /\ phase = "indexing" /\ NextDocument(d)
  /\ index' = [index EXCEPT ![d] = IF @ = "absent" THEN corpus[d] ELSE @]
  /\ UNCHANGED <<phase, corpus, todo, cut>>

(* index_text: one transaction for each document, in the order of the names; a
   chunk that is there already is left. *)
IndexDocument(d) ==
  /\ phase = "indexing" /\ NextDocument(d)
  /\ index' = [index EXCEPT ![d] = IF @ = "absent" THEN corpus[d] ELSE @]
  /\ todo' = todo \ {d}
  /\ UNCHANGED <<phase, corpus, cut>>

Indexed ==
  /\ phase = "indexing" /\ todo = {}
  /\ phase' = "up"
  /\ UNCHANGED <<corpus, index, todo, cut>>

(* The process dies, or the start raises. *)
Die ==
  /\ phase # "down"
  /\ phase' = "down" /\ todo' = {} /\ cut' = (cut \/ phase # "up")
  /\ UNCHANGED <<corpus, index>>

StartStep ==
  \/ StartUp \/ Seeded \/ Count \/ Indexed
  \/ \E d \in Doc : CopyBegins(d) \/ CopyEnds(d) \/ IndexDocument(d)

CorpusNext == StartStep \/ Die
CorpusSpec == CorpusInit /\ [][CorpusNext]_corpusVars

-----------------------------------------------------------------------------
(* A process that is up has something to search, and, unless some start was cut
   short, everything: that the directory or the index has anything stands for
   its having everything. *)
SearchableOnceUp ==
  phase = "up" => ~Empty(index) /\ (~cut => \A d \in Doc : index[d] = "whole")

(* What is indexed of a text is what its file has, after any crashes: a start
   never completes a file behind the back of the index. *)
IndexAgrees == \A d \in Doc : index[d] \in {"absent", corpus[d]}
=============================================================================
