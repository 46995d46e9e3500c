---------------------------- MODULE TextCoverage ----------------------------
(***************************************************************************)
(* triage/text_coverage.py: one document of a matter and what is derived   *)
(* from it: an OCR'd copy, a text file, the row the audit has cached of    *)
(* it.  ensure audits, repairs what the audit found wanting, and audits    *)
(* again; the sync runs it on every pass.  Meanwhile the document may be   *)
(* replaced, a person may write a transcription, and a run may be killed.  *)
(* Documents share nothing but the cache file, so one stands for all; the  *)
(* runs of ensure come one at a time.                                      *)
(*                                                                         *)
(* A page is what is on it: "typed" (a text layer that is right), "scan"   *)
(* (a picture of words), "bodied" (the same under a text layer that is     *)
(* not), "photo" (no words).  Modification times are numbers of a clock    *)
(* that every write advances.                                              *)
(***************************************************************************)
EXTENDS Integers, Sequences, FiniteSets

CONSTANTS
  Looks,       \* of each kind of document: the page sequences there are
  MaxTroubles  \* bound: replacements, runs with --redo-ocr and runs killed, together

ASSUME CoverageAssumption ==
  /\ DOMAIN Looks \subseteq {"pdf", "image", "docx"}
  /\ \A k \in DOMAIN Looks : \A look \in Looks[k] :
       /\ look \in Seq({"typed", "scan", "bodied", "photo"})
       /\ k # "pdf" => Len(look) = 1
  /\ MaxTroubles \in Nat

VARIABLES
  kind, inbox, \* its type; it is under inbox/
  doc,         \* the document: version, time, pages
  copy,        \* the OCR'd copies, under derived/ocr and beside the document
  text,        \* the text files, under derived/text and beside the document
  cache,       \* its row in .state/text_coverage.json
  now,         \* the clock
  run,         \* the run of ensure
  human,       \* history: places a person wrote a transcription to
  tainted,     \* history: the document was replaced under a reader, or a text file
               \* was cut off
  troubles

vars == <<kind, inbox, doc, copy, text, cache, now, run, human, tainted, troubles>>

Places == {"derived", "beside"}

NoCopy  == [of |-> 0, time |-> 0, layers |-> << >>]
NoText  == [of |-> 0, time |-> 0, ours |-> FALSE, pages |-> 0, says |-> {}]
NoStamp == [doc |-> <<0, 0>>, copy |-> [p \in Places |-> 0], text |-> [p \in Places |-> 0]]
NoRow   == [stamp |-> NoStamp, state |-> "none"]
Idle    == [pc |-> "idle", last |-> FALSE, all |-> FALSE, redo |-> FALSE,
            stamp |-> NoStamp, state |-> "none", held |-> NoText, ocr |-> NoCopy]

-----------------------------------------------------------------------------
\* The words of a page: in its text layer, lost under a poor one, or nowhere.
Layer(page)  == CASE page = "typed" -> "good" [] page = "bodied" -> "poor" [] OTHER -> "none"
Layers(look) == [i \in DOMAIN look |-> Layer(look[i])]

\* ocrmypdf: the pages named, whatever text they have; or those without any.
Ocred(look, force) ==
  [i \in DOMAIN look |->
     IF look[i] # "photo" /\ (i \in force \/ (force = {} /\ Layer(look[i]) = "none"))
       THEN "good" ELSE Layer(look[i])]

Good(layers) == {i \in DOMAIN layers : layers[i] = "good"}

\* ocr_copy_for, text_file_for: under derived/ first.
Copy     == IF copy["derived"] # NoCopy THEN copy["derived"] ELSE copy["beside"]
TextFile == IF text["derived"] # NoText THEN text["derived"] ELSE text["beside"]

\* What a PDF is read from, and the pages whose text is not to be trusted: of an
\* OCR'd copy those that OCR left without any.
Source    == IF Copy = NoCopy THEN Layers(doc.look) ELSE Copy.layers
Uncovered ==
  {i \in DOMAIN Source : Source[i] = "none" \/ (Copy = NoCopy /\ Source[i] = "poor")}

\* What a tool gets out of the document: of a PDF, the text of its source.
Readable == IF kind = "pdf" THEN Good(Source) ELSE {i \in DOMAIN doc.look : doc.look[i] # "photo"}

\* Slip: the document's own time is not compared.
OldSlip(t) == kind = "pdf" /\ (t.time < Copy.time \/ t.pages # Len(Source))

Old(t) == t.time < doc.time \/ (kind = "pdf" /\ (t.time < Copy.time \/ t.pages # Len(Source)))

\* classify_pdf, classify_other.
Classify ==
  IF kind = "pdf" /\ Uncovered # {} THEN "needs-ocr"
  ELSE IF TextFile = NoText THEN IF kind = "image" THEN "needs-ocr" ELSE "needs-sidecar"
  ELSE IF ~TextFile.ours THEN "unverified-sidecar"
  ELSE IF Old(TextFile) THEN "stale-sidecar"
  ELSE "searchable"

\* Size and time of the document and of every file beside and derived; the slip
\* knows the document's own only.
StampSlip ==
  [doc |-> <<doc.of, doc.time>>, copy |-> NoStamp.copy,
   text |-> [p \in Places |-> text[p].time]]

Stamp ==
  [doc |-> <<doc.of, doc.time>>, copy |-> [p \in Places |-> copy[p].time],
   text |-> [p \in Places |-> text[p].time]]

-----------------------------------------------------------------------------
\* A matter from before derived/: a copy somebody's tool made may lie beside the
\* document, and a text file of this tool.
Init ==
  /\ kind \in DOMAIN Looks /\ inbox \in BOOLEAN
  /\ doc \in {[of |-> 1, time |-> 1, look |-> look] : look \in Looks[kind]}
  /\ \E made \in {NoCopy, [of |-> 1, time |-> 2, layers |-> Ocred(doc.look, {})]} :
       /\ made # NoCopy => kind = "pdf"
       /\ copy = [p \in Places |-> IF p = "beside" THEN made ELSE NoCopy]
       /\ \E t \in {NoText, [of |-> 1, time |-> 3, ours |-> TRUE,
                             pages |-> Len(doc.look), says |-> Readable]} :
            text = [p \in Places |-> IF p = "beside" THEN t ELSE NoText]
  /\ cache = NoRow /\ now = 3 /\ run = Idle
  /\ human = {} /\ tainted = FALSE
  /\ troubles = 0

Trouble == troubles < MaxTroubles /\ troubles' = troubles + 1

files == <<kind, inbox, doc, copy, text, now, human, tainted>>

\* sc text audit, sc text ensure, the same with --redo-ocr; with --include-inbox
\* or without.
Start(all, how) ==
  /\ run.pc = "idle"
  /\ IF how = "redo" THEN Trouble ELSE UNCHANGED troubles
  /\ run' = [Idle EXCEPT !.pc = "look", !.all = all,
                         !.redo = (how = "redo"), !.last = (how = "audit")]
  /\ UNCHANGED <<files, cache>>

\* audit: the stamp is taken, and the cached row believed if it has it.
Look ==
  /\ run.pc = "look"
  /\ run' = [run EXCEPT !.stamp = Stamp, !.state = cache.state,
                        !.pc = IF cache.stamp = Stamp THEN "row" ELSE "classify"]
  /\ UNCHANGED <<files, cache, troubles>>

Survey ==
  /\ run.pc = "classify"
  /\ run' = [run EXCEPT !.state = Classify, !.pc = "row"]
  /\ UNCHANGED <<files, cache, troubles>>

RowState == IF inbox /\ ~run.all THEN "untriaged" ELSE run.state

TodoSlip == {"needs-ocr", "needs-sidecar"}

Todo == {"needs-ocr", "needs-sidecar", "stale-sidecar"}

\* The row is cached, and ensure repairs what it says.
Row ==
  /\ run.pc = "row"
  /\ cache' = [stamp |-> run.stamp, state |-> RowState]
  /\ run' = IF ~run.last /\ RowState \in Todo
              THEN [run EXCEPT !.pc = IF kind # "pdf" THEN "tool"
                                      ELSE IF run.state = "needs-ocr" THEN "ocr" ELSE "dump"]
              ELSE Idle
  /\ UNCHANGED <<files, troubles>>

Again == [run EXCEPT !.pc = "look", !.last = TRUE, !.held = NoText, !.ocr = NoCopy]

\* repair, ocr_pdf: pages with useless text are forced, and only they; a copy
\* under derived/ is made anew with --redo-ocr only.
OcrStart ==
  /\ run.pc = "ocr"
  /\ run' = IF copy["derived"] # NoCopy /\ ~run.redo THEN Again
            ELSE [run EXCEPT !.pc = "ocring",
                   !.ocr = [of |-> doc.of, time |-> 0,
                            layers |-> Ocred(doc.look, {i \in Uncovered \cap DOMAIN doc.look :
                                                          Copy = NoCopy /\ Source[i] = "poor"})]]
  /\ UNCHANGED <<files, cache, troubles>>

OcrDone ==
  /\ run.pc = "ocring"
  /\ now' = now + 1
  /\ copy' = [copy EXCEPT !["derived"] = [run.ocr EXCEPT !.time = now']]
  /\ run' = [run EXCEPT !.pc = "dump", !.ocr = NoCopy]
  /\ UNCHANGED <<kind, inbox, doc, text, cache, human, tainted, troubles>>

\* write_pdf_sidecar, as far as it reads: the copy if there is one.
Dump ==
  /\ run.pc = "dump"
  /\ run' = IF text["derived"] # NoText /\ ~text["derived"].ours THEN Again
            ELSE [run EXCEPT !.pc = "write",
                   !.held = [of |-> IF Copy = NoCopy THEN doc.of ELSE Copy.of, time |-> 0,
                             ours |-> TRUE, pages |-> Len(Source), says |-> Readable]]
  /\ UNCHANGED <<files, cache, troubles>>

\* tesseract and pandoc read an image and a Word document.
Tool ==
  /\ run.pc = "tool"
  /\ run' = [run EXCEPT !.pc = IF kind = "image" THEN "raw" ELSE "write",
               !.held = [of |-> doc.of, time |-> 0, ours |-> TRUE, pages |-> 1, says |-> Readable]]
  /\ UNCHANGED <<files, cache, troubles>>

\* tesseract's own output, which has no header yet.
Raw ==
  /\ run.pc = "raw"
  /\ now' = now + 1
  /\ text' = [text EXCEPT !["derived"] = [run.held EXCEPT !.time = now', !.ours = FALSE]]
  /\ run' = [run EXCEPT !.pc = "write"]
  /\ UNCHANGED <<kind, inbox, doc, copy, cache, human, tainted, troubles>>

Write ==
  /\ run.pc = "write"
  /\ now' = now + 1
  /\ text' = [text EXCEPT !["derived"] = [run.held EXCEPT !.time = now']]
  /\ run' = Again
  /\ UNCHANGED <<kind, inbox, doc, copy, cache, human, tainted, troubles>>

\* A tool is not installed, or fails: a reported row, and the audit goes on.
Fail ==
  /\ run.pc \in {"ocring", "dump", "tool", "raw", "write"}
  /\ run' = Again
  /\ UNCHANGED <<files, cache, troubles>>

\* What a kill can cut off: the cache (then unreadable, and ignored), and a text
\* file that is written in place.
Tears == {"image", "docx"}

Torn == {[run.held EXCEPT !.time = now + 1, !.ours = mark, !.says = {}] :
           mark \in IF run.pc = "write" THEN BOOLEAN ELSE {FALSE}}

Kill ==
  /\ run.pc # "idle" /\ Trouble
  /\ run' = Idle
  /\ \/ UNCHANGED <<text, now, tainted>>
     \/ /\ run.pc \in {"raw", "write"} /\ kind \in Tears
        /\ now' = now + 1 /\ tainted' = TRUE
        /\ \E t \in Torn : text' = [text EXCEPT !["derived"] = t]
  /\ cache' \in {cache, NoRow}
  /\ cache' # cache => run.pc = "row"
  /\ UNCHANGED <<kind, inbox, doc, copy, human>>

\* The document is replaced by one saved now (not by a file that kept an older
\* time, of which only the cache would notice).
Edit ==
  /\ Trouble /\ now' = now + 1
  /\ \E look \in Looks[kind] :
       doc' = [of |-> doc.of + 1, time |-> now + 1, look |-> look]
  /\ tainted' = (run.held # NoText \/ run.ocr # NoCopy)
  /\ UNCHANGED <<kind, inbox, copy, text, cache, run, human>>

\* A person writes down what the document says.
Transcribe(p) ==
  /\ text[p] = NoText
  /\ now' = now + 1 /\ human' = human \cup {p}
  /\ text' = [text EXCEPT ![p] = [NoText EXCEPT !.of = doc.of, !.time = now']]
  /\ UNCHANGED <<kind, inbox, doc, copy, cache, run, tainted, troubles>>

\* migrate: the tool's own text file, and an OCR'd copy it made or is told to
\* take, go under derived/, with their times.
Migrate(take) ==
  /\ run.pc = "idle"
  /\ text' = IF ~text["beside"].ours THEN text
             ELSE [p \in Places |-> IF p = "beside" THEN NoText ELSE TextFile]
  /\ copy' = IF take /\ copy["derived"] = NoCopy
               THEN [p \in Places |-> IF p = "beside" THEN NoCopy ELSE copy["beside"]]
               ELSE copy
  /\ cache' = NoRow
  /\ UNCHANGED <<kind, inbox, doc, now, run, human, tainted, troubles>>

Ensure ==
  \/ \E all \in BOOLEAN, how \in {"audit", "ensure", "redo"} : Start(all, how)
  \/ Look \/ Survey \/ Row \/ OcrStart \/ OcrDone \/ Dump \/ Tool \/ Raw \/ Write \/ Fail

Next ==
  \/ Ensure \/ Kill \/ Edit
  \/ \E p \in Places : Transcribe(p)
  \/ \E take \in BOOLEAN : Migrate(take)

Spec == Init /\ [][Next]_vars

\* The sync runs ensure on every pass, a run that is not killed goes on, and a
\* tool that is called again and again works in the end.
FairSpec ==
  /\ Spec
  /\ WF_vars(Ensure) /\ SF_vars(Start(FALSE, "ensure"))
  /\ SF_vars(OcrDone) /\ SF_vars(Dump) /\ SF_vars(Tool) /\ SF_vars(Raw) /\ SF_vars(Write)

-----------------------------------------------------------------------------
States == {"needs-ocr", "needs-sidecar", "unverified-sidecar", "stale-sidecar", "searchable",
           "untriaged", "none"}

\* The files; and a PDF's derived text, which is replaced and not written over,
\* is whole and the tool's unless a person wrote it; and the transcription a
\* person left beside the document stays.
TypeOK ==
  /\ kind \in DOMAIN Looks /\ doc.look \in Looks[kind] /\ doc.time \in 1 .. now
  /\ \A p \in Places : copy[p].time <= now /\ text[p].time <= now
  /\ cache.state \in States /\ run.state \in States
  /\ run.pc = "idle" <=> run = Idle
  /\ kind = "pdf" /\ text["derived"] # NoText /\ "derived" \notin human => text["derived"].ours
  /\ "beside" \in human => text["beside"] # NoText /\ ~text["beside"].ours

\* "A changed file is always re-surveyed": a row that the cache answers with is
\* what a survey would find.  (Not so for a document that a plain audit saw
\* under inbox/: its row stays "untriaged" for --include-inbox too.)
CacheHonest ==
  cache.stamp = Stamp => cache.state \in {Classify} \cup (IF inbox THEN {"untriaged"} ELSE {})

\* The copy that is read has the words of the document as it is.
CopyCurrent ==
  kind = "pdf" /\ Copy # NoCopy =>
    Copy.of = doc.of /\ \A i \in DOMAIN Copy.layers : Copy.layers[i] # "poor"

Spoken ==
  TextFile.of = doc.of /\ {i \in DOMAIN doc.look : doc.look[i] # "photo"} \subseteq TextFile.says

\* "A current sidecar covers every page": what is reported as searchable has all
\* its words in a text file, as long as the copy it is read from is current.
TextHonest == Classify = "searchable" /\ CopyCurrent /\ ~tainted => Spoken

\* A document that tools can read is searched in the end, whatever fails and is
\* killed on the way.
Repairable ==
  /\ ~inbox /\ CopyCurrent
  /\ \E p \in {"scan", "bodied"} : \A i \in DOMAIN doc.look : doc.look[i] \in {"typed", p}

EventuallySearched ==
  Repairable ~> (Classify \in {"searchable", "unverified-sidecar"} \/ ~Repairable)
=============================================================================
