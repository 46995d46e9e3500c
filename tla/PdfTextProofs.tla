---------------------------- MODULE PdfTextProofs ----------------------------
(***************************************************************************)
(* Theorems about TextCoverage, for any documents and any number of        *)
(* replacements and killed runs.  That a cached row is what a survey would *)
(* find needs that every stamp was taken of times the clock had reached:   *)
(* whatever is written afterwards has a later time and another stamp.      *)
(*                                                                         *)
(* Theorems about Redaction follow, for any documents, labels, and         *)
(* configurations: a cell of the document in memory holds what it held in  *)
(* the source, or nothing, or a label, and what was covered was noted      *)
(* first.                                                                  *)
(***************************************************************************)
EXTENDS TextCoverage, Redaction, SequenceTheorems, TLAPS

Times  == 0 .. now
Texts  == [of : Nat, time : Times, ours : BOOLEAN, pages : Nat, says : SUBSET Nat]
Copies == [of : Nat, time : Times, layers : Seq({"good", "poor", "none"})]
Stamps == [doc : Nat \X Times, copy : [Places -> Times], text : [Places -> Times]]
Pcs    == {"idle", "look", "classify", "row", "ocr", "ocring", "dump", "tool", "raw", "write"}
Runs   == [pc : Pcs, last : BOOLEAN, all : BOOLEAN, redo : BOOLEAN,
           stamp : Stamps, state : States, held : Texts, ocr : Copies]

\* The shape of the state: every time, in a file or in a stamp, is past.
Shape ==
  /\ now \in Nat
  /\ kind \in DOMAIN Looks /\ inbox \in BOOLEAN
  /\ doc \in [of : Nat \ {0}, time : Times, look : Looks[kind]] /\ doc.time # 0
  /\ copy \in [Places -> Copies] /\ text \in [Places -> Texts]
  /\ cache \in [stamp : Stamps, state : States]
  /\ run \in Runs
  /\ human \in SUBSET Places

\* What a run holds: nothing when idle; raw output is an image's; what is about
\* to be written is the tool's.
Held ==
  /\ run.pc = "idle" <=> run = Idle
  /\ run.pc = "raw" => kind = "image"
  /\ run.pc \in {"raw", "write"} => run.held.ours

\* Whose text files are.
Owned ==
  /\ kind = "pdf" /\ text["derived"] # NoText /\ "derived" \notin human => text["derived"].ours
  /\ "beside" \in human => text["beside"] # NoText /\ ~text["beside"].ours

True(state) == state \in {Classify} \cup (IF inbox THEN {"untriaged"} ELSE {})

\* The row a run is about to cache is true of the files if its stamp is theirs.
RowHonest == run.pc = "row" /\ run.stamp = Stamp => True(run.state)

TInv == Shape /\ Held /\ Owned
IInv == TInv /\ CacheHonest /\ RowHonest

-----------------------------------------------------------------------------
LEMMA LayersType ==
  ASSUME NEW look \in Seq({"typed", "scan", "bodied", "photo"}), NEW force
  PROVE  /\ Layers(look) \in Seq({"good", "poor", "none"})
         /\ Ocred(look, force) \in Seq({"good", "poor", "none"})
<1>1. DOMAIN look = 1 .. Len(look) /\ Len(look) \in Nat
  BY LenProperties
<1>2. \A page : Layer(page) \in {"good", "poor", "none"}
  BY DEF Layer
<1>3. \A f : f \in [1 .. Len(look) -> {"good", "poor", "none"}]
               => f \in Seq({"good", "poor", "none"})
  BY <1>1, SeqDef
<1>4. Layers(look) \in [1 .. Len(look) -> {"good", "poor", "none"}]
  BY <1>1, <1>2 DEF Layers
<1>5. Ocred(look, force) \in [1 .. Len(look) -> {"good", "poor", "none"}]
  BY <1>1, <1>2 DEF Ocred
<1> QED
  BY <1>3, <1>4, <1>5

LEMMA LookType ==
  ASSUME Shape
  PROVE  doc.look \in Seq({"typed", "scan", "bodied", "photo"})
BY CoverageAssumption DEF Shape

LEMMA SourceType ==
  ASSUME Shape
  PROVE  Source \in Seq({"good", "poor", "none"}) /\ Len(Source) \in Nat /\ Readable \subseteq Nat
<1>1. Layers(doc.look) \in Seq({"good", "poor", "none"})
  BY LookType, LayersType
<1>2. Copy \in Copies
  BY DEF Shape, Copy, Places
<1>3. Source \in Seq({"good", "poor", "none"})
  BY <1>1, <1>2 DEF Source, Copies
<1>4. Len(Source) \in Nat /\ DOMAIN Source = 1 .. Len(Source)
  BY <1>3, LenProperties
<1>5. DOMAIN doc.look \subseteq Nat
  BY LookType, LenProperties
<1> QED
  BY <1>3, <1>4, <1>5 DEF Readable, Good

LEMMA ClassifyType == Classify \in States
BY DEF Classify, States

\* Nothing that Stamp and Classify look at has changed.
LEMMA SameFiles ==
  ASSUME UNCHANGED <<kind, doc, copy, text>>
  PROVE  Stamp' = Stamp /\ Classify' = Classify
<1>1. Stamp' = Stamp
  BY DEF Stamp
<1>2. Copy' = Copy /\ TextFile' = TextFile
  BY DEF Copy, TextFile
<1>3. Source' = Source
  BY <1>2 DEF Source
<1>4. Uncovered' = Uncovered
  BY <1>2, <1>3 DEF Uncovered
<1>5. Old(TextFile)' = Old(TextFile)
  BY <1>2, <1>3 DEF Old
<1>6. Classify' = Classify
  BY <1>2, <1>4, <1>5 DEF Classify
<1> QED
  BY <1>1, <1>6

\* A file written now has a time that no stamp has.
LEMMA NewStamp ==
  ASSUME Shape,
         \/ doc'.time = now + 1
         \/ \E p \in Places : copy'[p].time = now + 1
         \/ \E p \in Places : text'[p].time = now + 1,
         NEW s \in Stamps
  PROVE  s # Stamp'
<1>1. s.doc[2] # now + 1 /\ \A p \in Places : s.copy[p] # now + 1 /\ s.text[p] # now + 1
  BY DEF Shape, Stamps, Times
<1>2. CASE doc'.time = now + 1
  BY <1>1, <1>2 DEF Stamp
<1>3. CASE \E p \in Places : copy'[p].time = now + 1
  BY <1>1, <1>3 DEF Stamp
<1>4. CASE \E p \in Places : text'[p].time = now + 1
  BY <1>1, <1>4 DEF Stamp
<1> QED
  BY <1>2, <1>3, <1>4

LEMMA Later ==
  ASSUME Shape, now' \in {now, now + 1}
  PROVE  /\ now' \in Nat /\ Times \subseteq Times' /\ now' \in Times'
         /\ Texts \subseteq Texts' /\ Copies \subseteq Copies' /\ Stamps \subseteq Stamps'
         /\ Runs \subseteq Runs'
<1>1. now' \in Nat /\ Times \subseteq Times' /\ now' \in Times'
  BY DEF Shape, Times
<1>2. Texts \subseteq Texts' /\ Copies \subseteq Copies' /\ Stamps \subseteq Stamps'
  BY <1>1 DEF Texts, Copies, Stamps
<1>3. Runs \subseteq Runs'
  BY <1>2 DEF Runs
<1> QED
  BY <1>1, <1>2, <1>3

LEMMA Blank ==
  ASSUME Shape
  PROVE  NoText \in Texts /\ NoCopy \in Copies /\ Idle \in Runs /\ NoStamp \in Stamps
         /\ NoRow \in [stamp : Stamps, state : States]
<1>1. 0 \in Times /\ << >> \in Seq({"good", "poor", "none"})
  BY EmptySeq DEF Shape, Times
<1>2. NoText \in Texts /\ NoCopy \in Copies /\ NoStamp \in Stamps
  BY <1>1 DEF NoText, NoCopy, NoStamp, Texts, Copies, Stamps
<1> QED
  BY <1>2 DEF Idle, NoRow, Runs, Pcs, States

LEMMA StampType ==
  ASSUME Shape
  PROVE  Stamp \in Stamps
BY DEF Shape, Stamp, Stamps, Texts, Copies

LEMMA InitInvariant == Init => IInv
<1> SUFFICES ASSUME Init PROVE IInv
  OBVIOUS
<1>1. doc \in [of : Nat \ {0}, time : Times, look : Looks[kind]] /\ doc.time # 0 /\ now = 3
  BY DEF Init, Times
<1>2. doc.look \in Seq({"typed", "scan", "bodied", "photo"})
  BY <1>1, CoverageAssumption DEF Init
<1>3. NoText \in Texts /\ NoCopy \in Copies
  <2>1. 0 \in Times /\ << >> \in Seq({"good", "poor", "none"})
    BY <1>1, EmptySeq DEF Times
  <2> QED
    BY <2>1 DEF NoText, NoCopy, Texts, Copies
<1>4. copy \in [Places -> Copies]
  <2>1. PICK made \in {NoCopy, [of |-> 1, time |-> 2, layers |-> Ocred(doc.look, {})]} :
          copy = [p \in Places |-> IF p = "beside" THEN made ELSE NoCopy]
    BY DEF Init
  <2>2. Ocred(doc.look, {}) \in Seq({"good", "poor", "none"})
    BY <1>2, LayersType
  <2>3. made \in Copies
    BY <1>1, <1>3, <2>1, <2>2 DEF Copies, Times
  <2> QED
    BY <1>3, <2>1, <2>3
<1>5. Readable \in SUBSET Nat
  <2>1. DOMAIN doc.look \subseteq Nat
    BY <1>2, LenProperties
  <2>2. Copy \in Copies
    BY <1>4 DEF Copy, Places
  <2>3. Source \in Seq({"good", "poor", "none"})
    BY <1>2, <2>2, LayersType DEF Source, Copies
  <2>4. DOMAIN Source \subseteq Nat
    BY <2>3, LenProperties
  <2> QED
    BY <2>1, <2>4 DEF Readable, Good
<1>6. /\ text \in [Places -> Texts]
      /\ text["derived"] = NoText
  <2>1. PICK t \in {NoText, [of |-> 1, time |-> 3, ours |-> TRUE,
                             pages |-> Len(doc.look), says |-> Readable]} :
          text = [p \in Places |-> IF p = "beside" THEN t ELSE NoText]
    BY DEF Init
  <2>2. Len(doc.look) \in Nat
    BY <1>2, LenProperties
  <2>3. t \in Texts
    <3>1. CASE t = NoText
      BY <1>3, <3>1
    <3>2. CASE t = [of |-> 1, time |-> 3, ours |-> TRUE,
                    pages |-> Len(doc.look), says |-> Readable]
      <4>1. 3 \in Times
        BY <1>1 DEF Times
      <4> QED
        BY <1>5, <2>2, <3>2, <4>1 DEF Texts
    <3> QED
      BY <2>1, <3>1, <3>2
  <2> QED
    BY <1>3, <2>1, <2>3 DEF Places
<1>7. NoStamp \in Stamps
  BY <1>1 DEF NoStamp, Stamps, Times
<1>8. Idle \in Runs /\ NoRow \in [stamp : Stamps, state : States]
  BY <1>3, <1>7 DEF Idle, NoRow, Runs, Pcs, States
<1>9. Shape
  BY <1>1, <1>4, <1>6, <1>8 DEF Init, Shape
<1>10. Held /\ Owned
  BY <1>6 DEF Init, Held, Owned, Idle
<1>11. cache.stamp # Stamp
  BY <1>1 DEF Init, NoRow, NoStamp, Stamp
<1>12. run.pc # "row"
  BY DEF Init, Idle
<1> QED
  BY <1>9, <1>10, <1>11, <1>12 DEF IInv, TInv, CacheHonest, RowHonest

-----------------------------------------------------------------------------
\* The steps that write no file: what is left to show of each.
LEMMA QuietType ==
  ASSUME TInv, UNCHANGED files, cache' \in [stamp : Stamps, state : States], run' \in Runs, Held'
  PROVE  TInv'
<1>1. UNCHANGED <<Stamps, Runs, Texts, Copies, Times>>
  BY DEF files, Stamps, Runs, Texts, Copies, Times
<1>2. Shape'
  BY <1>1 DEF TInv, Shape, files
<1>3. Owned'
  BY DEF TInv, Owned, files
<1> QED
  BY <1>2, <1>3 DEF TInv

LEMMA QuietHonest ==
  ASSUME IInv, UNCHANGED files,
         cache' = cache \/ (cache'.stamp = Stamp => True(cache'.state)),
         run'.pc = "row" /\ run'.stamp = Stamp => True(run'.state)
  PROVE  CacheHonest' /\ RowHonest'
<1>1. Stamp' = Stamp /\ Classify' = Classify /\ inbox' = inbox
  BY SameFiles DEF files
<1> QED
  BY <1>1 DEF IInv, CacheHonest, RowHonest, True

LEMMA AgainType ==
  ASSUME Shape
  PROVE  Again \in Runs /\ Again # Idle /\ Again.pc = "look"
<1>1. run \in Runs /\ NoText \in Texts /\ NoCopy \in Copies
  BY Blank DEF Shape
<1>2. Again \in Runs /\ Again.pc = "look"
  BY <1>1 DEF Again, Runs, Pcs
<1> QED
  BY <1>2 DEF Idle

LEMMA StartStep ==
  ASSUME IInv, NEW all \in BOOLEAN, NEW how, Start(all, how)
  PROVE  IInv'
<1>1. /\ UNCHANGED <<files, cache>>
      /\ run' = [Idle EXCEPT !.pc = "look", !.all = all,
                             !.redo = (how = "redo"), !.last = (how = "audit")]
  BY DEF Start
<1>2. run' \in Runs /\ run'.pc = "look"
  BY <1>1, Blank DEF IInv, TInv, Runs, Pcs, Idle
<1>3. Held'
  BY <1>2 DEF Held, Idle
<1>4. TInv'
  BY <1>1, <1>2, <1>3, QuietType DEF IInv, TInv, Shape
<1> QED
  BY <1>1, <1>2, <1>4, QuietHonest DEF IInv

LEMMA LookStep ==
  ASSUME IInv, Look
  PROVE  IInv'
<1>1. /\ UNCHANGED <<files, cache>>
      /\ run' = [run EXCEPT !.stamp = Stamp, !.state = cache.state,
                            !.pc = IF cache.stamp = Stamp THEN "row" ELSE "classify"]
  BY DEF Look
<1>2. Stamp \in Stamps /\ cache.state \in States /\ run \in Runs
  BY StampType DEF IInv, TInv, Shape
<1>3. /\ run' \in Runs /\ run'.pc \in {"row", "classify"}
      /\ run'.pc = "row" => cache.stamp = Stamp /\ run'.state = cache.state
  BY <1>1, <1>2 DEF Runs, Pcs
<1>4. Held'
  BY <1>3 DEF Held, Idle
<1>5. TInv'
  BY <1>1, <1>3, <1>4, QuietType DEF IInv, TInv, Shape
<1>6. run'.pc = "row" => True(run'.state)
  BY <1>3 DEF IInv, CacheHonest, True
<1> QED
  BY <1>1, <1>5, <1>6, QuietHonest DEF IInv

LEMMA SurveyStep ==
  ASSUME IInv, Survey
  PROVE  IInv'
<1>1. UNCHANGED <<files, cache>> /\ run' = [run EXCEPT !.state = Classify, !.pc = "row"]
  BY DEF Survey
<1>2. run' \in Runs /\ run'.pc = "row" /\ run'.state = Classify
  BY <1>1, ClassifyType DEF IInv, TInv, Shape, Runs, Pcs
<1>3. Held'
  BY <1>2 DEF Held, Idle
<1>4. TInv'
  BY <1>1, <1>2, <1>3, QuietType DEF IInv, TInv, Shape
<1> QED
  BY <1>1, <1>2, <1>4, QuietHonest DEF IInv, True

LEMMA RowStep ==
  ASSUME IInv, Row
  PROVE  IInv'
<1>1. /\ UNCHANGED files /\ run.pc = "row"
      /\ cache' = [stamp |-> run.stamp, state |-> RowState]
  BY DEF Row
<1>2. run \in Runs /\ run.stamp \in Stamps /\ RowState \in States
  BY DEF IInv, TInv, Shape, Runs, RowState, States
<1>3. cache' \in [stamp : Stamps, state : States]
  BY <1>1, <1>2
<1>4. /\ run' \in Runs /\ run'.pc \in {"idle", "tool", "ocr", "dump"}
      /\ run'.pc = "idle" <=> run' = Idle
  <2>1. Idle \in Runs
    BY Blank DEF IInv, TInv
  <2>2. CASE run' = Idle
    BY <2>1, <2>2 DEF Idle
  <2>3. CASE run' = [run EXCEPT !.pc = IF kind # "pdf" THEN "tool"
                                       ELSE IF run.state = "needs-ocr" THEN "ocr" ELSE "dump"]
    BY <1>2, <2>3 DEF Runs, Pcs, Idle
  <2> QED
    BY <2>2, <2>3 DEF Row
<1>5. Held'
  BY <1>4 DEF Held
<1>6. TInv'
  BY <1>1, <1>3, <1>4, <1>5, QuietType DEF IInv
<1>7. cache'.stamp = Stamp => True(cache'.state)
  BY <1>1 DEF IInv, RowHonest, RowState, True
<1> QED
  BY <1>1, <1>4, <1>6, <1>7, QuietHonest DEF IInv

LEMMA OcrStartStep ==
  ASSUME IInv, OcrStart
  PROVE  IInv'
<1> DEFINE force == {i \in Uncovered \cap DOMAIN doc.look : Copy = NoCopy /\ Source[i] = "poor"}
<1>1. /\ UNCHANGED <<files, cache>>
      /\ \/ run' = Again
         \/ run' = [run EXCEPT !.pc = "ocring",
                      !.ocr = [of |-> doc.of, time |-> 0, layers |-> Ocred(doc.look, force)]]
  BY DEF OcrStart
<1>2. /\ run' \in Runs /\ run'.pc \in {"look", "ocring"}
  <2>1. CASE run' = Again
    BY <2>1, AgainType DEF IInv, TInv
  <2>2. CASE run' = [run EXCEPT !.pc = "ocring",
                       !.ocr = [of |-> doc.of, time |-> 0, layers |-> Ocred(doc.look, force)]]
    <3>1. Ocred(doc.look, force) \in Seq({"good", "poor", "none"})
      BY LookType, LayersType DEF IInv, TInv
    <3>2. [of |-> doc.of, time |-> 0, layers |-> Ocred(doc.look, force)] \in Copies
      BY <3>1 DEF IInv, TInv, Shape, Copies, Times
    <3> QED
      BY <2>2, <3>2 DEF IInv, TInv, Shape, Runs, Pcs
  <2> QED
    BY <1>1, <2>1, <2>2
<1>3. Held'
  BY <1>2 DEF Held, Idle
<1>4. TInv'
  BY <1>1, <1>2, <1>3, QuietType DEF IInv, TInv, Shape
<1> QED
  BY <1>1, <1>2, <1>4, QuietHonest DEF IInv

\* What dump and tool read is a text of the tool's.
LEMMA ReadingStep ==
  ASSUME IInv, NEW t \in Texts, NEW next \in {"raw", "write"}, t.ours,
         next = "raw" => kind = "image",
         UNCHANGED <<files, cache>>, run' = [run EXCEPT !.pc = next, !.held = t]
  PROVE  IInv'
<1>1. run' \in Runs /\ run'.pc = next /\ run'.held = t
  BY DEF IInv, TInv, Shape, Runs, Pcs
<1>2. Held'
  BY <1>1 DEF Held, Idle, files
<1>3. TInv'
  BY <1>1, <1>2, QuietType DEF IInv, TInv, Shape
<1> QED
  BY <1>1, <1>3, QuietHonest DEF IInv

\* The audit that follows a repair.
LEMMA AgainStep ==
  ASSUME IInv, UNCHANGED <<files, cache>>, run' = Again
  PROVE  IInv'
<1>1. run' \in Runs /\ run'.pc = "look"
  BY AgainType DEF IInv, TInv
<1>2. Held'
  BY <1>1 DEF Held, Idle
<1>3. TInv'
  BY <1>1, <1>2, QuietType DEF IInv, TInv, Shape
<1> QED
  BY <1>1, <1>3, QuietHonest DEF IInv

LEMMA DumpStep ==
  ASSUME IInv, Dump
  PROVE  IInv'
<1> DEFINE t == [of |-> IF Copy = NoCopy THEN doc.of ELSE Copy.of, time |-> 0, ours |-> TRUE,
                 pages |-> Len(Source), says |-> Readable]
<1>1. CASE run' = Again
  BY <1>1, AgainStep DEF Dump
<1>2. CASE run' = [run EXCEPT !.pc = "write", !.held = t]
  <2>1. Copy.of \in Nat /\ doc.of \in Nat
    BY DEF IInv, TInv, Shape, Copy, Copies, Places
  <2>2. t \in Texts
    BY <2>1, SourceType DEF IInv, TInv, Shape, Texts, Times
  <2>3. UNCHANGED <<files, cache>>
    BY DEF Dump
  <2>4. t.ours
    OBVIOUS
  <2> HIDE DEF t
  <2> QED
    BY <1>2, <2>2, <2>3, <2>4, ReadingStep
<1> QED
  BY <1>1, <1>2 DEF Dump

LEMMA ToolStep ==
  ASSUME IInv, Tool
  PROVE  IInv'
<1> DEFINE t == [of |-> doc.of, time |-> 0, ours |-> TRUE, pages |-> 1, says |-> Readable]
           next == IF kind = "image" THEN "raw" ELSE "write"
<1>1. t \in Texts
  BY SourceType DEF IInv, TInv, Shape, Texts, Times
<1>2. UNCHANGED <<files, cache>> /\ run' = [run EXCEPT !.pc = next, !.held = t]
  BY DEF Tool
<1>3. t.ours /\ next \in {"raw", "write"} /\ (next = "raw" => kind = "image")
  OBVIOUS
<1> HIDE DEF t, next
<1> QED
  BY <1>1, <1>2, <1>3, ReadingStep

LEMMA FailStep ==
  ASSUME IInv, Fail
  PROVE  IInv'
BY AgainStep DEF Fail

-----------------------------------------------------------------------------
\* The steps that write a file: no stamp taken before is the new one.
LEMMA WroteHonest ==
  ASSUME IInv,
         \/ doc'.time = now + 1
         \/ \E p \in Places : copy'[p].time = now + 1
         \/ \E p \in Places : text'[p].time = now + 1,
         cache' \in {cache, NoRow},
         run'.pc = "row" => run'.stamp = run.stamp
  PROVE  CacheHonest' /\ RowHonest'
<1>1. \A s \in Stamps : s # Stamp'
  BY NewStamp DEF IInv, TInv
<1>2. cache'.stamp \in Stamps /\ run.stamp \in Stamps
  BY Blank DEF IInv, TInv, Shape, Runs
<1> QED
  BY <1>1, <1>2 DEF CacheHonest, RowHonest

LEMMA OcrDoneStep ==
  ASSUME IInv, OcrDone
  PROVE  IInv'
<1>1. /\ run.pc = "ocring" /\ now' = now + 1
      /\ copy' = [copy EXCEPT !["derived"] = [run.ocr EXCEPT !.time = now']]
      /\ run' = [run EXCEPT !.pc = "dump", !.ocr = NoCopy]
      /\ UNCHANGED <<kind, inbox, doc, text, cache, human>>
  BY DEF OcrDone
<1>2. Shape /\ NoCopy \in Copies
  BY Blank DEF IInv, TInv
<1>3. [run.ocr EXCEPT !.time = now'] \in Copies' /\ [run.ocr EXCEPT !.time = now'].time = now + 1
  BY <1>1, <1>2, Later DEF Shape, Runs, Copies
<1>4. copy' \in [Places -> Copies'] /\ copy'["derived"].time = now + 1
  BY <1>1, <1>2, <1>3, Later DEF Shape, Places
<1>5. run' \in Runs' /\ run'.pc = "dump"
  BY <1>1, <1>2, Later DEF Shape, Runs, Pcs
<1>6. Shape'
  BY <1>1, <1>2, <1>4, <1>5, Later DEF Shape
<1>7. Held' /\ Owned'
  BY <1>1, <1>5 DEF IInv, TInv, Held, Owned, Idle
<1>8. CacheHonest' /\ RowHonest'
  BY <1>1, <1>4, <1>5, WroteHonest DEF Places
<1> QED
  BY <1>6, <1>7, <1>8 DEF IInv, TInv

\* A text file is written at p: what it must be, and what becomes of the run.
LEMMA TextType ==
  ASSUME IInv, NEW p \in Places, NEW t \in Texts', t.time = now + 1, now' = now + 1,
         text' = [text EXCEPT ![p] = t],
         UNCHANGED <<kind, inbox, doc, copy>>, cache' \in {cache, NoRow},
         run' \in Runs, Held', run'.pc = "row" => run'.stamp = run.stamp,
         \/ human' = human /\ p = "derived" /\ (kind = "pdf" => t.ours)
         \/ human' = human \cup {p} /\ text[p] = NoText /\ ~t.ours
  PROVE  IInv'
<1>1. Shape /\ NoRow \in [stamp : Stamps, state : States] /\ now \in Nat
  BY Blank DEF IInv, TInv, Shape
<1>2. text' \in [Places -> Texts']
  BY <1>1, Later DEF Shape
<1>3. text'[p] = t /\ \A q \in Places \ {p} : text'[q] = text[q]
  BY <1>1 DEF Shape
<1>4. Shape'
  BY <1>1, <1>2, Later DEF Shape
<1>5. t # NoText
  BY <1>1 DEF NoText
<1>6. Owned'
  BY <1>3, <1>5 DEF IInv, TInv, Owned, Places
<1>7. CacheHonest' /\ RowHonest'
  BY <1>3, WroteHonest
<1> QED
  BY <1>4, <1>6, <1>7 DEF IInv, TInv

LEMMA RawStep ==
  ASSUME IInv, Raw
  PROVE  IInv'
<1> DEFINE t == [run.held EXCEPT !.time = now', !.ours = FALSE]
<1>1. /\ run.pc = "raw" /\ now' = now + 1
      /\ text' = [text EXCEPT !["derived"] = t]
      /\ run' = [run EXCEPT !.pc = "write"]
      /\ UNCHANGED <<kind, inbox, doc, copy, cache, human>>
  BY DEF Raw
<1>2. t \in Texts' /\ t.time = now + 1
  BY <1>1, Later DEF IInv, TInv, Shape, Runs, Texts
<1>3. run' \in Runs /\ run'.pc = "write" /\ run'.held = run.held
  BY <1>1 DEF IInv, TInv, Shape, Runs, Pcs
<1>4. kind = "image" /\ run.held.ours
  BY <1>1 DEF IInv, TInv, Held
<1>5. Held'
  BY <1>3, <1>4 DEF Held, Idle
<1> HIDE DEF t
<1> QED
  BY <1>1, <1>2, <1>3, <1>4, <1>5, TextType DEF Places

LEMMA WriteStep ==
  ASSUME IInv, Write
  PROVE  IInv'
<1> DEFINE t == [run.held EXCEPT !.time = now']
<1>1. /\ run.pc = "write" /\ now' = now + 1
      /\ text' = [text EXCEPT !["derived"] = t]
      /\ run' = Again
      /\ UNCHANGED <<kind, inbox, doc, copy, cache, human>>
  BY DEF Write
<1>2. t \in Texts' /\ t.time = now + 1 /\ t.ours = run.held.ours
  BY <1>1, Later DEF IInv, TInv, Shape, Runs, Texts
<1>3. run.held.ours
  BY <1>1 DEF IInv, TInv, Held
<1>4. run' \in Runs /\ run'.pc = "look"
  BY <1>1, AgainType DEF IInv, TInv
<1>5. Held'
  BY <1>4 DEF Held, Idle
<1> HIDE DEF t
<1> QED
  BY <1>1, <1>2, <1>3, <1>4, <1>5, TextType DEF Places

LEMMA KillStep ==
  ASSUME IInv, Kill
  PROVE  IInv'
<1>1. /\ run' = Idle /\ cache' \in {cache, NoRow}
      /\ UNCHANGED <<kind, inbox, doc, copy, human>>
  BY DEF Kill
<1>2. run' \in Runs /\ run'.pc = "idle" /\ Held'
  BY <1>1, Blank DEF IInv, TInv, Held, Idle
<1>3. CASE UNCHANGED <<text, now>>
  <2>1. UNCHANGED files \/ UNCHANGED <<kind, inbox, doc, copy, text, now, human>>
    BY <1>1, <1>3
  <2>2. UNCHANGED <<Stamps, Runs, Texts, Copies, Times>>
    BY <1>3 DEF Stamps, Runs, Texts, Copies, Times
  <2>3. cache' \in [stamp : Stamps, state : States]
    BY <1>1, Blank DEF IInv, TInv, Shape
  <2>4. Shape'
    BY <1>1, <1>2, <1>3, <2>2, <2>3 DEF IInv, TInv, Shape
  <2>5. Owned'
    BY <1>1, <1>3 DEF IInv, TInv, Owned
  <2>6. Stamp' = Stamp /\ Classify' = Classify
    BY <1>1, <1>3, SameFiles
  <2>7. Stamp # NoStamp
    BY DEF IInv, TInv, Shape, Stamp, NoStamp
  <2>8. CacheHonest' /\ RowHonest'
    BY <1>1, <1>2, <2>6, <2>7 DEF IInv, CacheHonest, RowHonest, NoRow
  <2> QED
    BY <1>2, <2>4, <2>5, <2>8 DEF IInv, TInv
<1>4. CASE /\ kind \in Tears /\ now' = now + 1
           /\ \E t \in Torn : text' = [text EXCEPT !["derived"] = t]
  <2>1. PICK t \in Torn : text' = [text EXCEPT !["derived"] = t]
    BY <1>4
  <2>2. PICK mark \in BOOLEAN :
          t = [run.held EXCEPT !.time = now + 1, !.ours = mark, !.says = {}]
    BY <2>1 DEF Torn
  <2>3. t \in Texts' /\ t.time = now + 1
    BY <1>4, <2>2, Later DEF IInv, TInv, Shape, Runs, Texts
  <2>4. kind # "pdf"
    BY <1>4 DEF Tears
  <2> QED
    BY <1>1, <1>2, <1>4, <2>1, <2>3, <2>4, TextType DEF Places
<1> QED
  BY <1>3, <1>4 DEF Kill

LEMMA EditStep ==
  ASSUME IInv, Edit
  PROVE  IInv'
<1>1. /\ now' = now + 1
      /\ UNCHANGED <<kind, inbox, copy, text, cache, run, human>>
      /\ \E look \in Looks[kind] : doc' = [of |-> doc.of + 1, time |-> now + 1, look |-> look]
  BY DEF Edit
<1>2. Shape'
  <2>1. doc' \in [of : Nat \ {0}, time : Times', look : Looks[kind]] /\ doc'.time # 0
    BY <1>1, Later DEF IInv, TInv, Shape
  <2> QED
    BY <1>1, <2>1, Later DEF IInv, TInv, Shape
<1>3. Held' /\ Owned'
  BY <1>1 DEF IInv, TInv, Held, Owned
<1>4. CacheHonest' /\ RowHonest'
  BY <1>1, WroteHonest
<1> QED
  BY <1>2, <1>3, <1>4 DEF IInv, TInv

LEMMA TranscribeStep ==
  ASSUME IInv, NEW p \in Places, Transcribe(p)
  PROVE  IInv'
<1> DEFINE t == [NoText EXCEPT !.of = doc.of, !.time = now']
<1>1. /\ text[p] = NoText /\ now' = now + 1 /\ human' = human \cup {p}
      /\ text' = [text EXCEPT ![p] = t]
      /\ UNCHANGED <<kind, inbox, doc, copy, cache, run>>
  BY DEF Transcribe
<1>2. t \in Texts' /\ t.time = now + 1 /\ ~t.ours
  BY <1>1, Later DEF IInv, TInv, Shape, Texts, NoText
<1>3. run' \in Runs /\ Held'
  BY <1>1 DEF IInv, TInv, Shape, Held
<1> HIDE DEF t
<1> QED
  BY <1>1, <1>2, <1>3, TextType

LEMMA MigrateStep ==
  ASSUME IInv, NEW take \in BOOLEAN, Migrate(take)
  PROVE  IInv'
<1>1. /\ run.pc = "idle" /\ cache' = NoRow
      /\ UNCHANGED <<kind, inbox, doc, now, run, human>>
  BY DEF Migrate
<1>2. Shape /\ NoText \in Texts /\ NoCopy \in Copies /\ NoRow \in [stamp : Stamps, state : States]
  BY Blank DEF IInv, TInv
<1>3. text' \in [Places -> Texts]
  BY <1>2 DEF Migrate, Shape, TextFile, Places
<1>4. copy' \in [Places -> Copies]
  BY <1>2 DEF Migrate, Shape, Places
<1>5. UNCHANGED <<Stamps, Runs, Texts, Copies, Times>>
  BY <1>1 DEF Stamps, Runs, Texts, Copies, Times
<1>6. Shape'
  BY <1>1, <1>2, <1>3, <1>4, <1>5 DEF Shape
<1>7. Held'
  BY <1>1 DEF IInv, TInv, Held
<1>8. Owned'
  <2>1. CASE ~text["beside"].ours
    BY <1>1, <2>1 DEF IInv, TInv, Owned, Migrate
  <2>2. CASE text["beside"].ours
    <3>1. text'["derived"] = TextFile /\ "beside" \notin human
      BY <2>2 DEF IInv, TInv, Owned, Migrate, Places
    <3>2. (TextFile = text["derived"] /\ text["derived"] # NoText) \/ TextFile.ours
      BY <2>2 DEF TextFile
    <3> QED
      BY <1>1, <3>1, <3>2 DEF IInv, TInv, Owned
  <2> QED
    BY <2>1, <2>2
<1>9. Stamp' # NoStamp
  BY <1>6 DEF Shape, Stamp, NoStamp
<1>10. CacheHonest' /\ RowHonest'
  BY <1>1, <1>9 DEF CacheHonest, RowHonest, NoRow
<1> QED
  BY <1>6, <1>7, <1>8, <1>10 DEF IInv, TInv

-----------------------------------------------------------------------------
LEMMA NextInvariant == IInv /\ [Next]_vars => IInv'
<1> SUFFICES ASSUME IInv, [Next]_vars PROVE IInv'
  OBVIOUS
<1>1. CASE \E all \in BOOLEAN, how \in {"audit", "ensure", "redo"} : Start(all, how)
  BY <1>1, StartStep
<1>2. CASE Look
  BY <1>2, LookStep
<1>3. CASE Survey
  BY <1>3, SurveyStep
<1>4. CASE Row
  BY <1>4, RowStep
<1>5. CASE OcrStart
  BY <1>5, OcrStartStep
<1>6. CASE OcrDone
  BY <1>6, OcrDoneStep
<1>7. CASE Dump
  BY <1>7, DumpStep
<1>8. CASE Tool
  BY <1>8, ToolStep
<1>9. CASE Raw
  BY <1>9, RawStep
<1>10. CASE Write
  BY <1>10, WriteStep
<1>11. CASE Fail
  BY <1>11, FailStep
<1>12. CASE Kill
  BY <1>12, KillStep
<1>13. CASE Edit
  BY <1>13, EditStep
<1>14. CASE \E p \in Places : Transcribe(p)
  BY <1>14, TranscribeStep
<1>15. CASE \E take \in BOOLEAN : Migrate(take)
  BY <1>15, MigrateStep
<1>16. CASE UNCHANGED vars
  <2>1. UNCHANGED files /\ cache' = cache /\ run' = run
    BY <1>16 DEF vars, files
  <2>2. Held'
    BY <2>1 DEF IInv, TInv, Held, files
  <2>3. TInv'
    BY <2>1, <2>2, QuietType DEF IInv, TInv, Shape
  <2> QED
    BY <2>1, <2>3, QuietHonest DEF IInv, RowHonest
<1> QED
  BY <1>1, <1>2, <1>3, <1>4, <1>5, <1>6, <1>7, <1>8, <1>9, <1>10, <1>11, <1>12, <1>13, <1>14,
     <1>15, <1>16 DEF Next, Ensure

LEMMA Invariant == Spec => []IInv
BY InitInvariant, NextInvariant, PTL DEF Spec

\* No time is ahead of the clock, and a run is what its place in the code says.
\* A PDF's text under derived/ is whole and the tool's unless a person wrote it,
\* and a transcription beside the document stays, whatever is killed or migrated.
THEOREM TypeCorrect == Spec => []TypeOK
<1>1. IInv => TypeOK
  BY DEF IInv, TInv, Shape, Held, Owned, TypeOK, Texts, Copies, Times, Runs
<1> QED
  BY <1>1, Invariant, PTL

\* What the audit answers from its cache is what it would find by a survey,
\* whenever documents are replaced, transcribed or migrated, and wherever a run is
\* killed: a row is filed under a stamp that was taken before the survey, of times
\* no later write can have.
THEOREM CacheIsHonest == Spec => []CacheHonest
<1>1. IInv => CacheHonest
  BY DEF IInv
<1> QED
  BY <1>1, Invariant, PTL

-----------------------------------------------------------------------------
\* A copy of the document as it is has a layer for each of its pages.
Covers(c) == c.of \in 0 .. doc.of /\ (c.of = doc.of => DOMAIN c.layers = DOMAIN doc.look)

Copied == Covers(run.ocr) /\ \A p \in Places : Covers(copy[p])

\* The text is what a tool would get out of the document, or its copy, now.
Tells(t) ==
  /\ t.of = (IF kind = "pdf" /\ Copy # NoCopy THEN Copy.of ELSE doc.of)
  /\ t.says = Readable

Recent(t) == t.ours /\ doc.time <= t.time /\ (kind = "pdf" => Copy.time <= t.time)

\* A text that is no older than what it was read from was read from that.
Written ==
  ~tainted => /\ \A p \in Places : Recent(text[p]) => Tells(text[p])
              /\ run.pc \in {"raw", "write"} => Tells(run.held)

\* Each kind of document has tools of its own.
Suited ==
  /\ run.pc \in {"ocr", "ocring", "dump"} => kind = "pdf"
  /\ run.pc = "tool" => kind # "pdf"

WInv == IInv /\ Suited /\ Copied /\ Written

LEMMA OcredPages ==
  ASSUME Shape, NEW force
  PROVE  DOMAIN Ocred(doc.look, force) = DOMAIN doc.look
BY DEF Ocred

\* Nothing that a tool reads has changed.
LEMMA SameSource ==
  ASSUME UNCHANGED <<kind, doc>>, Copy' = Copy
  PROVE  /\ \A t : Tells(t)' <=> Tells(t)
         /\ \A t : Recent(t)' <=> Recent(t)
         /\ \A c : Covers(c)' <=> Covers(c)
<1>1. Readable' = Readable
  BY DEF Readable, Source
<1> QED
  BY <1>1 DEF Tells, Recent, Covers

LEMMA SuitedStep ==
  ASSUME Shape, Suited, [Next]_vars
  PROVE  Suited'
<1>1. run.pc \in Pcs /\ Again.pc = "look" /\ kind' = kind
  BY DEF Shape, Runs, Again, Next, Ensure, Start, Look, Survey, Row, OcrStart, OcrDone, Dump, Tool,
     Raw, Write, Fail, Kill, Edit, Transcribe, Migrate, files, vars
<1>2. CASE Next
  <2>1. CASE Ensure
    <3>1. CASE Row
      BY <1>1, <3>1 DEF Row, Suited, Shape, Runs, Idle
    <3>2. CASE Ensure /\ ~Row
      BY <1>1, <3>2 DEF Suited, Shape, Runs, Idle, Ensure, Start, Look, Survey, OcrStart, OcrDone,
         Dump, Tool, Raw, Write, Fail
    <3> QED
      BY <2>1, <3>1, <3>2
  <2>2. CASE Kill \/ Edit \/ (\E p \in Places : Transcribe(p)) \/ (\E take \in BOOLEAN : Migrate(take))
    BY <1>1, <2>2 DEF Suited, Idle, Kill, Edit, Transcribe, Migrate
  <2> QED
    BY <1>2, <2>1, <2>2 DEF Next
<1>3. CASE UNCHANGED vars
  BY <1>1, <1>3 DEF Suited, vars
<1> QED
  BY <1>2, <1>3

LEMMA InitWritten == Init => WInv
<1> SUFFICES ASSUME Init PROVE WInv
  OBVIOUS
<1>1. IInv
  BY InitInvariant
<1>2. run = Idle /\ doc.of = 1
  BY DEF Init
<1>3. Copied
  <2>1. Covers(NoCopy)
    BY <1>2 DEF Covers, NoCopy
  <2>2. PICK made \in {NoCopy, [of |-> 1, time |-> 2, layers |-> Ocred(doc.look, {})]} :
          copy = [p \in Places |-> IF p = "beside" THEN made ELSE NoCopy]
    BY DEF Init
  <2>3. Covers(made)
    BY <1>1, <1>2, <2>1, OcredPages DEF Covers, IInv, TInv
  <2> QED
    BY <1>2, <2>1, <2>2, <2>3 DEF Copied, Idle
<1>4. Written
  <2>1. \A p \in Places : text[p].ours => text[p].of = 1 /\ text[p].says = Readable
    BY DEF Init, NoText, Places
  <2>2. Copy # NoCopy => Copy.of = 1
    BY DEF Init, Copy, Places
  <2> QED
    BY <1>2, <2>1, <2>2 DEF Written, Tells, Recent, Idle
<1>5. Suited
  BY <1>2 DEF Suited, Idle
<1> QED
  BY <1>1, <1>3, <1>4, <1>5 DEF WInv

LEMMA NextWritten == WInv /\ [Next]_vars => WInv'
<1> SUFFICES ASSUME WInv, [Next]_vars PROVE WInv'
  OBVIOUS
<1>0. IInv' /\ Suited'
  BY NextInvariant, SuitedStep DEF WInv, IInv, TInv
<1>a. Shape /\ doc.of \in Nat /\ doc.of # 0 /\ now \in Nat /\ doc.time <= now
  BY DEF WInv, IInv, TInv, Shape, Times
<1>b. \A p \in Places : text[p].time \in Nat /\ text[p].time <= now
  BY DEF WInv, IInv, TInv, Shape, Texts, Times
<1>c. Covers(NoCopy)
  BY <1>a DEF Covers, NoCopy
<1>d. Again.ocr = NoCopy /\ Again.pc = "look"
  BY <1>a DEF Again, Shape, Runs
<1>1. ASSUME UNCHANGED <<kind, doc, copy, text, tainted>>, Covers(run'.ocr),
             run'.pc \in {"raw", "write"} /\ ~tainted => Tells(run'.held)
      PROVE  Copied' /\ Written'
  <2>1. Copy' = Copy
    BY <1>1 DEF Copy
  <2> QED
    BY <1>1, <2>1, SameSource DEF WInv, Copied, Written
<1>2. CASE \E all \in BOOLEAN, how \in {"audit", "ensure", "redo"} : Start(all, how)
  <2>1. Covers(run'.ocr) /\ run'.pc = "look"
    BY <1>2, <1>c DEF Start, Idle
  <2> QED
    BY <1>0, <1>1, <1>2, <2>1 DEF Start, files, WInv
<1>3. CASE Look \/ Survey
  <2>1. run'.ocr = run.ocr /\ run'.pc \notin {"raw", "write"}
    BY <1>3 DEF Look, Survey, WInv, IInv, TInv, Shape, Runs
  <2> QED
    BY <1>0, <1>1, <1>3, <2>1 DEF Look, Survey, files, WInv, Copied
<1>4. CASE Row
  <2>1. run'.ocr \in {run.ocr, NoCopy} /\ run'.pc \notin {"raw", "write"}
    BY <1>4 DEF Row, Idle, WInv, IInv, TInv, Shape, Runs
  <2> QED
    BY <1>0, <1>1, <1>4, <1>c, <2>1 DEF Row, files, WInv, Copied
<1>5. CASE OcrStart
  <2>1. run'.pc \notin {"raw", "write"}
    BY <1>5, <1>d DEF OcrStart, Again, WInv, IInv, TInv, Shape, Runs
  <2>2. Covers(run'.ocr)
    <3>1. CASE run' = Again
      BY <1>c, <1>d, <3>1
    <3>2. CASE run' # Again
      <4>1. \E force : run'.ocr = [of |-> doc.of, time |-> 0, layers |-> Ocred(doc.look, force)]
        BY <1>5, <1>a, <3>2 DEF OcrStart, Shape, Runs
      <4> QED
        BY <1>a, <4>1, OcredPages DEF Covers
    <3> QED
      BY <3>1, <3>2
  <2> QED
    BY <1>0, <1>1, <1>5, <2>1, <2>2 DEF OcrStart, files, WInv
<1>6. CASE OcrDone
  <2>1. /\ now' = now + 1 /\ UNCHANGED <<kind, doc, text, tainted>>
        /\ copy' = [copy EXCEPT !["derived"] = [run.ocr EXCEPT !.time = now + 1]]
        /\ run' = [run EXCEPT !.pc = "dump", !.ocr = NoCopy]
    BY <1>6 DEF OcrDone
  <2>2. copy'["derived"].time = now + 1 /\ copy'["derived"].of = run.ocr.of
        /\ copy'["derived"].layers = run.ocr.layers /\ copy'["beside"] = copy["beside"]
    BY <1>a, <2>1 DEF Shape, Runs, Copies, Places
  <2>3. Copy'.time = now + 1
    BY <1>a, <2>2 DEF Copy, NoCopy
  <2>4. Copied'
    <3>1. Covers(copy'["derived"]) /\ Covers(copy'["beside"])
      BY <2>2 DEF WInv, Copied, Covers, Places
    <3>2. Covers(run'.ocr)
      BY <1>a, <1>c, <2>1 DEF Shape, Runs
    <3> QED
      BY <2>1, <3>1, <3>2 DEF Copied, Covers, Places
  <2>5. Written'
    <3>1. run'.pc = "dump"
      BY <1>a, <2>1 DEF Shape, Runs
    <3>2. ASSUME NEW p \in Places, Recent(text[p])' PROVE FALSE
      <4>1. kind = "pdf"
        BY <1>6 DEF OcrDone, WInv, Suited
      <4> QED
        BY <1>b, <1>a, <2>1, <2>3, <3>2, <4>1 DEF Recent
    <3> QED
      BY <3>1, <3>2 DEF Written
  <2> QED
    BY <1>0, <2>4, <2>5 DEF WInv
<1>7. CASE Dump
  <2>1. run'.ocr \in {run.ocr, NoCopy}
    BY <1>7, <1>d DEF Dump, WInv, IInv, TInv, Shape, Runs
  <2>2. run'.pc \in {"raw", "write"} /\ kind = "pdf" => Tells(run'.held)
    BY <1>7, <1>d, <1>a DEF Dump, Tells, Shape, Runs
  <2>3. kind = "pdf"
    BY <1>7 DEF Dump, WInv, Suited
  <2> QED
    BY <1>0, <1>1, <1>7, <1>c, <2>1, <2>2, <2>3 DEF Dump, files, WInv, Copied
<1>8. CASE Tool
  <2>1. run'.ocr = run.ocr
    BY <1>8 DEF Tool, WInv, IInv, TInv, Shape, Runs
  <2>2. kind # "pdf" => Tells(run'.held)
    BY <1>8, <1>a DEF Tool, Tells, Shape, Runs
  <2>3. kind # "pdf"
    BY <1>8 DEF Tool, WInv, Suited
  <2> QED
    BY <1>0, <1>1, <1>8, <2>1, <2>2, <2>3 DEF Tool, files, WInv, Copied
<1>e. ASSUME NEW t, text' = [text EXCEPT !["derived"] = t], ~tainted /\ t.ours => Tells(t),
             UNCHANGED <<kind, doc, copy, tainted>>, run'.ocr \in {run.ocr, NoCopy},
             run'.pc \in {"raw", "write"} => run.pc \in {"raw", "write"} /\ run'.held = run.held
      PROVE  Copied' /\ Written'
  <2>1. Copy' = Copy
    BY <1>e DEF Copy
  <2>2. Copied'
    BY <1>c, <1>e, <2>1, SameSource DEF WInv, Copied
  <2>3. Written'
    BY <1>a, <1>e, <2>1, SameSource DEF WInv, Written, Shape, Recent
  <2> QED
    BY <2>2, <2>3
<1>9. CASE Raw
  BY <1>0, <1>9, <1>a, <1>e DEF Raw, WInv, Shape, Runs, Texts
<1>10. CASE Write
  <2> DEFINE t == [run.held EXCEPT !.time = now + 1]
  <2>1. t.of = run.held.of /\ t.says = run.held.says
    BY <1>a DEF Shape, Runs, Texts
  <2>2. ~tainted /\ t.ours => Tells(t)
    BY <1>10, <2>1 DEF Write, WInv, Written, Tells
  <2>3. text' = [text EXCEPT !["derived"] = t] /\ run' = Again
        /\ UNCHANGED <<kind, doc, copy, tainted>>
    BY <1>10 DEF Write
  <2> HIDE DEF t
  <2> QED
    BY <1>0, <1>d, <1>e, <2>2, <2>3 DEF WInv
<1>11. CASE Fail
  BY <1>0, <1>1, <1>11, <1>c, <1>d DEF Fail, files, WInv
<1>12. CASE Kill
  <2>1. run' = Idle /\ UNCHANGED <<kind, doc, copy>>
    BY <1>12 DEF Kill
  <2>2. Covers(run'.ocr) /\ run'.pc = "idle"
    BY <1>c, <2>1 DEF Idle
  <2>3. CASE UNCHANGED <<text, now, tainted>>
    BY <1>0, <1>1, <2>1, <2>2, <2>3 DEF WInv
  <2>4. CASE tainted'
    <3>1. Copied'
      BY <2>1, <2>2 DEF WInv, Copied, Covers
    <3> QED
      BY <1>0, <2>4, <3>1 DEF WInv, Written
  <2> QED
    BY <1>12, <2>3, <2>4 DEF Kill
<1>13. CASE Edit
  <2>1. /\ doc'.of = doc.of + 1 /\ doc'.time = now + 1
        /\ tainted' = (run.held # NoText \/ run.ocr # NoCopy)
        /\ UNCHANGED <<copy, text, run>>
    BY <1>13 DEF Edit
  <2>2. Copied'
    BY <1>a, <2>1 DEF WInv, Copied, Covers
  <2>3. \A p \in Places : ~Recent(text[p])'
    BY <1>a, <1>b, <2>1 DEF Recent
  <2>4. ~tainted' => run'.pc \notin {"raw", "write"}
    <3>1. ~tainted' => run.held = NoText
      BY <2>1, Zenon
    <3>2. ~NoText.ours
      BY DEF NoText
    <3> QED
      BY <2>1, <3>1, <3>2 DEF WInv, IInv, TInv, Held
  <2> QED
    BY <1>0, <2>2, <2>3, <2>4 DEF WInv, Written
<1>14. CASE \E p \in Places : Transcribe(p)
  <2>1. PICK p \in Places : Transcribe(p)
    BY <1>14
  <2>2. /\ text' = [text EXCEPT ![p] = [NoText EXCEPT !.of = doc.of, !.time = now']]
        /\ UNCHANGED <<kind, doc, copy, tainted, run>>
    BY <2>1 DEF Transcribe
  <2>3. ~text'[p].ours /\ \A q \in Places : q # p => text'[q] = text[q]
    BY <1>a, <2>2 DEF Shape, NoText
  <2>4. Copy' = Copy
    BY <2>2 DEF Copy
  <2>5. Copied' /\ Written'
    BY <2>2, <2>3, <2>4, SameSource DEF WInv, Copied, Written, Recent
  <2> QED
    BY <1>0, <2>5 DEF WInv
<1>15. CASE \E take \in BOOLEAN : Migrate(take)
  <2>1. PICK take \in BOOLEAN : Migrate(take)
    BY <1>15
  <2>2. UNCHANGED <<kind, doc, tainted, run>> /\ run.pc = "idle"
    BY <2>1 DEF Migrate
  <2>3. \A q \in Places : \E p \in Places : copy'[q] = copy[p] \/ copy'[q] = NoCopy
    BY <1>a, <2>1 DEF Migrate, Shape, Places
  <2>4. Copy' = Copy
    BY <1>a, <2>1 DEF Migrate, Copy, Shape, Places
  <2>5. \A q \in Places : \E p \in Places : text'[q] = text[p] \/ text'[q] = NoText
    BY <1>a, <2>1 DEF Migrate, Shape, TextFile, Places
  <2>6. Copied'
    BY <1>c, <2>2, <2>3, <2>4, SameSource DEF WInv, Copied
  <2>7. Written'
    <3>1. ~Recent(NoText)
      BY DEF Recent, NoText
    <3> QED
      BY <2>2, <2>4, <2>5, <3>1, SameSource DEF WInv, Written
  <2> QED
    BY <1>0, <2>6, <2>7 DEF WInv
<1>16. CASE UNCHANGED vars
  BY <1>0, <1>1, <1>16 DEF vars, WInv, Copied, Written
<1> QED
  BY <1>2, <1>3, <1>4, <1>5, <1>6, <1>7, <1>8, <1>9, <1>10, <1>11, <1>12, <1>13, <1>14,
     <1>15, <1>16 DEF Next, Ensure

\* "A current sidecar covers every page": every word of a document that the audit
\* calls searchable is in the text that a search reads, however often the document
\* is replaced and runs are killed, as long as the OCR'd copy that is read is of
\* the document as it is and the document was not replaced under a reader.
THEOREM SearchableIsSpoken == Spec => []TextHonest
<1>1. WInv => TextHonest
  <2> SUFFICES ASSUME WInv, Classify = "searchable", CopyCurrent, ~tainted
               PROVE  Spoken
    BY DEF TextHonest
  <2>1. /\ TextFile.ours /\ ~Old(TextFile) /\ (kind = "pdf" => Uncovered = {})
    BY DEF Classify
  <2>2. \E p \in Places : TextFile = text[p]
    BY DEF TextFile, Places
  <2>3. Shape /\ doc.time \in Int /\ Copy.time \in Int /\ TextFile.time \in Int
    BY <2>2 DEF WInv, IInv, TInv, Shape, Times, Texts, Copies, Copy, Places
  <2>4. Recent(TextFile)
    BY <2>1, <2>3 DEF Old, Recent
  <2>5. Tells(TextFile)
    BY <2>2, <2>4 DEF WInv, Written
  <2>6. TextFile.of = doc.of
    BY <2>5 DEF Tells, CopyCurrent
  <2>7. CASE kind # "pdf"
    BY <2>5, <2>6, <2>7 DEF Tells, Readable, Spoken
  <2>8. CASE kind = "pdf"
    <3>1. Source \in Seq({"good", "poor", "none"})
      BY <2>3, SourceType
    <3>2. \A i \in DOMAIN Source : Source[i] \in {"good", "poor", "none"}
      BY <3>1
    <3>3. \A i \in DOMAIN Source : Source[i] = "good"
      BY <2>1, <2>8, <3>2 DEF Uncovered, CopyCurrent, Source
    <3>4. DOMAIN Source = DOMAIN doc.look
      <4>1. CASE Copy = NoCopy
        BY <4>1 DEF Source, Layers
      <4>2. CASE Copy # NoCopy
        BY <2>8, <4>2 DEF Source, CopyCurrent, WInv, Copied, Covers, Copy, Places
      <4> QED
        BY <4>1, <4>2
    <3> QED
      BY <2>5, <2>6, <2>8, <3>3, <3>4 DEF Tells, Readable, Good, Spoken
  <2> QED
    BY <2>7, <2>8
<1>2. Spec => []WInv
  BY InitWritten, NextWritten, PTL DEF Spec
<1> QED
  BY <1>1, <1>2, PTL

-----------------------------------------------------------------------------
(* Redaction.                                                              *)

Pdfs == [pages : Seq(PageRecs), carriers : SUBSET CarrierRecs]

\* The page as it was, or with more of its cells covered.
Dimmed(page, orig) ==
  /\ page \in PageRecs /\ page.layer = orig.layer /\ page.joined = orig.joined
  /\ LinesOf(page) = LinesOf(orig)
  /\ \A c \in CellsOf(orig) : CellAt(page, c) \in {Gone, CellAt(orig, c)} \cup DrawnLabels

\* The operations that are still to be applied are the last of them.
Applied == 1 .. Len(config) - Len(todo)

Queued ==
  /\ config \in Seq(OpRecs)
  /\ todo \in Seq({Resolved(source.pages, config)[i] : i \in DOMAIN config})
  /\ Len(todo) <= Len(config)
  /\ \A j \in 1 .. Len(todo) : todo[j] = Resolved(source.pages, config)[Len(config) - Len(todo) + j]

Shrinking ==
  /\ source \in Pdfs /\ source.pages \in Seq(SourcePages)
  /\ pdf \in Pdfs /\ Len(pdf.pages) = Len(source.pages)
  /\ \A n \in DOMAIN source.pages : Dimmed(pdf.pages[n], source.pages[n])

Swept ==
  \A i \in Applied : Everywhere(i) => \A n \in DOMAIN pdf.pages :
    \A c \in Hits(pdf.pages[n], config[i].find) : CellAt(pdf.pages[n], c) \in DrawnLabels

\* A phrase that is covered while the other one of its line stands was noted.
Single(n, c) ==
  ~source.pages[n].joined \/ CellAt(pdf.pages[n], <<c[1], 3 - c[2]>>) \in Words

Remembered ==
  \A n \in DOMAIN source.pages : Searchable(source.pages[n]) =>
    \A c \in CellsOf(source.pages[n]) :
      CellAt(source.pages[n], c) \in Long /\ CellAt(pdf.pages[n], c) # CellAt(source.pages[n], c) /\ Single(n, c)
        => <<CellAt(source.pages[n], c)>> \in noted

Wrote ==
  pc = "written" =>
    /\ todo = << >> /\ out[1] = pdf
    /\ \A v \in pdf.carriers : v.kind # "stream" => ~Leaks(v.val)

CoverInv == Queued /\ Shrinking /\ Swept /\ Remembered /\ Wrote

\* An operation covers cells of some of the pages with its label, or none, having
\* noted what is there, removes strings, and does nothing else to the document.
Dims(d, op, r) ==
  /\ r.pdf = [pages |-> r.pdf.pages, carriers |-> r.pdf.carriers] /\ r.pdf.carriers \subseteq d.carriers
  /\ \E puts :
       /\ \A n \in DOMAIN puts : puts[n].label \in {Gone, Drawn(op)}
       /\ \A n \in DOMAIN puts : \A b \in puts[n].boxes : Note(d, n, b) \subseteq r.noted
       /\ r.pdf.pages = [n \in DOMAIN d.pages |->
            IF n \in DOMAIN puts THEN Cover(d.pages[n], puts[n].boxes, puts[n].label) ELSE d.pages[n]]

LEMMA EffectPages ==
  ASSUME NEW d, NEW puts, NEW count
  PROVE  Effect(d, puts, count).pdf.pages =
           [n \in DOMAIN d.pages |->
              IF n \in DOMAIN puts THEN Cover(d.pages[n], puts[n].boxes, puts[n].label) ELSE d.pages[n]]
  BY DEF Effect

LEMMA EffectCovers ==
  ASSUME NEW d, NEW op, NEW puts, NEW count, \A n \in DOMAIN puts : puts[n].label \in {Gone, Drawn(op)}
  PROVE  Dims(d, op, Effect(d, puts, count))
<1> DEFINE r == Effect(d, puts, count)
<1>1. r.pdf.pages = [n \in DOMAIN d.pages |->
        IF n \in DOMAIN puts THEN Cover(d.pages[n], puts[n].boxes, puts[n].label) ELSE d.pages[n]]
  BY EffectPages
<1>2. r.pdf = [pages |-> r.pdf.pages, carriers |-> r.pdf.carriers] /\ r.pdf.carriers \subseteq d.carriers
  BY DEF Effect
<1>3. \A n \in DOMAIN puts : \A b \in puts[n].boxes : Note(d, n, b) \subseteq r.noted
  BY DEF Effect
<1> HIDE DEF r
<1>4. Dims(d, op, r)
  BY <1>1, <1>2, <1>3 DEF Dims
<1> QED
  BY <1>4 DEF r

LEMMA NoEffectCovers ==
  ASSUME NEW d \in Pdfs, NEW op
  PROVE  Dims(d, op, NoEffect(d))
<1> DEFINE none == [n \in {} |-> Put({}, Gone)]
<1>1. DOMAIN none = {}
  OBVIOUS
<1>2. d.pages \in Seq(PageRecs) /\ d = [pages |-> d.pages, carriers |-> d.carriers]
  BY DEF Pdfs
<1>4. NoEffect(d).pdf = d
  BY DEF NoEffect
<1> HIDE DEF none
<1>3. d.pages = [n \in DOMAIN d.pages |->
        IF n \in DOMAIN none THEN Cover(d.pages[n], none[n].boxes, none[n].label) ELSE d.pages[n]]
  BY <1>1, <1>2
<1> QED
  BY <1>1, <1>2, <1>3, <1>4 DEF Dims

LEMMA HandledCovers ==
  ASSUME NEW d \in Pdfs, NEW op, NEW turned
  PROVE  Dims(d, op, Handled(d, op, turned))
<1> DEFINE Fine(r)   == Dims(d, op, r)
           Own(puts) == \A n \in DOMAIN puts : puts[n].label \in {Gone, Drawn(op)}
<1>0. Fine(NoEffect(d)) /\ \A puts, count : Own(puts) => Fine(Effect(d, puts, count))
  BY NoEffectCovers, EffectCovers
<1>a. \A S, B : Own([n \in S |-> Put(B[n], Drawn(op))])
  BY DEF Put
<1> HIDE DEF Fine, Own
<1>1. Fine(SealPages(d, op))
  <2> DEFINE start == FindPage(d.pages, op.find)
             stop  == Min({start + op.count - 1, Len(d.pages)})
             puts  == [n \in start .. stop |-> Put({Inside(d.pages[n])}, Drawn(op))]
  <2>1. Own(puts)
    BY DEF Own, Put
  <2> HIDE DEF puts
  <2> QED
    BY <1>0, <2>1 DEF SealPages, puts
<1>2. Fine(SealPageRange(d, op))
  <2> DEFINE puts  == [n \in op.first .. op.last |-> Put({Inside(d.pages[n])}, Drawn(op))]
  <2>1. Own(puts)
    BY DEF Own, Put
  <2> HIDE DEF puts
  <2> QED
    BY <1>0, <2>1 DEF SealPageRange, puts
<1>3. Fine(RedactRow(d, op))
  <2> DEFINE n    == FindPage(d.pages, op.find)
             hits == Hits(d.pages[n], op.find)
             puts == [p \in {n} |-> Put({RowBox(d.pages[n], op, h) : h \in hits}, Drawn(op))]
  <2>1. Own(puts)
    BY DEF Own, Put
  <2> HIDE DEF puts
  <2> QED
    BY <1>0, <2>1 DEF RedactRow, puts
<1>4. Fine(RedactRegion(d, op))
  <2> DEFINE puts == [p \in {op.first} |-> Put({op.box \cap CellsOf(d.pages[op.first])}, Drawn(op))]
  <2>1. Own(puts)
    BY DEF Own, Put
  <2> HIDE DEF puts
  <2> QED
    BY <1>0, <2>1 DEF RedactRegion, puts
<1>5. Fine(RedactBlock(d, op, turned))
  <2> DEFINE n     == FindPage(d.pages, op.find)
             page  == d.pages[n]
             next  == d.pages[n + 1]
             first == Min(LinesOfHits(page, op.find))
             body(p) == LinesOf(p) \ p.edge
             block(lines) == Put({Full(page, lines)}, Drawn(op))
             last  == Max(LinesOfHits(page, op.end))
             one   == [p \in {n} |-> block(IF last >= first THEN first .. last
                                           ELSE IF turned THEN last + 1 .. first - 1 ELSE {})]
             two   == [p \in {n, n + 1} |->
                         IF p = n THEN block({i \in body(page) : i >= first})
                         ELSE Put({Full(next, {i \in body(next) : i <= Max(LinesOfHits(next, op.end))})}, Gone)]
             rest  == [p \in {n} |-> block({i \in body(page) : i >= first})]
  <2>1. Own(one) /\ Own(two) /\ Own(rest)
    <3>1. \A lines : block(lines).label = Drawn(op)
      BY DEF Put
    <3>2. \A boxes : Put(boxes, Gone).label = Gone
      BY DEF Put
    <3> HIDE DEF block
    <3> QED
      BY <3>1, <3>2 DEF Own
  <2> HIDE DEF one, two, rest
  <2> QED
    BY <1>0, <2>1 DEF RedactBlock, one, two, rest
<1>6. Fine(RedactClause(d, op)) /\ Fine(RedactSentences(d, op))
  <2> DEFINE hits == [n \in {m \in PagesOf(d, op) : Hits(d.pages[m], op.find) # {}} |->
                        Capped(Hits(d.pages[n], op.find), op.cap)]
             puts == [n \in DOMAIN hits |-> Put(Each(hits[n]), Drawn(op))]
  <2>1. Own(puts)
    BY DEF Own, Put
  <2> HIDE DEF puts
  <2> QED
    BY <1>0, <2>1 DEF RedactClause, RedactSentences, puts
<1>7. Fine(Handled(d, op, turned))
  BY <1>0, <1>1, <1>2, <1>3, <1>4, <1>5, <1>6 DEF Handled
<1> QED
  BY <1>7 DEF Fine

\* What is in a cell of a page that was covered: the label, nothing, or what was there.
LEMMA CoverCells ==
  ASSUME NEW page \in PageRecs, NEW boxes, NEW label \in Labels \cup {Gone}
  PROVE  /\ Cover(page, boxes, label) \in PageRecs
         /\ Cover(page, boxes, label).layer = page.layer /\ Cover(page, boxes, label).joined = page.joined
         /\ LinesOf(Cover(page, boxes, label)) = LinesOf(page)
         /\ \A c \in CellsOf(page) :
              CellAt(Cover(page, boxes, label), c) =
                IF \E b \in boxes : Topmost(c, b) THEN label
                ELSE IF c \in UNION boxes THEN Gone ELSE CellAt(page, c)
<1> DEFINE Cell(i, k) == IF \E b \in boxes : Topmost(<<i, k>>, b) THEN label
                         ELSE IF <<i, k>> \in UNION boxes THEN Gone ELSE page.cells[i][k]
           grid  == [i \in LinesOf(page) |-> [k \in Columns |-> Cell(i, k)]]
           after == Cover(page, boxes, label)
<1>1. page.cells \in Seq([Columns -> Phrases \cup {Gone}])
  BY DEF PageRecs
<1>2. \A i \in LinesOf(page), k \in Columns : Cell(i, k) \in Phrases \cup {Gone}
  <2> TAKE i \in LinesOf(page), k \in Columns
  <2>1. page.cells[i] \in [Columns -> Phrases \cup {Gone}]
    BY <1>1 DEF LinesOf
  <2>2. page.cells[i][k] \in Phrases \cup {Gone} /\ label \in Phrases \cup {Gone}
    BY <2>1 DEF Phrases
  <2> QED
    BY <2>2
<1>3. after = [page EXCEPT !.labelled = TRUE, !.cells = grid]
  BY DEF Cover
<1> HIDE DEF Cell
<1>4. grid \in Seq([Columns -> Phrases \cup {Gone}]) /\ DOMAIN grid = DOMAIN page.cells
  <2>1. DOMAIN page.cells = 1 .. Len(page.cells) /\ Len(page.cells) \in Nat
    BY <1>1
  <2>2. \A i \in LinesOf(page) : [k \in Columns |-> Cell(i, k)] \in [Columns -> Phrases \cup {Gone}]
    BY <1>2
  <2>3. grid \in [1 .. Len(page.cells) -> [Columns -> Phrases \cup {Gone}]]
    BY <2>1, <2>2 DEF LinesOf
  <2> QED
    BY <2>1, <2>3
<1>5. \A i \in LinesOf(page), k \in Columns : grid[i][k] = Cell(i, k)
  OBVIOUS
<1> HIDE DEF grid, after
<1>6. after.cells = grid /\ after.layer = page.layer /\ after.joined = page.joined /\ after \in PageRecs
  BY <1>3, <1>4 DEF PageRecs
<1>7. \A c \in CellsOf(page) : CellAt(after, c) = Cell(c[1], c[2]) /\ c = <<c[1], c[2]>>
                               /\ CellAt(page, c) = page.cells[c[1]][c[2]]
  BY <1>5, <1>6 DEF CellsOf, CellAt
<1>8. \A c \in CellsOf(page) :
        CellAt(after, c) = IF \E b \in boxes : Topmost(c, b) THEN label
                           ELSE IF c \in UNION boxes THEN Gone ELSE CellAt(page, c)
  BY <1>7 DEF Cell
<1> QED
  BY <1>4, <1>6, <1>8 DEF after, LinesOf

\* Covering adds no text but the label, and takes nothing away that is covered.
LEMMA CoverDims ==
  ASSUME NEW orig \in PageRecs, NEW page, Dimmed(page, orig), NEW boxes,
         NEW label \in Labels \cup {Gone}, label \in DrawnLabels \cup {Gone}
  PROVE  LET after == Cover(page, boxes, label)
         IN  /\ Dimmed(after, orig)
             /\ \A w \in Words : \A c \in Hits(after, w) :
                  CellAt(after, c) \in DrawnLabels
                  \/ (c \in Hits(page, w) \ UNION boxes /\ CellAt(after, c) = CellAt(page, c))
<1> DEFINE after == Cover(page, boxes, label)
<1>1. page \in PageRecs /\ page.layer = orig.layer /\ page.joined = orig.joined /\ LinesOf(page) = LinesOf(orig)
      /\ CellsOf(page) = CellsOf(orig)
  BY DEF Dimmed, CellsOf
<1>2. /\ after \in PageRecs /\ after.layer = page.layer /\ after.joined = page.joined
      /\ LinesOf(after) = LinesOf(page)
      /\ \A c \in CellsOf(page) :
           CellAt(after, c) = IF \E b \in boxes : Topmost(c, b) THEN label
                              ELSE IF c \in UNION boxes THEN Gone ELSE CellAt(page, c)
  BY <1>1, CoverCells
<1> HIDE DEF after
<1>3. Dimmed(after, orig)
  BY <1>1, <1>2 DEF Dimmed
<1>4. CellsOf(after) = CellsOf(page)
  BY <1>2 DEF CellsOf
<1>5. ASSUME NEW w \in Words, NEW c \in Hits(after, w)
      PROVE  CellAt(after, c) \in DrawnLabels
             \/ (c \in Hits(page, w) \ UNION boxes /\ CellAt(after, c) = CellAt(page, c))
  <2>1. c \in CellsOf(page) /\ Reads(after, CellAt(after, c), w)
    BY <1>4, <1>5 DEF Hits, CellAt
  <2>2. CASE \E b \in boxes : Topmost(c, b)
    <3>1. CellAt(after, c) = label
      BY <1>2, <2>1, <2>2
    <3>2. label # Gone
      BY <2>1, <3>1, RedactionAssumption DEF Reads, IsText, Phrases
    <3> QED
      BY <3>1, <3>2
  <2>3. CASE ~(\E b \in boxes : Topmost(c, b)) /\ c \in UNION boxes
    <3>1. CellAt(after, c) = Gone
      BY <1>2, <2>1, <2>3
    <3> QED
      BY <2>1, <3>1, RedactionAssumption DEF Reads, IsText, Phrases
  <2>4. CASE ~(\E b \in boxes : Topmost(c, b)) /\ c \notin UNION boxes
    <3>1. CellAt(after, c) = CellAt(page, c)
      BY <1>2, <2>1, <2>4
    <3>2. Reads(page, CellAt(page, c), w)
      BY <1>2, <2>1, <3>1 DEF Reads, IsText, Searchable
    <3> QED
      BY <2>1, <2>4, <3>1, <3>2 DEF Hits, CellAt
  <2> QED
    BY <2>2, <2>3, <2>4
<1> QED
  BY <1>3, <1>5 DEF after

\* Resolving an operation changes nothing but the page it is resolved to.
LEMMA ResolvedKeeps ==
  ASSUME NEW pages, NEW ops \in Seq(OpRecs), NEW i \in DOMAIN ops
  PROVE  /\ ops[i] \in OpRecs /\ ops[i].find \in Words
         /\ \E n : Resolved(pages, ops)[i] = [ops[i] EXCEPT !.resolved = n]
         /\ Resolved(pages, ops)[i].type = ops[i].type /\ Resolved(pages, ops)[i].find = ops[i].find
         /\ Resolved(pages, ops)[i].cap = ops[i].cap
         /\ Drawn(Resolved(pages, ops)[i]) = Drawn(ops[i]) /\ Drawn(ops[i]) \in Labels \cup {Gone}
<1>1. ops[i] \in OpRecs
  OBVIOUS
<1>2. ops[i].find \in Words /\ ops[i].label \in Labels \cup {Gone}
  BY <1>1 DEF OpRecs
<1>3. PICK n : Resolved(pages, ops)[i] = [ops[i] EXCEPT !.resolved = n]
  BY DEF Resolved
<1>4. /\ Resolved(pages, ops)[i].type = ops[i].type /\ Resolved(pages, ops)[i].find = ops[i].find
      /\ Resolved(pages, ops)[i].cap = ops[i].cap /\ Resolved(pages, ops)[i].label = ops[i].label
  BY <1>1, <1>3 DEF OpRecs
<1>5. Drawn(Resolved(pages, ops)[i]) = Drawn(ops[i]) /\ Drawn(ops[i]) \in Labels \cup {Gone}
  BY <1>2, <1>4, RedactionAssumption DEF Drawn
<1> QED
  BY <1>1, <1>2, <1>3, <1>4, <1>5

LEMMA InitC == RedactInit => CoverInv
<1> SUFFICES ASSUME RedactInit PROVE CoverInv
  OBVIOUS
<1>1. config \in Seq(OpRecs) /\ source.pages \in Seq(SourcePages) /\ source.carriers \in SUBSET CarrierRecs
      /\ source = [pages |-> source.pages, carriers |-> source.carriers]
  BY RedactionAssumption DEF RedactInit
<1>8. source \in Pdfs
  <2>1. SourcePages \subseteq PageRecs
    BY DEF SourcePages
  <2>2. source.pages \in Seq(PageRecs)
    BY <1>1, <2>1
  <2> QED
    BY <1>1, <2>2 DEF Pdfs
<1> DEFINE all == Resolved(source.pages, config)
<1>2. DOMAIN all = 1 .. Len(config) /\ Len(config) \in Nat /\ todo = all
  BY <1>1 DEF RedactInit, Resolved
<1>3. all \in Seq({all[i] : i \in DOMAIN config}) /\ Len(all) = Len(config)
  <2>1. DOMAIN config = 1 .. Len(config)
    BY <1>1
  <2>2. all = [i \in DOMAIN config |-> all[i]]
    BY DEF Resolved
  <2> HIDE DEF all
  <2>3. all \in [1 .. Len(config) -> {all[i] : i \in DOMAIN config}]
    BY <2>1, <2>2
  <2> QED
    BY <1>2, <2>3
<1> HIDE DEF all
<1>4. Queued
  BY <1>1, <1>2, <1>3 DEF Queued, all
<1>5. Shrinking
  <2>1. \A n \in DOMAIN source.pages : source.pages[n] \in PageRecs
    BY <1>8 DEF Pdfs
  <2> QED
    BY <1>1, <1>8, <2>1 DEF Shrinking, Dimmed, RedactInit
<1>6. Swept
  BY <1>2, <1>3 DEF Swept, Applied
<1>9. Remembered
  BY DEF Remembered, RedactInit
<1>7. Wrote
  BY DEF Wrote, RedactInit
<1> QED
  BY <1>4, <1>5, <1>6, <1>7, <1>9 DEF CoverInv

\* A clause of the whole document, without a limit, leaves its phrase in no cell
\* but in what it draws itself.
LEMMA ClauseSweeps ==
  ASSUME NEW d, d.pages \in Seq(PageRecs), NEW op, NEW turned, op.find \in Words,
         op.type \in {"redact_clause", "redact_sentences"}, op.cap = 0,
         Drawn(op) \in Labels \cup {Gone},
         PagesOf(d, op) = DOMAIN d.pages,
         NEW n \in DOMAIN d.pages, NEW c \in Hits(Handled(d, op, turned).pdf.pages[n], op.find)
  PROVE  /\ CellAt(Handled(d, op, turned).pdf.pages[n], c) = Drawn(op)
         /\ Drawn(op) # Gone
<1> DEFINE hits == [m \in {m \in PagesOf(d, op) : Hits(d.pages[m], op.find) # {}} |->
                      Capped(Hits(d.pages[m], op.find), op.cap)]
           puts  == [m \in DOMAIN hits |-> Put(Each(hits[m]), Drawn(op))]
           after == Handled(d, op, turned).pdf.pages
<1>1. Handled(d, op, turned) = RedactClause(d, op)
  BY DEF Handled, RedactSentences
<1>2. after = [m \in DOMAIN d.pages |->
                 IF m \in DOMAIN puts THEN Cover(d.pages[m], puts[m].boxes, puts[m].label) ELSE d.pages[m]]
  <2>1. PICK count : RedactClause(d, op) = Effect(d, puts, count)
    BY DEF RedactClause
  <2> HIDE DEF puts
  <2> QED
    BY <1>1, <2>1, EffectPages
<1>3. \A m \in DOMAIN puts : puts[m].label = Drawn(op) /\ puts[m].boxes = {{h} : h \in Hits(d.pages[m], op.find)}
  BY DEF Capped, Put, Each
<1>4. DOMAIN puts = {m \in DOMAIN d.pages : Hits(d.pages[m], op.find) # {}}
  OBVIOUS
<1>5. d.pages[n] \in PageRecs
  OBVIOUS
<1> HIDE DEF puts, hits, after
<1>8. c \in Hits(after[n], op.find)
  BY DEF after
<1>6. n \in DOMAIN puts
  <2>1. n \in DOMAIN puts \/ after[n] = d.pages[n]
    BY <1>2
  <2> QED
    BY <1>4, <1>8, <2>1
<1>7. after[n] = Cover(d.pages[n], puts[n].boxes, puts[n].label) /\ puts[n].label = Drawn(op)
      /\ puts[n].boxes = {{h} : h \in Hits(d.pages[n], op.find)}
  BY <1>2, <1>3, <1>6
<1>9. /\ after[n].layer = d.pages[n].layer /\ LinesOf(after[n]) = LinesOf(d.pages[n])
      /\ \A e \in CellsOf(d.pages[n]) :
           CellAt(after[n], e) = IF \E b \in puts[n].boxes : Topmost(e, b) THEN Drawn(op)
                                 ELSE IF e \in UNION puts[n].boxes THEN Gone ELSE CellAt(d.pages[n], e)
  <2>1. puts[n].label \in Labels \cup {Gone}
    BY <1>7
  <2>2. LET new == Cover(d.pages[n], puts[n].boxes, puts[n].label)
        IN  /\ new.layer = d.pages[n].layer /\ LinesOf(new) = LinesOf(d.pages[n])
            /\ \A e \in CellsOf(d.pages[n]) :
                 CellAt(new, e) = IF \E b \in puts[n].boxes : Topmost(e, b) THEN puts[n].label
                                  ELSE IF e \in UNION puts[n].boxes THEN Gone ELSE CellAt(d.pages[n], e)
    BY <1>5, <2>1, CoverCells
  <2> QED
    BY <1>7, <2>2
<1>10. c \in CellsOf(d.pages[n]) /\ Reads(after[n], CellAt(after[n], c), op.find)
  BY <1>8, <1>9 DEF Hits, CellsOf, CellAt
<1>11. CASE c \in Hits(d.pages[n], op.find)
  <2>1. {c} \in puts[n].boxes /\ Topmost(c, {c})
    BY <1>7, <1>11 DEF Topmost
  <2>2. CellAt(after[n], c) = Drawn(op)
    BY <1>9, <1>10, <2>1
  <2>3. Drawn(op) # Gone
    BY <1>10, <2>2, RedactionAssumption DEF Reads, IsText, Phrases
  <2> QED
    BY <2>2, <2>3 DEF after
<1>12. CASE c \notin Hits(d.pages[n], op.find)
  <2>1. \A b \in puts[n].boxes : c \notin b
    BY <1>7, <1>12
  <2>2. CellAt(after[n], c) = CellAt(d.pages[n], c)
    BY <1>9, <1>10, <2>1 DEF Topmost
  <2>3. Reads(d.pages[n], CellAt(d.pages[n], c), op.find)
    BY <1>9, <1>10, <2>2 DEF Reads, IsText, Searchable
  <2> QED
    BY <1>10, <1>12, <2>3 DEF Hits, CellAt
<1> QED
  BY <1>11, <1>12

\* What is under a box is noted, by itself unless its whole line is under the box.
LEMMA NotesUnder ==
  ASSUME NEW d, NEW n, d.pages[n] \in PageRecs, Searchable(d.pages[n]), NEW c \in CellsOf(d.pages[n]),
         CellAt(d.pages[n], c) \in Words \cap Long, NEW b, c \in b,
         ~d.pages[n].joined \/ <<c[1], 3 - c[2]>> \notin b
  PROVE  <<CellAt(d.pages[n], c)>> \in Note(d, n, b)
<1> DEFINE page == d.pages[n]
           word == CellAt(page, c)
           under == {k \in Columns : <<c[1], k>> \in b /\ IsText(page, page.cells[c[1]][k])}
<1>1. c[1] \in LinesOf(page) /\ c[2] \in Columns /\ c = <<c[1], c[2]>> /\ word = page.cells[c[1]][c[2]]
  BY DEF CellsOf, CellAt
<1>2. c[2] \in under
  BY <1>1 DEF IsText
<1>3. page.joined => under # Columns
  <2>1. 3 - c[2] \in Columns
    BY <1>1 DEF Columns
  <2> QED
    BY <2>1
<1>4. <<word>> \in Lines(page, b, c[1])
  BY <1>1, <1>2, <1>3 DEF Lines
<1>5. Enough(<<word>>)
  BY DEF Enough
<1> QED
  BY <1>1, <1>4, <1>5 DEF Note, TextUnder

LEMMA OperateStep == CoverInv /\ Operate => CoverInv'
<1> SUFFICES ASSUME CoverInv, Operate PROVE CoverInv'
  OBVIOUS
<1> USE DEF CoverInv
<1> DEFINE all == Resolved(source.pages, config)
           S   == {all[i] : i \in DOMAIN config}
           L   == Len(config)
           k   == L - Len(todo) + 1
<1>1. config \in Seq(OpRecs) /\ todo \in Seq(S) /\ L \in Nat /\ Len(todo) \in Nat /\ Len(todo) <= L
      /\ DOMAIN config = 1 .. L /\ Len(todo) > 0
  BY DEF Queued, Operate
<1>2. todo' = Tail(todo) /\ Len(todo') = Len(todo) - 1 /\ todo' \in Seq(S)
      /\ \A j \in 1 .. Len(todo') : todo'[j] = todo[j + 1]
  <2> HIDE DEF S
  <2> QED
    BY <1>1 DEF Operate
<1>3. Head(todo) = all[k] /\ k \in 1 .. L
  BY <1>1 DEF Queued
<1>4. PICK turned \in BOOLEAN : /\ pdf' = Handled(pdf, Head(todo), turned).pdf
                                /\ noted' = noted \cup Handled(pdf, Head(todo), turned).noted
  BY DEF Operate
<1>5. UNCHANGED <<source, config, out, pc>> /\ pc = "apply" /\ DrawnLabels' = DrawnLabels
  BY DEF Operate, DrawnLabels
<1>6. Queued'
  <2>1. all' = all /\ S' = S /\ L' = L
    BY <1>5
  <2> HIDE DEF all, S
  <2>2. \A j \in 1 .. Len(todo') : todo'[j] = all[L - Len(todo') + j]
    <3> TAKE j \in 1 .. Len(todo')
    <3>1. j + 1 \in 1 .. Len(todo) /\ L - Len(todo) + (j + 1) = L - Len(todo') + j
      BY <1>1, <1>2
    <3> QED
      BY <1>2, <3>1 DEF Queued, all
  <2> QED
    BY <1>1, <1>2, <1>5, <2>1, <2>2 DEF Queued, all, S
<1> DEFINE op == Head(todo)
           r  == Handled(pdf, op, turned)
<1>7. pdf \in Pdfs /\ source \in Pdfs /\ pdf.pages \in Seq(PageRecs) /\ source.pages \in Seq(PageRecs)
      /\ DOMAIN pdf.pages = DOMAIN source.pages /\ DOMAIN pdf.pages = 1 .. Len(pdf.pages)
      /\ Len(pdf.pages) \in Nat /\ Len(pdf.pages) = Len(source.pages)
  BY DEF Shrinking, Pdfs
<1>14. Drawn(op) = Drawn(config[k]) /\ Drawn(op) \in Labels \cup {Gone} /\ Drawn(op) \in DrawnLabels \cup {Gone}
  <2>1. k \in DOMAIN config
    BY <1>1, <1>3
  <2> HIDE DEF all, k
  <2> QED
    BY <1>1, <1>3, <2>1, ResolvedKeeps DEF DrawnLabels, all
<1> HIDE DEF op, r
<1>13. Dims(pdf, op, r)
  BY <1>7, HandledCovers DEF r
<1>15. pdf' = r.pdf /\ noted' = noted \cup r.noted
  BY <1>4 DEF r, op
<1>8. PICK puts :
        /\ \A n \in DOMAIN puts : puts[n].label \in {Gone, Drawn(op)}
        /\ \A n \in DOMAIN puts : \A b \in puts[n].boxes : Note(pdf, n, b) \subseteq r.noted
        /\ pdf'.pages = [n \in DOMAIN pdf.pages |->
             IF n \in DOMAIN puts THEN Cover(pdf.pages[n], puts[n].boxes, puts[n].label) ELSE pdf.pages[n]]
  BY <1>13, <1>15 DEF Dims
<1>9. \A n \in DOMAIN pdf.pages :
        /\ Dimmed(pdf'.pages[n], source.pages[n])
        /\ \A w \in Words : \A c \in Hits(pdf'.pages[n], w) :
             CellAt(pdf'.pages[n], c) \in DrawnLabels
             \/ (c \in Hits(pdf.pages[n], w) /\ CellAt(pdf'.pages[n], c) = CellAt(pdf.pages[n], c))
  <2> TAKE n \in DOMAIN pdf.pages
  <2>1. source.pages[n] \in PageRecs /\ Dimmed(pdf.pages[n], source.pages[n])
    BY <1>7 DEF Shrinking
  <2>2. CASE n \in DOMAIN puts
    <3>1. puts[n].label \in Labels \cup {Gone} /\ puts[n].label \in DrawnLabels \cup {Gone}
      BY <1>8, <1>14, <2>2
    <3>2. pdf'.pages[n] = Cover(pdf.pages[n], puts[n].boxes, puts[n].label)
      BY <1>8, <2>2
    <3>3. LET after == Cover(pdf.pages[n], puts[n].boxes, puts[n].label)
          IN  /\ Dimmed(after, source.pages[n])
              /\ \A w \in Words : \A c \in Hits(after, w) :
                   CellAt(after, c) \in DrawnLabels
                   \/ (c \in Hits(pdf.pages[n], w) \ UNION puts[n].boxes
                       /\ CellAt(after, c) = CellAt(pdf.pages[n], c))
      BY <2>1, <3>1, CoverDims
    <3> QED
      BY <3>2, <3>3
  <2>3. CASE n \notin DOMAIN puts
    BY <1>8, <2>1, <2>3
  <2> QED
    BY <2>2, <2>3
<1>10. Shrinking' /\ DOMAIN pdf'.pages = DOMAIN pdf.pages
  <2>1. \A n \in DOMAIN pdf.pages : pdf'.pages[n] \in PageRecs
    BY <1>9 DEF Dimmed
  <2>2. DOMAIN pdf'.pages = 1 .. Len(pdf.pages)
    BY <1>7, <1>8
  <2>3. pdf'.pages \in [1 .. Len(pdf.pages) -> PageRecs]
    <3>1. pdf'.pages = [n \in 1 .. Len(pdf.pages) |-> pdf'.pages[n]]
      BY <1>7, <1>8
    <3> QED
      BY <1>7, <2>1, <3>1
  <2>4. pdf'.pages \in Seq(PageRecs) /\ Len(pdf'.pages) = Len(pdf.pages)
    BY <1>7, <2>3
  <2>5. pdf' = [pages |-> pdf'.pages, carriers |-> pdf'.carriers] /\ pdf'.carriers \subseteq pdf.carriers
    BY <1>13, <1>15 DEF Dims
  <2>6. pdf' \in Pdfs
    BY <1>7, <2>4, <2>5 DEF Pdfs
  <2>7. \A n \in DOMAIN source.pages : Dimmed(pdf'.pages[n], source.pages[n])
    BY <1>7, <1>9
  <2>8. \A n \in DOMAIN source.pages : Dimmed(pdf.pages[n], source.pages[n])'
    BY <1>5, <2>7 DEF Dimmed
  <2> QED
    BY <1>5, <1>7, <2>4, <2>2, <2>6, <2>8 DEF Shrinking
<1>11. Swept'
  <2> SUFFICES ASSUME NEW i \in Applied', Everywhere(i)', NEW n \in DOMAIN pdf.pages,
                      NEW c \in Hits(pdf'.pages[n], config[i].find)
               PROVE  CellAt(pdf'.pages[n], c) \in DrawnLabels
    BY <1>5, <1>10 DEF Swept
  <2>1. Everywhere(i) /\ i \in 1 .. k /\ i \in DOMAIN config
    BY <1>1, <1>2, <1>5 DEF Everywhere, Applied
  <2>2. config[i].find \in Words /\ all[i].find = config[i].find /\ all[i].type = config[i].type
        /\ all[i].cap = config[i].cap
    BY <1>1, <2>1, ResolvedKeeps
  <2>3. CASE i # k
    <3>1. i \in Applied
      BY <1>1, <2>1, <2>3 DEF Applied
    <3> QED
      BY <1>9, <2>1, <2>2, <3>1 DEF Swept
  <2>4. CASE i = k
    <3>1. op = all[i]
      BY <1>3, <2>4 DEF op
    <3>2. PagesOf(pdf, op) = DOMAIN pdf.pages
      BY <1>7, <2>1, <3>1 DEF Everywhere, PagesOf
    <3>3. op.find \in Words /\ op.type \in {"redact_clause", "redact_sentences"} /\ op.cap = 0
      BY <2>1, <2>2, <3>1 DEF Everywhere
    <3>4. c \in Hits(r.pdf.pages[n], op.find)
      BY <1>15, <2>2, <3>1
    <3>5. CellAt(r.pdf.pages[n], c) = Drawn(op) /\ Drawn(op) # Gone
      BY <1>7, <1>14, <3>2, <3>3, <3>4, ClauseSweeps DEF r
    <3> QED
      BY <1>14, <1>15, <3>5
  <2> QED
    BY <2>3, <2>4
<1>16. Remembered'
  <2> SUFFICES ASSUME NEW n \in DOMAIN source.pages, Searchable(source.pages[n]),
                      NEW c \in CellsOf(source.pages[n]),
                      CellAt(source.pages[n], c) \in Long,
                      CellAt(pdf'.pages[n], c) # CellAt(source.pages[n], c), Single(n, c)'
               PROVE  <<CellAt(source.pages[n], c)>> \in noted'
    BY <1>5 DEF Remembered
  <2> DEFINE page == pdf.pages[n]
             word == CellAt(source.pages[n], c)
             mate == <<c[1], 3 - c[2]>>
  <2>1. Dimmed(page, source.pages[n]) /\ page \in PageRecs /\ CellsOf(page) = CellsOf(source.pages[n])
        /\ page.joined = source.pages[n].joined /\ Searchable(page) /\ n \in DOMAIN pdf.pages
    BY <1>7 DEF Shrinking, Dimmed, CellsOf, Searchable
  <2>2. mate \in CellsOf(page)
    BY <2>1 DEF CellsOf, Columns
  <2>3. CASE n \notin DOMAIN puts
    <3>1. pdf'.pages[n] = page
      BY <1>8, <2>1, <2>3
    <3>2. Single(n, c)
      BY <1>5, <3>1 DEF Single
    <3> QED
      BY <1>15, <3>1, <3>2 DEF Remembered
  <2>4. CASE n \in DOMAIN puts
    <3> DEFINE boxes == puts[n].boxes
               after == pdf'.pages[n]
    <3>1. puts[n].label \in Labels \cup {Gone}
      BY <1>8, <1>14, <2>4
    <3>2. after = Cover(page, boxes, puts[n].label)
      BY <1>8, <2>1, <2>4
    <3>3. \A e \in CellsOf(page) :
            CellAt(after, e) = IF \E b \in boxes : Topmost(e, b) THEN puts[n].label
                               ELSE IF e \in UNION boxes THEN Gone ELSE CellAt(page, e)
      BY <2>1, <3>1, <3>2, CoverCells
    <3>4. \A e \in CellsOf(page) : e \in UNION boxes => CellAt(after, e) \notin Words
      BY <3>1, <3>3, RedactionAssumption DEF Phrases
    <3>5. \A e \in CellsOf(page) : e \notin UNION boxes => CellAt(after, e) = CellAt(page, e)
      BY <3>3 DEF Topmost
    <3>6. source.pages[n].joined => CellAt(after, mate) \in Words /\ mate \notin UNION boxes /\ CellAt(page, mate) \in Words
      <4>1. source.pages[n].joined => CellAt(after, mate) \in Words
        BY <1>5 DEF Single
      <4> QED
        BY <2>2, <3>4, <3>5, <4>1
    <3>7. Single(n, c)
      BY <3>6 DEF Single
    <3>8. CASE CellAt(page, c) # word
      BY <1>15, <3>7, <3>8 DEF Remembered
    <3>9. CASE CellAt(page, c) = word
      <4>1. PICK b \in boxes : c \in b
        BY <2>1, <3>5, <3>9
      <4>2. word \in Words
        <5>1. source.pages[n] \in SourcePages /\ c[1] \in LinesOf(source.pages[n]) /\ c[2] \in Columns
          BY DEF Shrinking, CellsOf
        <5>2. source.pages[n].cells[c[1]] \in [Columns -> Words \cup {Gone}]
          BY <5>1 DEF SourcePages, LinesOf
        <5>3. word \in Words \cup {Gone} /\ word # Gone
          BY <5>1, <5>2, RedactionAssumption DEF CellAt
        <5> QED
          BY <5>3
      <4>3. <<CellAt(page, c)>> \in Note(pdf, n, b)
        BY <2>1, <3>6, <3>9, <4>1, <4>2, NotesUnder
      <4> QED
        BY <1>8, <1>15, <2>4, <3>9, <4>1, <4>3
    <3> QED
      BY <3>8, <3>9
  <2> QED
    BY <2>3, <2>4
<1>12. Wrote'
  BY <1>5 DEF Wrote
<1> QED
  BY <1>6, <1>10, <1>11, <1>12, <1>16

LEMMA FinishStep == CoverInv /\ Finish => CoverInv'
<1> SUFFICES ASSUME CoverInv, Finish PROVE CoverInv'
  OBVIOUS
<1> USE DEF CoverInv
<1>1. UNCHANGED <<source, config, todo, noted>> /\ todo = << >> /\ DrawnLabels' = DrawnLabels
  BY DEF Finish, DrawnLabels
<1>2. /\ pdf'.pages = pdf.pages /\ pdf' \in Pdfs
      /\ pc' = "written" => out'[1] = pdf' /\ \A v \in pdf'.carriers : v.kind # "stream" => ~Leaks(v.val)
  <2>1. CASE failures > 0
    BY <2>1 DEF Finish, Shrinking
  <2>2. CASE ~(failures > 0)
    <3>1. pdf' = [pdf EXCEPT !.carriers = Scrubbed(@)] /\ out' = <<pdf'>>
      BY <2>2 DEF Finish
    <3>2. Scrubbed(pdf.carriers) \subseteq pdf.carriers /\ pdf \in Pdfs
          /\ \A v \in Scrubbed(pdf.carriers) : v.kind # "stream" => ~Leaks(v.val)
      BY DEF Scrubbed, Shrinking
    <3>3. pdf'.pages = pdf.pages /\ pdf'.carriers = Scrubbed(pdf.carriers) /\ pdf' \in Pdfs
      BY <3>1, <3>2 DEF Pdfs
    <3> QED
      BY <3>1, <3>2, <3>3
  <2> QED
    BY <2>1, <2>2
<1>3. Queued'
  BY <1>1 DEF Queued
<1>5. Shrinking'
  <2>1. \A n \in DOMAIN source.pages : Dimmed(pdf.pages[n], source.pages[n])'
    BY <1>1, <1>2 DEF Shrinking, Dimmed
  <2> QED
    BY <1>1, <1>2, <2>1 DEF Shrinking
<1>6. Swept'
  <2>1. Applied' = Applied /\ \A i : Everywhere(i)' <=> Everywhere(i)
    BY <1>1 DEF Applied, Everywhere
  <2> QED
    BY <1>1, <1>2, <2>1 DEF Swept
<1>7. Remembered'
  BY <1>1, <1>2 DEF Remembered, Single
<1>4. Wrote'
  BY <1>1, <1>2 DEF Wrote, Leaks
<1> QED
  BY <1>3, <1>4, <1>5, <1>6, <1>7

\* What is in memory is the source with cells covered and labelled, swept by every
\* clause applied so far, and what was covered is remembered.
LEMMA CoverInvHolds == RedactSpec => []CoverInv
<1>1. CoverInv /\ UNCHANGED redactVars => CoverInv'
  <2> SUFFICES ASSUME CoverInv, UNCHANGED redactVars PROVE CoverInv'
    OBVIOUS
  <2>1. UNCHANGED <<source, config, pdf, todo, noted, out, pc>> /\ DrawnLabels' = DrawnLabels
    BY DEF redactVars, DrawnLabels
  <2>2. Queued'
    BY <2>1 DEF CoverInv, Queued
  <2>6. Shrinking'
    <3>1. \A n \in DOMAIN source.pages : Dimmed(pdf.pages[n], source.pages[n])'
      BY <2>1 DEF CoverInv, Shrinking, Dimmed
    <3> QED
      BY <2>1, <3>1 DEF CoverInv, Shrinking
  <2>3. Applied' = Applied /\ \A i : Everywhere(i)' <=> Everywhere(i)
    BY <2>1 DEF Applied, Everywhere
  <2>4. Swept'
    BY <2>1, <2>3 DEF CoverInv, Swept
  <2>5. Wrote' /\ Remembered'
    BY <2>1 DEF CoverInv, Wrote, Leaks, Remembered, Single
  <2> QED
    BY <2>2, <2>4, <2>5, <2>6 DEF CoverInv
<1> QED
  BY InitC, OperateStep, FinishStep, <1>1, PTL DEF RedactSpec, RedactNext

LEMMA CoverInvGone == CoverInv => NamedIsGone
<1> SUFFICES ASSUME CoverInv, pc = "written", NEW i \in DOMAIN config, Everywhere(i),
                    NEW n \in DOMAIN out[1].pages, NEW c \in Hits(out[1].pages[n], config[i].find)
             PROVE  CellAt(out[1].pages[n], c) \in DrawnLabels
  BY DEF NamedIsGone
<1>1. i \in Applied /\ out[1] = pdf
  BY DEF CoverInv, Queued, Wrote, Applied
<1> QED
  BY <1>1 DEF CoverInv, Swept

\* NamedIsGone, for any documents, labels and configurations: a clause of the whole
\* document without a limit leaves its phrase in no cell but in a label that an
\* operation drew, whatever operations come before and after it (redact_pdf.py: run,
\* _op_redact_clause, _add_redact, _blank_page).
THEOREM ClausesSweep == RedactSpec => []NamedIsGone
  BY CoverInvHolds, CoverInvGone, PTL

LEMMA CoverInvExact == CoverInv => VerdictIsExact
<1> SUFFICES ASSUME CoverInv, pc = "written", PlainLabels, NEW list \in TermLists, NEW t \in list,
                    Kept(t.word), NEW n \in DOMAIN source.pages, Searchable(source.pages[n])
             PROVE  Shows(out[1].pages[n], t.word)
                      <=> \E c \in Hits(source.pages[n], t.word) : CellAt(out[1].pages[n], c) = t.word
  BY DEF VerdictIsExact
<1> DEFINE page == pdf.pages[n]
           orig == source.pages[n]
<1>1. out[1] = pdf /\ t.word \in Words
  BY RedactionAssumption DEF CoverInv, Wrote
<1>2. Dimmed(page, orig) /\ CellsOf(page) = CellsOf(orig) /\ Searchable(page) /\ ~ImageOnly(page)
  BY DEF CoverInv, Shrinking, Dimmed, CellsOf, Searchable, ImageOnly
<1>3. ASSUME NEW c \in Hits(page, t.word), Kept(CellAt(page, c))
      PROVE  c \in Hits(orig, t.word) /\ CellAt(page, c) = t.word
  <2> DEFINE x == CellAt(page, c)
  <2>1. c \in CellsOf(orig) /\ Reads(page, x, t.word) /\ x \in {Gone, CellAt(orig, c)} \cup DrawnLabels
    BY <1>2 DEF Hits, CellAt, Dimmed
  <2>2. x \notin DrawnLabels
    <3> SUFFICES ASSUME NEW i \in DOMAIN config, x = Drawn(config[i]) PROVE FALSE
      BY DEF DrawnLabels
    <3>1. x \in ConfigLabels \cup Bracketed
      BY DEF PlainLabels, ConfigLabels
    <3> QED
      BY <1>3, <3>1 DEF Kept
  <2>3. x # Gone
    BY <2>1, RedactionAssumption DEF Reads, IsText, Phrases
  <2>4. CellAt(orig, c) \in Words \cup {Gone}
    <3>1. orig \in SourcePages /\ c[1] \in LinesOf(orig) /\ c[2] \in Columns
      BY <2>1 DEF CoverInv, Shrinking, CellsOf
    <3>2. orig.cells[c[1]] \in [Columns -> Words \cup {Gone}]
      BY <3>1 DEF SourcePages, LinesOf
    <3> QED
      BY <3>1, <3>2 DEF CellAt
  <2>5. x = CellAt(orig, c) /\ x \in Words
    BY <2>1, <2>2, <2>3, <2>4
  <2>6. x = t.word
    BY <2>1, <2>5, RedactionAssumption DEF Reads
  <2> QED
    BY <2>1, <2>5, <2>6 DEF Hits, Reads, IsText, CellAt
<1>4. ASSUME NEW c \in Hits(orig, t.word), CellAt(page, c) = t.word
      PROVE  c \in Hits(page, t.word) /\ Kept(CellAt(page, c))
  BY <1>1, <1>2, <1>4 DEF Hits, Reads, IsText, CellAt
<1>5. Shows(page, t.word) <=> \E c \in Hits(page, t.word) : Kept(CellAt(page, c))
  BY <1>2 DEF Shows, CellAt
<1> QED
  BY <1>1, <1>3, <1>4, <1>5

\* VerdictIsExact, for any documents, configurations, labels and lists of terms: on a
\* page that can be searched, verify_redactions.py reports a term exactly when the
\* source showed it and no operation covered it, unless the font cannot draw a label
\* as the configuration has it, or the term falls with what strip_labels removes.
THEOREM VerdictsAreExact == RedactSpec => []VerdictIsExact
  BY CoverInvHolds, CoverInvExact, PTL

LEMMA CoverInvOffPage == CoverInv => OffPageGone
<1> SUFFICES ASSUME CoverInv, pc = "written", NEW n \in DOMAIN source.pages, Searchable(source.pages[n]),
                    NEW c \in CellsOf(source.pages[n]), CellAt(source.pages[n], c) \in Long,
                    CellAt(out[1].pages[n], c) # CellAt(source.pages[n], c), Alone(n, c),
                    NEW v \in out[1].carriers, v.kind # "stream", CellAt(source.pages[n], c) \in ToSet(v.val)
             PROVE  FALSE
  BY DEF OffPageGone
<1> DEFINE word == CellAt(source.pages[n], c)
<1>1. out[1] = pdf /\ v \in pdf.carriers /\ v \in CarrierRecs
  BY DEF CoverInv, Wrote, Shrinking, Pdfs
<1>2. <<word>> \in noted
  BY <1>1 DEF CoverInv, Remembered, Single, Alone
<1>3. v.val \in Seq(Words)
  BY <1>1 DEF CarrierRecs
<1>4. PICK i \in DOMAIN v.val : v.val[i] = word
  BY DEF ToSet
<1>5. i - 1 \in 0 .. Len(v.val) - Len(<<word>>) /\ v.val[(i - 1) + 1] = <<word>>[1]
  BY <1>3, <1>4
<1>6. DOMAIN <<word>> = {1}
  OBVIOUS
<1>7. Within(<<word>>, v.val)
  BY <1>5, <1>6 DEF Within
<1> QED
  BY <1>1, <1>2, <1>7 DEF CoverInv, Wrote, Leaks

\* OffPageGone, for any documents and configurations: a phrase that some operation
\* covered, as a line of text by itself, is in no string off the pages that is not in a
\* stream (redact_pdf.py: _note_redaction, _scrub_offpage_carriers).
THEOREM CoveredIsScrubbed == RedactSpec => []OffPageGone
  BY CoverInvHolds, CoverInvOffPage, PTL
=============================================================================
