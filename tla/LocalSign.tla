----------------------------- MODULE LocalSign -----------------------------
(***************************************************************************)
(* signing/local.py and signing/audit.py: a built PDF is signed with a     *)
(* stored mark, and the signing is attested.  The signed artifact is       *)
(* written first, then what was left blank is printed, then the record is  *)
(* written: the retained bytes, the statement with their digests, gpg's    *)
(* signature of the statement, attestation.json.                           *)
(*                                                                         *)
(* A file is what is in it: the document, the blanks that are filled and   *)
(* by whom, the references stamped on it.  A digest is the file it is of.  *)
(***************************************************************************)
EXTENDS SignSlots, SequencesExt

CONSTANTS
  Docs,      \* names of documents
  Documents, \* what is built under them: sequences of pages
  MaxRuns,   \* bound: runs of sc sign apply
  MaxKills   \* bound: runs that are killed, or interrupted at the passphrase

ASSUME LocalAssumption ==
  /\ MaxRuns \in Nat /\ MaxKills \in Nat
  /\ Names \cap Titles = {} /\ Nobody \notin Names \cup Titles

ASSUME PrintedAssumption ==
  \A document \in Documents : \A p \in DOMAIN document :
    \E built \in Builds : Printed(document[p], built)

VARIABLES
  pages,     \* of each document: its pages
  files,     \* of each path: what is there
  records,   \* of each event directory: what is there
  run,       \* the run of sc sign apply
  runs,      \* how many runs have begun; its number is a run's reference
  kills,
  stray      \* history: paths where a run left what it signed without a record: killed,
             \* interrupted, or stopped as it printed

vars == <<pages, files, records, run, runs, kills, stray>>

\* A build directory, and two folders that no build destroys.
Paths == Docs \X {"out", "staging", "filed"}

NoFile   == [doc |-> "none", drawn |-> {}, stamps |-> << >>]
NoRecord == [retained |-> NoFile, statement |-> NoFile, signature |-> NoFile, meta |-> NoFile]
Idle     == [pc |-> "idle", made |-> NoFile, out |-> << >>, event |-> << >>]

Built(d) == [doc |-> d, drawn |-> {}, stamps |-> << >>]

Events == Docs \X (1 .. MaxRuns)

Init ==
  /\ pages \in [Docs -> Documents]
  /\ files = [p \in Paths |-> IF p[2] = "out" THEN Built(p[1]) ELSE NoFile]
  /\ records = [e \in Events |-> NoRecord]
  /\ run = Idle /\ runs = 0 /\ kills = 0 /\ stray = {}

-----------------------------------------------------------------------------
\* A blank is written to unless its text is empty, as that of a place is.
Written(slots) == {s \in slots : s.slot.role # "place"}

Drawn(slots, wanted) ==
  {[page |-> s.page, line |-> s.slot.line, pos |-> s.slot.pos, role |-> s.slot.role,
    by |-> wanted] : s \in Written(slots)}

\* The event directory bears the date, the document and the reference.
Event(d, n) == <<d, n>>

\* request, as far as the document is drawn and stamped in memory.  Refused, and
\* without effect: no signature line of the signer, the input as output, a build
\* directory; a mark or a page that cannot be drawn is another such end.
Apply(in, out, wanted) ==
  /\ run.pc = "idle" /\ runs < MaxRuns
  /\ files[in] # NoFile
  /\ out # in /\ out[2] # "out"
  /\ LET mine == Mine(Discover(pages[files[in].doc]), wanted) IN
       /\ \E s \in mine : s.slot.role = "mark"
       /\ run' = [pc |-> "save", out |-> out, event |-> Event(out[1], runs + 1),
                  made |-> [doc |-> files[in].doc, drawn |-> files[in].drawn \cup Drawn(mine, wanted),
                            stamps |-> Append(files[in].stamps, runs + 1)]]
  /\ runs' = runs + 1
  /\ UNCHANGED <<pages, files, records, kills, stray>>

\* doc.save: whatever else is at the destination is replaced.
Save ==
  /\ run.pc = "save"
  /\ files' = [files EXCEPT ![run.out] = run.made]
  /\ stray' = stray \ {run.out}
  /\ run' = [run EXCEPT !.pc = "print"]
  /\ UNCHANGED <<pages, records, runs, kills>>

\* The folder cannot be made, or the save breaks off: what is left of a PDF that
\* was cut off is none.
SaveFails ==
  /\ run.pc = "save"
  /\ files' \in {files, [files EXCEPT ![run.out] = NoFile]}
  /\ run' = Idle
  /\ UNCHANGED <<pages, records, runs, kills, stray>>

\* The pages without a stamp, and what was left blank for whom, are printed.
Report ==
  /\ run.pc = "print"
  /\ run' = [run EXCEPT !.pc = "retain"]
  /\ UNCHANGED <<pages, files, records, runs, kills, stray>>

\* The output is closed, or cannot encode a name: outside the try that would take
\* the artifact away again.
ReportFails ==
  /\ run.pc = "print"
  /\ run' = Idle /\ stray' = stray \cup {run.out}
  /\ UNCHANGED <<pages, files, records, runs, kills>>

\* audit.write: the directory and the retained copy.
Retain ==
  /\ run.pc = "retain" /\ files[run.out] # NoFile
  /\ records' = [records EXCEPT ![run.event].retained = files[run.out]]
  /\ run' = [run EXCEPT !.pc = "statement"]
  /\ UNCHANGED <<pages, files, runs, kills, stray>>

\* Slip: the statement is about the file that was signed, not the retained one.
DigestSlip == files[run.out]

Digest == records[run.event].retained

WriteStatement ==
  /\ run.pc = "statement"
  /\ records' = [records EXCEPT ![run.event].statement = Digest]
  /\ run' = [run EXCEPT !.pc = "clearsign"]
  /\ UNCHANGED <<pages, files, runs, kills, stray>>

\* gpg signs the statement; a time stamp may follow.
Clearsign ==
  /\ run.pc = "clearsign"
  /\ records' = [records EXCEPT ![run.event].signature = records[run.event].statement]
  /\ run' = [run EXCEPT !.pc = "meta"]
  /\ UNCHANGED <<pages, files, runs, kills, stray>>

\* gpg fails: the directory goes, and the signed artifact too.
ClearsignFails ==
  /\ run.pc = "clearsign"
  /\ records' = [records EXCEPT ![run.event] = NoRecord]
  /\ files' = [files EXCEPT ![run.out] = NoFile]
  /\ run' = Idle
  /\ UNCHANGED <<pages, runs, kills, stray>>

WriteMeta ==
  /\ run.pc = "meta"
  /\ records' = [records EXCEPT ![run.event].meta = records[run.event].retained]
  /\ run' = Idle
  /\ UNCHANGED <<pages, files, runs, kills, stray>>

\* Slip: nothing is cleaned up but what gpg's failure leaves.
FailSlip ==
  /\ run.pc \in {"retain", "statement", "clearsign", "meta"}
  /\ run' = Idle
  /\ UNCHANGED <<pages, files, records, runs, kills, stray>>

\* Any other failure (no artifact to copy, no room): the artifact goes, and
\* what there is of the record stays.
Fail ==
  /\ run.pc \in {"retain", "statement", "clearsign", "meta"}
  /\ files' = [files EXCEPT ![run.out] = NoFile]
  /\ run' = Idle
  /\ UNCHANGED <<pages, records, runs, kills, stray>>

\* A kill, and Ctrl-C at the passphrase: no Exception, so nothing is undone.
Kill ==
  /\ run.pc # "idle" /\ kills < MaxKills
  /\ kills' = kills + 1 /\ run' = Idle
  /\ \/ /\ run.pc = "save" /\ files' \in {files, [files EXCEPT ![run.out] = NoFile]}
        /\ UNCHANGED stray
     \/ run.pc # "save" /\ stray' = stray \cup {run.out} /\ UNCHANGED files
  /\ UNCHANGED <<pages, records, runs>>

\* The signed artifact is filed, renamed or removed by its owner.
Withdraw(p) ==
  /\ files[p] # NoFile /\ p[2] # "out"
  /\ files' = [files EXCEPT ![p] = NoFile]
  /\ UNCHANGED <<pages, records, run, runs, kills, stray>>

Next ==
  \/ \E in, out \in Paths, n \in Names :
       \/ Apply(in, out, {n})                             \* --name
       \/ \E b \in Names \ {n} : Apply(in, out, {n, b})   \* --block
  \/ Save \/ SaveFails \/ Report \/ ReportFails
  \/ Retain \/ WriteStatement \/ Clearsign \/ ClearsignFails \/ WriteMeta
  \/ Fail \/ Kill
  \/ \E p \in Paths : Withdraw(p)

Spec == Init /\ [][Next]_vars

-----------------------------------------------------------------------------
\* What there is: on the disk, in the records, and about to be saved.
Contents == {files[p] : p \in Paths} \cup {records[e].retained : e \in Events} \cup {run.made}

TypeOK ==
  /\ runs \in 0 .. MaxRuns /\ kills \in 0 .. MaxKills
  /\ \A f \in Contents :
       /\ f = NoFile \/ f.doc \in Docs
       /\ Range(f.stamps) \subseteq 1 .. runs
       /\ f.drawn # {} <=> f.stamps # << >>
  /\ \A e \in Events : records[e].retained = NoFile => records[e] = NoRecord
  /\ stray \subseteq Paths
  /\ run.pc \in {"idle", "save", "print", "retain", "statement", "clearsign", "meta"}
  /\ run.pc # "idle" => /\ run.out \in Docs \X {"staging", "filed"} /\ run.event \in Events
                        /\ run.event[2] = runs

\* The line a mark was drawn on.
LineOf(f, d) == pages[f.doc][d.page][d.line]

\* "A signature on somebody else's line", above all a judge's, "is the worst
\* thing this code could do": what is filled in is in a block of the signer.
OnlyTheirOwn ==
  \A f \in Contents : \A d \in f.drawn : LineOf(f, d).of \in d.by

\* "It would have signed a will and left it undated": who signs a block fills
\* all its blanks, each with what it wants.
FilledWhole ==
  \A f \in Contents : \A d \in f.drawn :
    d.role = "mark" =>
      \A i \in DOMAIN pages[f.doc][d.page] :
        LET line == pages[f.doc][d.page][i] IN
        line.of = LineOf(f, d).of =>
          \A q \in DOMAIN line.wants : line.wants[q] # "place" =>
            {e.role : e \in {x \in f.drawn : x.page = d.page /\ x.line = i /\ x.pos = q}}
              = {line.wants[q]}

\* An attestation that has its attestation.json names by both digests, under
\* gpg's signature, the bytes that are retained beside it, and they bear its
\* reference.
AttestedWhole ==
  \A e \in Events : LET r == records[e] IN
    r.meta # NoFile => /\ r.meta = r.retained /\ r.signature = r.retained
                       /\ r.statement = r.retained
                       /\ r.retained.stamps # << >> /\ Last(r.retained.stamps) = e[2]

\* An attestation stays as it was made, whatever becomes of the artifact, of
\* later runs for the same document, and of those that fail.
RecordsStay ==
  [][\A e \in Events : records[e].meta # NoFile => records'[e] = records[e]]_vars

Orphan(p) ==
  files[p].stamps # << >>
    /\ ~\E e \in Events : records[e].meta # NoFile /\ records[e].retained = files[p]

\* "If the attestation cannot be completed, the signed artifact must not
\* survive": whatever step failed, in the save or in the attestation.  What has no
\* record was left by a run that was killed or interrupted, or that stopped as it
\* printed, and nothing has taken its place since.
NoOrphan == run.pc = "idle" => \A p \in Paths : Orphan(p) => p \in stray

\* The same without exception, as the comment has it.  It does not hold.
NeverOrphaned == run.pc = "idle" => \A p \in Paths : ~Orphan(p)
=============================================================================
