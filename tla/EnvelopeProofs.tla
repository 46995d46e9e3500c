--------------------------- MODULE EnvelopeProofs ---------------------------
(***************************************************************************)
(* Theorems about Envelope, for any envelopes, any number of renderers,    *)
(* and inputs that are saved, restored and lost while a build runs.  What  *)
(* the manifest says of a source is about jobs that read their inputs at   *)
(* different times, none of them the time of the record: between the plan  *)
(* and the record, each job of a source is still queued, or has read what  *)
(* is there now, or has written what is there now, or the source is late.  *)
(* That a build comes to rest is about what it has still to come to: each  *)
(* entry of the envelope is fresh or to come, whatever step was the last.  *)
(***************************************************************************)
EXTENDS Envelope, SequenceTheorems, FiniteSetTheorems, TLAPS

\* Jobs, by the kind of their entry.
IsJob(j) ==
  /\ j = <<j[1], j[2]>> /\ j[1] \in Entries /\ j[2] \in {"pdf", "docx", "txt", "cache", "dest"}
  /\ j[2] \in {"pdf", "docx"} => IsRendered(j[1])
  /\ j[2] = "txt" => IsText(j[1])
  /\ j[2] \in {"cache", "dest"} => Kind[j[1]] = "redacted"

Plans == [entry : Entries, defaults : Nat, seen : BOOLEAN, late : BOOLEAN]
Jobs  == {j \in Entries \X {"pdf", "docx", "txt", "cache", "dest"} : IsJob(j)}

\* A build is a record of these fields, whatever is in those that do not matter.
IsRun(r) ==
  r \in [pc : {r.pc}, targets : {r.targets}, opts : {r.opts}, force : BOOLEAN, doc : BOOLEAN,
         todo : {r.todo}, queue : Seq(Jobs), busy : {r.busy}, plan : Seq(Plans),
         ok : BOOLEAN, calm : BOOLEAN]

Shape ==
  /\ clock \in Nat /\ time \in [Inputs -> Int] /\ time[Defaults] \in Nat
  /\ DOMAIN out = AllPaths /\ manifest = [s \in Sources |-> manifest[s]]
  /\ \A s \in Sources : manifest[s].defaults \in Nat \cup {-1}
  /\ IsRun(run)
  /\ DOMAIN run.busy \subseteq Jobs

\* Where in a build there is a plan, and a redaction.
Staged ==
  /\ run.pc \in {"idle", "copy", "redact"} => run.plan = << >>
  /\ run.pc = "record" => run.queue = << >> /\ DOMAIN run.busy = {}
  /\ run.pc = "record" /\ run.plan # << >> => run.ok
  /\ \A j \in DOMAIN run.busy : j[2] = "cache" => run.pc = "redact"
  /\ \A j \in ToSet(run.queue) : j[2] # "cache"

\* What the manifest recorded of an artifact.
Matches(a, entry) ==
  /\ a.of = entry.of /\ a.final = entry.final /\ a.variant = entry.variant
  /\ a.defaults = entry.defaults

Artifact(s, part) == out[<<s[1], s[2], s[3], part>>]
Rendered == {s \in Sources : IsRendered(s[3])}

Recorded ==
  \A s \in Rendered \ (torn \cup raced) : \A part \in Parts(s[3]) :
    \/ Artifact(s, part) = Absent
    \/ manifest[s] # None /\ (manifest[s].of = << >> \/ Matches(Artifact(s, part), manifest[s]))

\* Read or rendered from the files as they are, under the options of the build and
\* the defaults as they were when the source was planned.
Current(a, p) ==
  /\ a.of = Fingerprint(p.entry) /\ a.final = run.opts.final /\ a.variant = run.opts.variant
  /\ a.defaults = p.defaults

\* How far a job of a planned source has come.
Stands(j, p) ==
  \/ j \in ToSet(run.queue)
  \/ j \in DOMAIN run.busy /\ Current(run.busy[j], p)
  \/ /\ j \notin DOMAIN run.busy
     /\ \A part \in Written(p.entry, j[2]) :
          LET a == Artifact(<<Env, Here, p.entry>>, part) IN a = Absent \/ Current(a, p)

\* What has still to be read of the defaults of a source that is not late is what was
\* there when it was planned.
Waits(p) == Unended(p.entry) => p.defaults = time[Defaults]

PlanStands(p) ==
  /\ IsRendered(p.entry)
  /\ run.pc = "plan" => ToSet(JobsOf(p.entry)) \subseteq ToSet(run.queue)
  /\ ~p.late => Waits(p)
  /\ ~p.late /\ <<Env, Here, p.entry>> \in Sources =>
       \A j \in ToSet(JobsOf(p.entry)) : Stands(j, p)

Planned == run.ok => \A p \in ToSet(run.plan) : PlanStands(p)

EInv == Shape /\ Staged /\ Recorded /\ Planned

-----------------------------------------------------------------------------
LEMMA JobsOfSource ==
  ASSUME NEW e \in Entries, IsRendered(e)
  PROVE  /\ JobsOf(e) \in Seq(Jobs)
         /\ ToSet(JobsOf(e)) \subseteq {<<e, "pdf">>, <<e, "docx">>}
         /\ \A j \in ToSet(JobsOf(e)) : Written(e, j[2]) \subseteq Parts(e)
         /\ \A part \in Parts(e) : \E j \in ToSet(JobsOf(e)) : part \in Written(e, j[2])
<1>1. <<e, "pdf">> \in Jobs /\ <<e, "docx">> \in Jobs
  BY DEF Jobs, IsJob
<1>2. Kind[e] \in {"pdf", "docx", "noticed"}
  BY DEF IsRendered, RenderedKinds
<1>3. CASE Kind[e] = "docx"
  <2>1. JobsOf(e) = << <<e, "pdf">>, <<e, "docx">> >>
    BY <1>3 DEF JobsOf
  <2>2. ToSet(JobsOf(e)) = {<<e, "pdf">>, <<e, "docx">>}
    BY <2>1 DEF ToSet
  <2>3. Parts(e) = {"pdf", "docx"}
    BY <1>3 DEF Parts
  <2>4. Written(e, "pdf") = {"pdf"} /\ Written(e, "docx") = {"docx"}
    BY <2>3 DEF Written
  <2> QED
    BY <1>1, <2>1, <2>2, <2>3, <2>4
<1>4. CASE Kind[e] # "docx"
  <2>1. JobsOf(e) = << <<e, "pdf">> >>
    BY <1>4 DEF JobsOf
  <2>2. ToSet(JobsOf(e)) = {<<e, "pdf">>}
    BY <2>1 DEF ToSet
  <2>3. Parts(e) \in {{"pdf"}, {"pdf", "notice"}}
    BY <1>2, <1>4 DEF Parts
  <2>4. Written(e, "pdf") = Parts(e)
    BY <2>3 DEF Written
  <2> QED
    BY <1>1, <2>1, <2>2, <2>4
<1> QED
  BY <1>3, <1>4

LEMMA PdfJob ==
  ASSUME NEW e \in Entries
  PROVE  <<e, "pdf">> \in ToSet(JobsOf(e))
<1>1. JobsOf(e)[1] = <<e, "pdf">> /\ 1 \in DOMAIN JobsOf(e)
  BY DEF JobsOf
<1> QED
  BY <1>1 DEF ToSet

\* The job that writes a part of a source is one.
LEMMA WrittenApart ==
  ASSUME NEW e \in Entries, IsRendered(e), NEW j \in ToSet(JobsOf(e)),
         NEW k \in Jobs, k[1] = e, k # j
  PROVE  Written(e, j[2]) \cap Written(e, k[2]) = {}
<1>1. j \in {<<e, "pdf">>, <<e, "docx">>}
  BY JobsOfSource
<1>2. k = <<e, k[2]>> /\ k[2] \in {"pdf", "docx"}
  BY DEF Jobs, IsJob, IsRendered, IsText, RenderedKinds, TextKinds
<1> QED
  BY <1>1, <1>2 DEF Written

LEMMA PathsApart ==
  ASSUME NEW s \in Rendered, NEW part \in Parts(s[3]), NEW n, NEW v, NEW e \in Entries
  PROVE  /\ <<s[1], s[2], s[3], part>> \in AllPaths
         /\ <<s[1], s[2], s[3], part>> \in Paths(n, v, e) => s = <<n, v, e>>
<1>1. s \in Sources /\ s = <<s[1], s[2], s[3]>> /\ ~IsText(s[3])
  BY DEF Rendered, Sources, IsRendered, IsText, RenderedKinds, TextKinds
<1>2. <<s[1], s[2], s[3], part>> \in Paths(s[1], s[2], s[3])
  BY <1>1 DEF Paths, Dir
<1>3. <<s[1], s[2], s[3], part>> \in Paths(n, v, e) => s[1] = n /\ s[3] = e /\ s[2] = Dir(e, v)
  BY DEF Paths
<1> QED
  BY <1>1, <1>2, <1>3 DEF AllPaths, Dir

-----------------------------------------------------------------------------
LEMMA ToSetIn ==
  ASSUME NEW S, NEW s \in Seq(S)
  PROVE  ToSet(s) \subseteq S
BY ElementOfSeq, LenProperties DEF ToSet

LEMMA NothingIn == ToSet(<< >>) = {}
BY DEF ToSet

LEMMA TailSet ==
  ASSUME NEW S, NEW s \in Seq(S), s # << >>
  PROVE  /\ Head(s) \in S /\ Tail(s) \in Seq(S)
         /\ ToSet(s) = {Head(s)} \cup ToSet(Tail(s))
<1>1. /\ Head(s) \in S /\ Tail(s) \in Seq(S) /\ Len(Tail(s)) = Len(s) - 1 /\ Head(s) = s[1]
      /\ \A i \in 1 .. Len(Tail(s)) : Tail(s)[i] = s[i + 1]
  BY HeadTailProperties
<1>2. /\ Len(s) \in Nat \ {0} /\ DOMAIN s = 1 .. Len(s) /\ DOMAIN Tail(s) = 1 .. Len(s) - 1
  BY <1>1, LenProperties, EmptySeq
<1>3. \A i \in DOMAIN s : i = 1 \/ (i - 1 \in DOMAIN Tail(s) /\ Tail(s)[i - 1] = s[i])
  BY <1>1, <1>2
<1>4. \A i \in DOMAIN Tail(s) : i + 1 \in DOMAIN s /\ s[i + 1] = Tail(s)[i]
  BY <1>1, <1>2
<1>5. 1 \in DOMAIN s
  BY <1>2
<1>6. ASSUME NEW x \in ToSet(s), x # Head(s) PROVE x \in ToSet(Tail(s))
  <2>1. PICK i \in DOMAIN s : x = s[i]
    BY DEF ToSet
  <2>2. i - 1 \in DOMAIN Tail(s) /\ Tail(s)[i - 1] = x
    BY <1>1, <1>3, <1>6, <2>1
  <2> QED
    BY <2>2 DEF ToSet
<1>7. Head(s) \in ToSet(s)
  BY <1>1, <1>5 DEF ToSet
<1>8. ToSet(Tail(s)) \subseteq ToSet(s)
  BY <1>4 DEF ToSet
<1> QED
  BY <1>1, <1>6, <1>7, <1>8

LEMMA AppendSet ==
  ASSUME NEW S, NEW s \in Seq(S), NEW x \in S
  PROVE  Append(s, x) \in Seq(S) /\ ToSet(Append(s, x)) \subseteq ToSet(s) \cup {x}
<1>1. /\ Append(s, x) \in Seq(S) /\ Len(Append(s, x)) = Len(s) + 1
      /\ \A i \in 1 .. Len(s) : Append(s, x)[i] = s[i]
      /\ Append(s, x)[Len(s) + 1] = x
  BY AppendProperties
<1>2. /\ Len(s) \in Nat /\ DOMAIN s = 1 .. Len(s) /\ DOMAIN Append(s, x) = 1 .. Len(s) + 1
  BY <1>1, LenProperties
<1>3. \A i \in DOMAIN Append(s, x) : i = Len(s) + 1 \/ i \in DOMAIN s
  BY <1>2
<1> QED
  BY <1>1, <1>2, <1>3 DEF ToSet

LEMMA ConcatSet ==
  ASSUME NEW S, NEW s \in Seq(S), NEW t \in Seq(S)
  PROVE  s \o t \in Seq(S) /\ ToSet(s \o t) = ToSet(s) \cup ToSet(t)
<1>1. /\ s \o t \in Seq(S) /\ Len(s \o t) = Len(s) + Len(t)
      /\ \A i \in 1 .. Len(s) + Len(t) :
           (s \o t)[i] = IF i <= Len(s) THEN s[i] ELSE t[i - Len(s)]
  BY ConcatProperties
<1>2. /\ Len(s) \in Nat /\ DOMAIN s = 1 .. Len(s) /\ Len(t) \in Nat /\ DOMAIN t = 1 .. Len(t)
      /\ DOMAIN (s \o t) = 1 .. Len(s) + Len(t)
  BY <1>1, LenProperties
<1>3. \A i \in DOMAIN (s \o t) :
        \/ i \in DOMAIN s /\ (s \o t)[i] = s[i]
        \/ i - Len(s) \in DOMAIN t /\ (s \o t)[i] = t[i - Len(s)]
  BY <1>1, <1>2
<1>4. \A i \in DOMAIN s : i \in DOMAIN (s \o t) /\ (s \o t)[i] = s[i]
  BY <1>1, <1>2
<1>5. \A i \in DOMAIN t : i + Len(s) \in DOMAIN (s \o t) /\ (s \o t)[i + Len(s)] = t[i]
  BY <1>1, <1>2
<1>6. ASSUME NEW x \in ToSet(s \o t) PROVE x \in ToSet(s) \cup ToSet(t)
  <2>1. PICK i \in DOMAIN (s \o t) : x = (s \o t)[i]
    BY <1>6 DEF ToSet
  <2> QED
    BY <1>3, <2>1 DEF ToSet
<1>7. ToSet(s) \subseteq ToSet(s \o t)
  BY <1>4 DEF ToSet
<1>8. ToSet(t) \subseteq ToSet(s \o t)
  <2> SUFFICES ASSUME NEW i \in DOMAIN t PROVE t[i] \in ToSet(s \o t)
    BY DEF ToSet
  <2> QED
    BY <1>5 DEF ToSet
<1> QED
  BY <1>1, <1>6, <1>7, <1>8

-----------------------------------------------------------------------------
\* What was recorded stands: artifacts only disappear.
LEMMA RecordedKept ==
  ASSUME Shape, Recorded, UNCHANGED manifest, torn \subseteq torn',
         \A s \in Rendered : s \in raced => s \in raced',
         \A s \in Rendered \ (torn' \cup raced) : \A part \in Parts(s[3]) :
           Artifact(s, part)' \in {Artifact(s, part), Absent}
  PROVE  Recorded'
<1> SUFFICES ASSUME NEW s \in Rendered \ (torn' \cup raced), NEW part \in Parts(s[3]),
                    Artifact(s, part)' # Absent
             PROVE  manifest[s] # None /\
                      (manifest[s].of = << >> \/ Matches(Artifact(s, part), manifest[s])')
  BY DEF Recorded
<1>1. Artifact(s, part)' = Artifact(s, part) /\ s \in Rendered \ (torn \cup raced)
  OBVIOUS
<1>2. manifest[s] # None /\ (manifest[s].of = << >> \/ Matches(Artifact(s, part), manifest[s]))
  BY <1>1 DEF Recorded
<1>3. Matches(Artifact(s, part), manifest[s]) => Matches(Artifact(s, part), manifest[s])'
  BY <1>1 DEF Matches
<1> QED
  BY <1>1, <1>2, <1>3

LEMMA ShapeKept ==
  ASSUME Shape, IsRun(run'), DOMAIN run'.busy \subseteq Jobs, UNCHANGED <<clock, time, manifest>>,
         DOMAIN out' = AllPaths
  PROVE  Shape'
BY DEF Shape, IsRun

\* The jobs of the plan, and what they read and wrote, are where they were.
LEMMA PlannedKept ==
  ASSUME EInv, run'.ok => run.ok, run'.opts = run.opts, run'.targets = run.targets,
         run'.plan = run.plan, UNCHANGED time, run'.pc = "plan" => run.pc = "plan",
         \A j \in Jobs : j[2] \in {"pdf", "docx"} =>
           /\ j \in ToSet(run.queue) <=> j \in ToSet(run'.queue)
           /\ j \in DOMAIN run.busy <=> j \in DOMAIN run'.busy
           /\ j \in DOMAIN run.busy => run'.busy[j] = run.busy[j],
         \A s \in Rendered : \A part \in Parts(s[3]) :
           Artifact(s, part)' \in {Artifact(s, part), Absent}
  PROVE  Planned'
<1> SUFFICES ASSUME run'.ok, NEW p \in ToSet(run.plan) PROVE PlanStands(p)'
  BY DEF Planned
<1>1. PlanStands(p) /\ p \in Plans
  BY ToSetIn DEF EInv, Planned, Shape, IsRun
<1>0. /\ Waits(p) => Waits(p)'
      /\ run'.pc = "plan" => ToSet(JobsOf(p.entry)) \subseteq ToSet(run'.queue)
  <2>1. \A j \in ToSet(JobsOf(p.entry)) : j \in Jobs /\ j[2] \in {"pdf", "docx"}
    BY <1>1, JobsOfSource, ToSetIn DEF PlanStands, Plans
  <2> QED
    BY <1>1, <2>1 DEF PlanStands, Waits, Unended
<1> SUFFICES ASSUME ~p.late, <<Env, Here, p.entry>> \in Sources, NEW j \in ToSet(JobsOf(p.entry))
             PROVE  Stands(j, p)'
  BY <1>0, <1>1 DEF PlanStands, Env, Here
<1>2. Stands(j, p) /\ IsRendered(p.entry) /\ p.entry \in Entries
  BY <1>1 DEF PlanStands, Plans
<1>3. j \in Jobs /\ j[2] \in {"pdf", "docx"} /\ Written(p.entry, j[2]) \subseteq Parts(p.entry)
  BY <1>2, JobsOfSource, ToSetIn
<1>4. <<Env, Here, p.entry>> \in Rendered
  BY <1>2 DEF Rendered
<1>5. \A a : Current(a, p)' <=> Current(a, p)
  BY <1>1 DEF Current, Fingerprint
<1>6. \A part : Artifact(<<Env, Here, p.entry>>, part)' = out'[<<Env, Here, p.entry, part>>]
  BY <1>1 DEF Artifact, Env, Here
<1> QED
  BY <1>1, <1>2, <1>3, <1>4, <1>5, <1>6 DEF Stands, Artifact, Env, Here

-----------------------------------------------------------------------------
\* Steps that begin or end a build, or an envelope of it: the plan is empty.
LEMMA NoPlanStep ==
  ASSUME EInv, IsRun(run'), run'.plan = << >>, DOMAIN run'.busy = {}, run'.pc # "record",
         \A j \in ToSet(run'.queue) : j[2] # "cache",
         UNCHANGED <<clock, time, out, manifest, torn, raced>>
  PROVE  EInv'
<1>1. Shape'
  BY ShapeKept DEF EInv, Shape
<1>2. Staged' /\ Planned'
  BY NothingIn DEF Staged, Planned
<1>3. Recorded'
  BY RecordedKept DEF EInv, Shape, Artifact
<1> QED
  BY <1>1, <1>2, <1>3 DEF EInv

LEMMA IdleType ==
  /\ IsRun(Idle) /\ Idle.pc = "idle" /\ Idle.plan = << >> /\ DOMAIN Idle.busy = {}
  /\ ToSet(Idle.queue) = {}
<1>1. << >> \in Seq(Jobs) /\ << >> \in Seq(Plans) /\ DOMAIN << >> = {}
  BY EmptySeq
<1> QED
  BY <1>1, NothingIn DEF IsRun, Idle

\* One step of a build that leaves what is out and what is recorded alone.
LEMMA QuietStep ==
  ASSUME EInv, IsRun(run'), UNCHANGED <<clock, time, out, manifest, torn, raced>>,
         DOMAIN run'.busy \subseteq Jobs, Staged',
         run'.ok => run.ok, run'.opts = run.opts, run'.targets = run.targets,
         run'.plan = run.plan, run'.pc = "plan" => run.pc = "plan",
         \A j \in Jobs : j[2] \in {"pdf", "docx"} =>
           /\ j \in ToSet(run.queue) <=> j \in ToSet(run'.queue)
           /\ j \in DOMAIN run.busy <=> j \in DOMAIN run'.busy
           /\ j \in DOMAIN run.busy => run'.busy[j] = run.busy[j]
  PROVE  EInv'
<1>1. Shape'
  BY ShapeKept DEF EInv, Shape
<1>2. Recorded'
  BY RecordedKept DEF EInv, Shape, Artifact
<1>3. Planned'
  BY PlannedKept DEF Artifact
<1> QED
  BY <1>1, <1>2, <1>3 DEF EInv

LEMMA InitHolds == Init => EInv
<1> SUFFICES ASSUME Init PROVE EInv
  OBVIOUS
<1>1. Shape
  BY IdleType DEF Init, Shape, None, Inputs
<1>2. Staged /\ Planned
  BY IdleType, NothingIn DEF Init, Staged, Planned
<1>3. Recorded
  BY PathsApart DEF Init, Recorded, Artifact, Rendered, Sources
<1> QED
  BY <1>1, <1>2, <1>3 DEF EInv

LEMMA BeginStep ==
  ASSUME EInv, NEW asked, NEW all, NEW o, NEW force \in BOOLEAN, Begin(asked, all, o, force)
  PROVE  EInv'
<1>1. /\ run'.plan = << >> /\ run'.busy = << >> /\ run'.pc = "plan" /\ IsRun(run')
      /\ run'.queue = << >>
  BY IdleType DEF Begin, Idle, IsRun
<1> QED
  BY <1>1, NothingIn, NoPlanStep DEF Begin, world, observed

LEMMA BeginDocStep ==
  ASSUME EInv, NEW e, NEW o, NEW force \in BOOLEAN, BeginDoc(e, o, force)
  PROVE  EInv'
<1>1. /\ run'.plan = << >> /\ run'.busy = << >> /\ run'.pc = "plan" /\ IsRun(run')
      /\ run'.queue = << >>
  BY IdleType DEF BeginDoc, Idle, IsRun
<1> QED
  BY <1>1, NothingIn, NoPlanStep DEF BeginDoc, world, observed

LEMMA StopStep ==
  ASSUME EInv, Stop
  PROVE  EInv'
BY IdleType, NoPlanStep DEF Stop, world, observed

LEMMA NextEnvelopeStep ==
  ASSUME EInv, NextEnvelope
  PROVE  EInv'
<1>1. run.plan = << >> /\ DOMAIN run.busy = {}
  <2>1. DOMAIN << >> = {}
    OBVIOUS
  <2> QED
    BY <2>1 DEF NextEnvelope, EInv, Staged
<1>2. CASE run' = Idle
  BY <1>2, IdleType, NoPlanStep DEF NextEnvelope, world
<1>3. CASE run' # Idle
  <2>1. run' = [run EXCEPT !.pc = "plan", !.targets = Tail(@), !.ok = TRUE,
                           !.calm = TRUE, !.todo = Of(Head(Tail(run.targets)), SourceKinds)]
    BY <1>3 DEF NextEnvelope
  <2>2. /\ IsRun(run') /\ run'.plan = << >> /\ DOMAIN run'.busy = {} /\ run'.pc = "plan"
        /\ run'.queue = run.queue
    BY <1>1, <2>1 DEF EInv, Shape, IsRun
  <2> QED
    BY <2>2, NoPlanStep DEF NextEnvelope, world, EInv, Staged
<1> QED
  BY <1>2, <1>3

LEMMA AdvanceStep ==
  ASSUME EInv, Advance
  PROVE  EInv'
<1> DEFINE Kept == /\ run'.ok = run.ok /\ run'.opts = run.opts /\ run'.targets = run.targets
                   /\ run'.queue = run.queue /\ run'.busy = run.busy
<1>1. UNCHANGED <<clock, time, out, manifest, torn, raced>> /\ DOMAIN run.busy = {}
  BY DEF Advance, world, observed
<1>2. CASE run.pc = "plan"
  <2>1. run' = [run EXCEPT !.pc = "render"]
    BY <1>2 DEF Advance, Stage
  <2>2. Kept /\ run'.plan = run.plan /\ run'.pc = "render" /\ IsRun(run')
    BY <2>1 DEF EInv, Shape, IsRun
  <2> QED
    BY <1>1, <2>2, QuietStep DEF Staged, EInv, Shape
<1>3. CASE run.pc = "render"
  <2>1. run' = [run EXCEPT !.pc = "record", !.plan = IF run.ok THEN @ ELSE << >>]
    BY <1>3 DEF Advance, Stage
  <2>2. /\ Kept /\ run'.plan = (IF run.ok THEN run.plan ELSE << >>) /\ run'.pc = "record"
        /\ IsRun(run') /\ run.queue = << >>
    <3>1. (IF run.ok THEN run.plan ELSE << >>) \in Seq(Plans)
      BY EmptySeq DEF EInv, Shape, IsRun
    <3>2. run.queue = << >>
      BY <1>3 DEF Advance
    <3> DEFINE plan == IF run.ok THEN run.plan ELSE << >>
    <3>3. run' = [run EXCEPT !.pc = "record", !.plan = plan]
      BY <2>1 DEF EInv, Shape, IsRun
    <3> HIDE DEF plan
    <3>4. Kept /\ run'.plan = plan /\ run'.pc = "record" /\ IsRun(run')
      BY <3>1, <3>3 DEF EInv, Shape, IsRun, plan
    <3> QED
      BY <3>2, <3>4 DEF plan
  <2>3. Staged'
    BY <1>1, <2>2, NothingIn DEF Staged
  <2>4. Shape' /\ Recorded'
    BY <1>1, <2>2, ShapeKept, RecordedKept DEF EInv, Shape, Artifact
  <2>5. Planned'
    <3>1. CASE run.ok
      BY <1>1, <2>2, <3>1, PlannedKept DEF Artifact
    <3>2. CASE ~run.ok
      BY <2>2, <3>2 DEF Planned
    <3> QED
      BY <3>1, <3>2
  <2> QED
    BY <2>3, <2>4, <2>5 DEF EInv
<1>4. CASE run.pc \in {"record", "copy"}
  <2>1. \E todo : run' = [run EXCEPT !.pc = "copy", !.todo = todo] \/ run' = [run EXCEPT !.pc = "redact", !.todo = todo]
    BY <1>4 DEF Advance, Stage
  <2>2. run.plan = << >>
    BY <1>4 DEF EInv, Staged, Advance
  <2>3. /\ run'.plan = << >> /\ run'.busy = run.busy /\ run'.pc # "record" /\ IsRun(run')
        /\ run'.queue = run.queue
    BY <2>1, <2>2 DEF EInv, Shape, IsRun
  <2> QED
    BY <1>1, <2>3, NoPlanStep DEF EInv, Staged
<1> QED
  BY <1>2, <1>3, <1>4 DEF Advance

LEMMA PlanTextStep ==
  ASSUME EInv, NEW e \in Entries, PlanText(e)
  PROVE  EInv'
<1>1. /\ UNCHANGED <<clock, time, out, manifest, torn, raced>> /\ run.pc = "plan" /\ IsText(e)
      /\ DOMAIN run.busy = {}
  <2>1. DOMAIN << >> = {}
    OBVIOUS
  <2> QED
    BY <2>1 DEF PlanText, world, observed
<1>2. \/ run' = [run EXCEPT !.todo = Tail(@), !.busy = Put(<< >>, <<e, "txt">>, Snapshot(e))]
      \/ run' = [run EXCEPT !.todo = Tail(@)]
  BY DEF PlanText
<1>3. <<e, "txt">> \in Jobs
  BY <1>1 DEF Jobs, IsJob, IsText, TextKinds
<1>4. DOMAIN Put(<< >>, <<e, "txt">>, Snapshot(e)) = {<<e, "txt">>}
  BY DEF Put
<1>5. /\ IsRun(run') /\ run'.pc = "plan" /\ run'.ok = run.ok /\ run'.opts = run.opts
      /\ run'.targets = run.targets /\ run'.plan = run.plan /\ run'.queue = run.queue
      /\ DOMAIN run'.busy \subseteq {<<e, "txt">>}
  BY <1>1, <1>2, <1>4 DEF EInv, Shape, IsRun
<1>6. Staged'
  BY <1>5 DEF Staged, EInv
<1> QED
  BY <1>1, <1>3, <1>5, <1>6, QuietStep

LEMMA PlanPdfStep ==
  ASSUME EInv, NEW e \in Entries, PlanPdf(e)
  PROVE  EInv'
<1>1. /\ UNCHANGED <<clock, time, out, manifest, torn, raced>> /\ run.pc = "plan" /\ IsRendered(e)
  BY DEF PlanPdf, world, observed
<1>2. CASE run' = [run EXCEPT !.todo = Tail(@)]
  <2>1. /\ IsRun(run') /\ run'.pc = "plan" /\ run'.ok = run.ok /\ run'.opts = run.opts
        /\ run'.targets = run.targets /\ run'.plan = run.plan /\ run'.queue = run.queue
        /\ run'.busy = run.busy
    BY <1>1, <1>2 DEF EInv, Shape, IsRun
  <2>2. Staged' /\ DOMAIN run'.busy \subseteq Jobs
    BY <1>1, <2>1 DEF Staged, EInv, Shape
  <2> QED
    BY <1>1, <2>1, <2>2, QuietStep
<1>3. CASE run' # [run EXCEPT !.todo = Tail(@)]
  <2> DEFINE p == [entry |-> e, defaults |-> time[Defaults], seen |-> Inspectable(e), late |-> FALSE]
  <2>1. run' = [run EXCEPT !.todo = Tail(@), !.queue = @ \o JobsOf(e), !.plan = Append(@, p)]
    BY <1>3 DEF PlanPdf
  <2>2. p \in Plans
    BY DEF EInv, Shape, Plans, Inspectable
  <2> HIDE DEF p
  <2>3. /\ JobsOf(e) \in Seq(Jobs) /\ run.queue \in Seq(Jobs) /\ run.plan \in Seq(Plans)
    BY <1>1, JobsOfSource DEF EInv, Shape, IsRun
  <2>4. /\ run.queue \o JobsOf(e) \in Seq(Jobs)
        /\ ToSet(run.queue \o JobsOf(e)) = ToSet(run.queue) \cup ToSet(JobsOf(e))
    BY <2>3, ConcatSet
  <2>5. /\ Append(run.plan, p) \in Seq(Plans)
        /\ ToSet(Append(run.plan, p)) \subseteq ToSet(run.plan) \cup {p}
    BY <2>2, <2>3, AppendSet
  <2>6. p.entry = e /\ p.defaults = time[Defaults]
    BY DEF p
  <2>7. /\ IsRun(run') /\ run'.pc = "plan" /\ run'.ok = run.ok /\ run'.opts = run.opts
        /\ run'.targets = run.targets /\ run'.plan = Append(run.plan, p)
        /\ run'.queue = run.queue \o JobsOf(e) /\ run'.busy = run.busy
    BY <1>1, <2>1, <2>4, <2>5 DEF EInv, Shape, IsRun
  <2>8. Staged'
    <3>1. \A j \in ToSet(JobsOf(e)) : j[2] # "cache"
      BY <1>1, JobsOfSource
    <3> QED
      BY <1>1, <2>4, <2>7, <3>1 DEF Staged, EInv
  <2>9. Shape' /\ Recorded'
    BY <1>1, <2>7, ShapeKept, RecordedKept DEF EInv, Shape, Artifact
  <2>10. Planned'
    <3> SUFFICES ASSUME run'.ok, NEW q \in ToSet(run'.plan) PROVE PlanStands(q)'
      BY DEF Planned
    <3>1. CASE q \in ToSet(run.plan)
      <4>1. PlanStands(q)
        BY <2>7, <3>1 DEF EInv, Planned
      <4>2. \A a : Current(a, q)' <=> Current(a, q)
        BY <1>1, <2>7 DEF Current, Fingerprint
      <4>3. \A j : Stands(j, q) => Stands(j, q)'
        BY <1>1, <2>4, <2>7, <4>2 DEF Stands, Artifact, Env, Here
      <4>4. /\ ToSet(JobsOf(q.entry)) \subseteq ToSet(run.queue)
            /\ ToSet(JobsOf(q.entry)) \subseteq ToSet(run'.queue)
        BY <1>1, <2>4, <2>7, <4>1 DEF PlanStands
      <4>5. Unended(q.entry)
        <5>1. q.entry \in Entries /\ IsRendered(q.entry)
          <6>1. ToSet(run.plan) \subseteq Plans
            BY ToSetIn DEF EInv, Shape, IsRun
          <6> QED
            BY <3>1, <4>1, <6>1 DEF PlanStands, Plans
        <5> QED
          BY <4>4, <5>1, PdfJob DEF Unended
      <4>6. ~q.late => Waits(q)'
        BY <1>1, <4>1, <4>5 DEF PlanStands, Waits
      <4> QED
        BY <1>1, <2>7, <4>1, <4>3, <4>4, <4>6 DEF PlanStands, Env, Here
    <3>2. CASE q = p
      <4>1. \A j \in ToSet(JobsOf(q.entry)) : Stands(j, q)'
        BY <2>4, <2>6, <2>7, <3>2 DEF Stands
      <4>2. q.entry = e /\ q.defaults = time[Defaults]
        BY <2>6, <3>2
      <4>3. ToSet(JobsOf(q.entry)) \subseteq ToSet(run'.queue)
        BY <2>4, <2>7, <4>2
      <4> QED
        BY <1>1, <4>1, <4>2, <4>3 DEF PlanStands, Waits
    <3> QED
      BY <2>5, <2>7, <3>1, <3>2
  <2> QED
    BY <2>8, <2>9, <2>10 DEF EInv
<1> QED
  BY <1>2, <1>3

LEMMA StartJobStep ==
  ASSUME EInv, StartJob
  PROVE  EInv'
<1> DEFINE job == Head(run.queue)
           busy == Put(run.busy, job, Snapshot(job[1]))
<1>1. /\ UNCHANGED <<clock, time, out, manifest, torn, raced>> /\ run.pc = "render"
      /\ run.queue \in Seq(Jobs) /\ run.queue # << >>
  BY DEF StartJob, world, observed, EInv, Shape, IsRun
<1>2. /\ job \in Jobs /\ Tail(run.queue) \in Seq(Jobs)
      /\ ToSet(run.queue) = {job} \cup ToSet(Tail(run.queue))
  BY <1>1, TailSet
<1>3. run' = [run EXCEPT !.queue = Tail(@), !.busy = busy]
  BY DEF StartJob, EInv, Shape, IsRun
<1>4. /\ DOMAIN busy = DOMAIN run.busy \cup {job} /\ busy[job] = Snapshot(job[1])
      /\ \A j \in DOMAIN run.busy : j # job => busy[j] = run.busy[j]
  BY DEF Put
<1>5. /\ job[2] # "cache" \/ Kind[job[1]] = "redacted"
  BY <1>2 DEF Jobs, IsJob
<1> HIDE DEF busy
<1>6. /\ IsRun(run') /\ run'.pc = "render" /\ run'.ok = run.ok /\ run'.opts = run.opts
      /\ run'.targets = run.targets /\ run'.plan = run.plan /\ run'.queue = Tail(run.queue)
      /\ run'.busy = busy
  BY <1>1, <1>2, <1>3 DEF EInv, Shape, IsRun
<1>7. Shape' /\ Recorded'
  BY <1>1, <1>2, <1>4, <1>6, ShapeKept, RecordedKept DEF EInv, Shape, Artifact
<1>8. Staged'
  BY <1>1, <1>2, <1>4, <1>6 DEF Staged, EInv
<1>9. Planned'
  <2> SUFFICES ASSUME run'.ok, NEW q \in ToSet(run.plan) PROVE PlanStands(q)'
    BY <1>6 DEF Planned
  <2>1. PlanStands(q) /\ q \in Plans
    BY <1>6, ToSetIn DEF EInv, Planned, Shape, IsRun
  <2>2. \A a : Current(a, q)' <=> Current(a, q)
    BY <1>1, <1>6 DEF Current, Fingerprint
  <2>3. ASSUME ~q.late, NEW j \in ToSet(JobsOf(q.entry)), Stands(j, q) PROVE Stands(j, q)'
    <3>1. CASE j # job
      BY <1>1, <1>2, <1>4, <1>6, <2>2, <2>3, <3>1 DEF Stands, Artifact, Env, Here
    <3>2. CASE j = job
      <4>1. j[1] = q.entry
        BY <2>1, <2>3, JobsOfSource DEF PlanStands, Plans
      <4>2. q.defaults = time[Defaults]
        BY <1>2, <2>1, <2>3, <3>2 DEF PlanStands, Waits, Unended
      <4>3. Current(Snapshot(j[1]), q)
        BY <4>1, <4>2 DEF Current, Snapshot, Fingerprint, Here
      <4> QED
        BY <1>4, <1>6, <2>2, <3>2, <4>3 DEF Stands
    <3> QED
      BY <3>1, <3>2
  <2>4. Waits(q) => Waits(q)'
    BY <1>1, <1>2, <1>4, <1>6 DEF Waits, Unended
  <2> QED
    BY <1>1, <1>6, <2>1, <2>3, <2>4 DEF PlanStands, Env, Here
<1> QED
  BY <1>7, <1>8, <1>9 DEF EInv

\* What a renderer writes is what it read, and only its source's.
LEMMA FinishJobStep ==
  ASSUME EInv, NEW job \in DOMAIN run.busy, job[2] # "cache", FinishJob(job)
  PROVE  EInv'
<1> DEFINE e == job[1]
           read == run.busy[job]
           made == [of |-> read.of, final |-> read.final, variant |-> read.variant,
                    defaults |-> read.defaults, at |-> clock]
           mine(path) == path \in Paths(Env, Here, e) /\ path[4] \in Written(e, job[2])
<1>1. /\ UNCHANGED <<time, manifest>> /\ clock' = clock + 1
      /\ out' = [path \in AllPaths |-> IF mine(path) THEN made ELSE out[path]]
      /\ run' = [run EXCEPT !.busy = Drop(@, job)]
      /\ torn' = IF IsText(e) THEN torn ELSE torn \cup {<<Env, Dir(e, Here), e>>}
      /\ raced' = raced \/ (IsText(e) /\ raced \ {<<Env, Dir(e, Here), e>>} \subseteq raced')
  BY DEF FinishJob, world
<1>2. job \in Jobs /\ e \in Entries
  BY DEF EInv, Shape, Jobs
<1>3. /\ DOMAIN Drop(run.busy, job) = DOMAIN run.busy \ {job}
      /\ \A j \in DOMAIN run.busy : j # job => Drop(run.busy, job)[j] = run.busy[j]
  BY DEF Drop
<1>4. /\ IsRun(run') /\ run'.pc = run.pc /\ run'.ok = run.ok /\ run'.opts = run.opts
      /\ run'.targets = run.targets /\ run'.plan = run.plan /\ run'.queue = run.queue
      /\ run'.busy = Drop(run.busy, job)
  BY <1>1 DEF EInv, Shape, IsRun
<1>5. \A s \in Rendered : \A part \in Parts(s[3]) :
        /\ Artifact(s, part)' = Artifact(s, part) \/ Artifact(s, part)' = made
        /\ Artifact(s, part)' # Artifact(s, part) => s = <<Env, Here, e>> /\ part \in Written(e, job[2])
  BY <1>1, <1>2, PathsApart DEF Artifact
<1> HIDE DEF made, read, e, mine
<1>6. Shape'
  BY <1>1, <1>3, <1>4 DEF EInv, Shape, IsRun
<1>7. Staged'
  BY <1>3, <1>4 DEF EInv, Staged
<1>8. Recorded'
  <2>1. \A s \in Rendered : s = <<Env, Here, e>> => s \in torn'
    BY <1>1 DEF Rendered, Dir, IsRendered, IsText, RenderedKinds, TextKinds
  <2>2. \A s \in Rendered : s \in raced => s \in raced'
    BY <1>1 DEF Rendered, IsRendered, IsText, RenderedKinds, TextKinds
  <2> QED
    BY <1>1, <1>5, <2>1, <2>2, RecordedKept DEF EInv, Shape
<1>9. Planned'
  <2> SUFFICES ASSUME run'.ok, NEW q \in ToSet(run.plan) PROVE PlanStands(q)'
    BY <1>4 DEF Planned
  <2>1. PlanStands(q) /\ q \in Plans
    BY <1>4, ToSetIn DEF EInv, Planned, Shape, IsRun
  <2>2. \A a : Current(a, q)' <=> Current(a, q)
    BY <1>1, <1>4 DEF Current, Fingerprint
  <2>0. Waits(q) => Waits(q)'
    BY <1>1, <1>3, <1>4 DEF Waits, Unended
  <2> SUFFICES ASSUME ~q.late, <<Env, Here, q.entry>> \in Sources, NEW j \in ToSet(JobsOf(q.entry))
               PROVE  Stands(j, q)'
    BY <1>1, <1>4, <2>0, <2>1 DEF PlanStands, Env, Here
  <2>3. Stands(j, q) /\ q.entry \in Entries /\ IsRendered(q.entry) /\ j \in Jobs /\ j[1] = q.entry
        /\ Written(q.entry, j[2]) \subseteq Parts(q.entry)
    BY <2>1, JobsOfSource, ToSetIn DEF PlanStands, Plans
  <2>4. <<Env, Here, q.entry>> \in Rendered
    BY <2>3 DEF Rendered
  <2>5. /\ \A part : Artifact(<<Env, Here, q.entry>>, part)' = out'[<<Env, Here, q.entry, part>>]
        /\ Env' = Env /\ Here' = Here
    BY <1>4 DEF Artifact, Env, Here
  <2>6. CASE j \in ToSet(run.queue)
    BY <1>4, <2>6 DEF Stands
  <2>7. CASE j \in DOMAIN run.busy /\ Current(run.busy[j], q) /\ j # job
    BY <1>3, <1>4, <2>2, <2>7 DEF Stands
  <2>8. CASE j = job /\ Current(run.busy[j], q)
    <3>1. Current(made, q)
      BY <2>8 DEF Current, made, read
    <3>2. \A part \in Written(q.entry, j[2]) : Artifact(<<Env, Here, q.entry>>, part)' = made
      <4> SUFFICES ASSUME NEW part \in Written(q.entry, j[2])
                   PROVE  Artifact(<<Env, Here, q.entry>>, part)' = made
        OBVIOUS
      <4>1. <<Env, Here, q.entry, part>> \in AllPaths
        BY <2>3, <2>4, PathsApart
      <4>2. <<Env, Here, q.entry, part>> \in Paths(Env, Here, q.entry)
        BY <2>3 DEF Paths, Dir, IsRendered, IsText, RenderedKinds, TextKinds
      <4>3. mine(<<Env, Here, q.entry, part>>)
        BY <2>3, <2>8, <4>2 DEF mine, e
      <4> QED
        BY <1>1, <2>5, <4>1, <4>3
    <3> QED
      BY <1>3, <1>4, <2>2, <2>5, <2>8, <3>1, <3>2 DEF Stands, Artifact
  <2>9. CASE /\ j \notin DOMAIN run.busy
             /\ \A part \in Written(q.entry, j[2]) :
                  LET a == Artifact(<<Env, Here, q.entry>>, part) IN a = Absent \/ Current(a, q)
    <3>1. j # job
      BY <2>9
    <3>2. \A part \in Written(q.entry, j[2]) :
            Artifact(<<Env, Here, q.entry>>, part)' = Artifact(<<Env, Here, q.entry>>, part)
      <4> SUFFICES ASSUME NEW part \in Written(q.entry, j[2])
                   PROVE  Artifact(<<Env, Here, q.entry>>, part)' = Artifact(<<Env, Here, q.entry>>, part)
        OBVIOUS
      <4>1. Artifact(<<Env, Here, q.entry>>, part)' = out'[<<Env, Here, q.entry, part>>]
        BY <2>5
      <4>2. q.entry = e => part \notin Written(e, job[2])
        BY <1>2, <2>1, <2>3, <3>1, WrittenApart DEF e
      <4>3. <<Env, Here, q.entry, part>> \in AllPaths
        BY <2>3, <2>4, PathsApart
      <4>4. ~mine(<<Env, Here, q.entry, part>>)
        BY <4>2 DEF mine, Paths
      <4> QED
        BY <1>1, <4>1, <4>3, <4>4 DEF Artifact
    <3> QED
      BY <1>3, <1>4, <2>2, <2>5, <2>9, <3>1, <3>2 DEF Stands, Artifact
  <2> QED
    BY <2>3, <2>6, <2>7, <2>8, <2>9 DEF Stands
<1> QED
  BY <1>6, <1>7, <1>8, <1>9 DEF EInv

LEMMA FailJobStep ==
  ASSUME EInv, NEW job \in DOMAIN run.busy, FailJob(job)
  PROVE  EInv'
<1>1. /\ UNCHANGED <<clock, time, out, manifest, torn, raced>>
      /\ run' = [run EXCEPT !.busy = Drop(@, job), !.ok = FALSE]
  BY DEF FailJob, world, observed
<1>2. /\ IsRun(run') /\ run'.pc = run.pc /\ ~run'.ok /\ run'.opts = run.opts
      /\ run'.plan = run.plan /\ run'.queue = run.queue
      /\ run'.busy = Drop(run.busy, job)
  BY <1>1 DEF EInv, Shape, IsRun
<1>3. DOMAIN run'.busy \subseteq DOMAIN run.busy
  BY <1>2 DEF Drop
<1>4. Shape' /\ Recorded'
  BY <1>1, <1>2, <1>3, ShapeKept, RecordedKept DEF EInv, Shape, Artifact
<1>5. Staged'
  BY <1>2, <1>3 DEF EInv, Staged
<1>6. Planned'
  BY <1>2 DEF Planned
<1> QED
  BY <1>4, <1>5, <1>6 DEF EInv

\* What a build records of a source is what each of its jobs left there.
LEMMA RecordStep ==
  ASSUME EInv, Record
  PROVE  EInv'
<1> DEFINE p     == Head(run.plan)
           s     == <<Env, Here, p.entry>>
           entry == [of |-> IF p.seen THEN Fingerprint(p.entry) ELSE << >>,
                     final |-> run.opts.final, variant |-> Here, defaults |-> p.defaults]
<1>1. /\ UNCHANGED <<clock, time, out>> /\ run.pc = "record" /\ run.plan # << >>
      /\ run' = [run EXCEPT !.plan = Tail(@)] /\ manifest' = [manifest EXCEPT ![s] = entry]
      /\ torn' = torn \ {s} /\ raced' = IF p.late THEN raced \cup {s} ELSE raced \ {s}
  BY DEF Record, world
<1>2. /\ p \in Plans /\ Tail(run.plan) \in Seq(Plans)
      /\ ToSet(run.plan) = {p} \cup ToSet(Tail(run.plan))
  BY <1>1, TailSet DEF EInv, Shape, IsRun
<1>3. run.ok /\ run.queue = << >> /\ DOMAIN run.busy = {}
  BY <1>1 DEF EInv, Staged
<1>4. PlanStands(p)
  BY <1>2, <1>3 DEF EInv, Planned
<1>5. entry.defaults = p.defaults /\ p.defaults \in Nat /\ p.entry \in Entries
  BY <1>2 DEF Plans
<1>6. /\ entry.of = (IF p.seen THEN Fingerprint(p.entry) ELSE << >>)
      /\ entry.final = run.opts.final /\ entry.variant = run.opts.variant
  BY DEF Here
<1>7. entry # None
  BY <1>5 DEF None
<1> HIDE DEF p, entry
<1>8. /\ IsRun(run') /\ run'.pc = "record" /\ run'.ok = run.ok /\ run'.opts = run.opts
      /\ run'.targets = run.targets /\ run'.plan = Tail(run.plan) /\ run'.queue = run.queue
      /\ run'.busy = run.busy
  BY <1>1, <1>2 DEF EInv, Shape, IsRun
<1>9. Shape'
  <2> HIDE DEF s
  <2>1. \A r \in Sources : manifest'[r] = IF r = s THEN entry ELSE manifest[r]
    BY <1>1 DEF EInv, Shape
  <2>2. manifest' = [r \in Sources |-> manifest'[r]]
    BY <1>1 DEF EInv, Shape
  <2>3. \A r \in Sources : manifest'[r].defaults \in Nat \cup {-1}
    BY <1>5, <2>1 DEF EInv, Shape
  <2>4. DOMAIN run'.busy \subseteq Jobs
    BY <1>8 DEF EInv, Shape
  <2> QED
    BY <1>1, <1>8, <2>2, <2>3, <2>4 DEF EInv, Shape
<1>10. Staged'
  BY <1>1, <1>3, <1>8 DEF EInv, Staged
<1>11. Recorded'
  <2> SUFFICES ASSUME NEW r \in Rendered \ (torn' \cup raced'), NEW part \in Parts(r[3]),
                      Artifact(r, part)' # Absent
               PROVE  manifest'[r] # None
                        /\ (manifest'[r].of = << >> \/ Matches(Artifact(r, part), manifest[r])')
    BY DEF Recorded
  <2>1. Artifact(r, part)' = Artifact(r, part) /\ time' = time
    BY <1>1 DEF Artifact
  <2>2. CASE r # s
    <3>1. manifest'[r] = manifest[r] /\ r \notin torn \cup raced
      BY <1>1, <2>2 DEF EInv, Shape, Rendered
    <3> QED
      BY <2>1, <3>1 DEF EInv, Recorded, Matches
  <2>3. CASE r = s
    <3>1. ~p.late /\ s \in Sources /\ r[3] = p.entry
      BY <1>1, <2>3 DEF Rendered
    <3>2. manifest'[r] = entry
      BY <1>1, <2>3, <3>1 DEF EInv, Shape
    <3>3. PICK j \in ToSet(JobsOf(p.entry)) : part \in Written(p.entry, j[2])
      BY <1>4, <1>5, <3>1, JobsOfSource DEF PlanStands
    <3>4. Stands(j, p)
      BY <1>4, <3>1 DEF PlanStands
    <3>5. Current(Artifact(s, part), p)
      BY <1>3, <2>1, <2>3, <3>3, <3>4, NothingIn DEF Stands
    <3>6. CASE p.seen
      BY <1>5, <1>6, <1>7, <2>1, <2>3, <3>2, <3>5, <3>6 DEF Matches, Current
    <3>7. CASE ~p.seen
      BY <1>6, <1>7, <3>2, <3>7
    <3> QED
      BY <3>6, <3>7
  <2> QED
    BY <2>2, <2>3
<1>12. Planned'
  <2> SUFFICES ASSUME NEW q \in ToSet(Tail(run.plan)) PROVE PlanStands(q)'
    BY <1>8 DEF Planned
  <2>1. PlanStands(q)
    BY <1>2, <1>3 DEF EInv, Planned
  <2>2. \A a : Current(a, q)' <=> Current(a, q)
    BY <1>1, <1>8 DEF Current, Fingerprint
  <2>3. \A j : Stands(j, q) => Stands(j, q)'
    BY <1>1, <1>8, <2>2 DEF Stands, Artifact, Env, Here
  <2>4. Waits(q) => Waits(q)'
    BY <1>1, <1>8 DEF Waits, Unended
  <2> QED
    BY <1>1, <1>8, <2>1, <2>3, <2>4 DEF PlanStands, Env, Here
<1> QED
  BY <1>9, <1>10, <1>11, <1>12 DEF EInv

\* Steps of the stages after the record: no source is rendered there.
LEMMA AfterStep ==
  ASSUME EInv, run.pc \in {"copy", "redact"}, run'.pc = run.pc, run'.plan = run.plan,
         IsRun(run'), DOMAIN run'.busy \subseteq Jobs,
         \A j \in DOMAIN run'.busy : j[2] = "cache" => run.pc = "redact",
         \A j \in ToSet(run'.queue) : j[2] # "cache",
         clock' \in {clock, clock + 1}, UNCHANGED <<time, manifest, torn>>,
         \A s \in Rendered : s \in raced => s \in raced',
         DOMAIN out' = AllPaths,
         \A s \in Rendered : \A part \in Parts(s[3]) : Artifact(s, part)' = Artifact(s, part)
  PROVE  EInv'
<1>1. run.plan = << >>
  BY DEF EInv, Staged
<1>2. Shape'
  BY DEF EInv, Shape, IsRun
<1>3. Staged' /\ Planned'
  BY <1>1, NothingIn DEF Staged, Planned
<1>4. Recorded'
  BY RecordedKept DEF EInv, Shape
<1> QED
  BY <1>2, <1>3, <1>4 DEF EInv

LEMMA CopyStep ==
  ASSUME EInv, NEW e \in Entries, Copy(e)
  PROVE  EInv'
<1>1. /\ UNCHANGED <<clock, time, manifest, torn, raced>> /\ run.pc = "copy" /\ Kind[e] = "copy"
      /\ run' = [run EXCEPT !.todo = Tail(@)]
  BY DEF Copy, world, observed
<1>2. /\ IsRun(run') /\ run'.pc = run.pc /\ run'.plan = run.plan /\ run'.queue = run.queue
      /\ run'.busy = run.busy
  BY <1>1 DEF EInv, Shape, IsRun
<1>3. /\ DOMAIN out' = AllPaths
      /\ \A path \in AllPaths : path \notin Paths(Env, Here, e) => out'[path] = out[path]
  BY DEF Copy, EInv, Shape
<1>4. \A s \in Rendered : \A part \in Parts(s[3]) : Artifact(s, part)' = Artifact(s, part)
  <2> SUFFICES ASSUME NEW s \in Rendered, NEW part \in Parts(s[3])
               PROVE  Artifact(s, part)' = Artifact(s, part)
    OBVIOUS
  <2>1. s[3] # e
    BY <1>1 DEF Rendered, IsRendered, RenderedKinds
  <2> QED
    BY <1>3, <2>1, PathsApart DEF Artifact
<1> QED
  BY <1>1, <1>2, <1>3, <1>4, AfterStep DEF EInv, Staged, Shape

LEMMA RedactStep ==
  ASSUME EInv, NEW e \in Entries, Redact(e)
  PROVE  EInv'
<1> DEFINE job == <<e, "cache">>
<1>1. /\ UNCHANGED <<clock, time, out, manifest, torn, raced>> /\ run.pc = "redact"
      /\ Kind[e] = "redacted" /\ DOMAIN run.busy = {} /\ run.queue = << >>
  <2>1. DOMAIN << >> = {}
    OBVIOUS
  <2> QED
    BY <2>1 DEF Redact, world, observed
<1>2. \/ run' = [run EXCEPT !.todo = Tail(@), !.ok = FALSE]
      \/ run' = [run EXCEPT !.todo = Tail(@), !.busy = Put(<< >>, <<e, "cache">>, Snapshot(e))]
      \/ run' = [run EXCEPT !.todo = Tail(@), !.queue = <<<<e, "dest">>>>]
  BY DEF Redact
<1>3. /\ <<e, "cache">> \in Jobs /\ <<e, "dest">> \in Jobs
  BY <1>1 DEF Jobs, IsJob
<1>4. DOMAIN Put(<< >>, <<e, "cache">>, Snapshot(e)) = {<<e, "cache">>}
  BY DEF Put
<1>5. <<<<e, "dest">>>> \in Seq(Jobs) /\ ToSet(<<<<e, "dest">>>>) = {<<e, "dest">>}
  BY <1>3 DEF ToSet
<1>6. /\ IsRun(run') /\ run'.pc = run.pc /\ run'.plan = run.plan
      /\ run'.queue \in {<< >>, <<<<e, "dest">>>>} /\ DOMAIN run'.busy \subseteq {<<e, "cache">>}
  BY <1>1, <1>2, <1>4, <1>5 DEF EInv, Shape, IsRun
<1>7. DOMAIN out' = AllPaths
  BY <1>1 DEF EInv, Shape
<1>8. \A j \in ToSet(run'.queue) : j[2] # "cache"
  BY <1>5, <1>6, NothingIn
<1> QED
  BY <1>1, <1>3, <1>6, <1>7, <1>8, AfterStep DEF Artifact

LEMMA FinishRedactionStep ==
  ASSUME EInv, NEW e \in Entries, FinishRedaction(e)
  PROVE  EInv'
<1>1. /\ UNCHANGED <<time, out, manifest, torn>> /\ clock' = clock + 1
      /\ run' = [run EXCEPT !.busy = << >>, !.queue = <<<<e, "dest">>>>]
      /\ <<e, "cache">> \in DOMAIN run.busy
  BY DEF FinishRedaction, world
<1>0. \A s \in Rendered : s \in raced => s \in raced'
  <2>1. \A s \in Rendered : s[3] # e
    BY DEF FinishRedaction, Rendered, IsRendered, RenderedKinds
  <2> QED
    BY <2>1 DEF FinishRedaction
<1>2. run.pc = "redact" /\ <<e, "cache">> \in Jobs
  BY <1>1 DEF EInv, Staged, Shape
<1>3. <<e, "dest">> \in Jobs
  BY <1>2 DEF Jobs, IsJob
<1>4. /\ <<<<e, "dest">>>> \in Seq(Jobs) /\ ToSet(<<<<e, "dest">>>>) = {<<e, "dest">>}
      /\ DOMAIN << >> = {}
  BY <1>3 DEF ToSet
<1>5. /\ IsRun(run') /\ run'.pc = run.pc /\ run'.plan = run.plan
      /\ run'.queue = <<<<e, "dest">>>> /\ DOMAIN run'.busy = {}
  BY <1>1, <1>4 DEF EInv, Shape, IsRun
<1>6. DOMAIN out' = AllPaths
  BY <1>1 DEF EInv, Shape
<1>7. \A j \in ToSet(run'.queue) : j[2] # "cache"
  BY <1>4, <1>5
<1> QED
  BY <1>0, <1>1, <1>2, <1>5, <1>6, <1>7, AfterStep DEF Artifact

LEMMA CopyRedactedStep ==
  ASSUME EInv, NEW e \in Entries, CopyRedacted(e)
  PROVE  EInv'
<1>1. /\ UNCHANGED <<clock, time, manifest, torn, raced>> /\ run.pc = "redact"
      /\ run.queue = <<<<e, "dest">>>> /\ run' = [run EXCEPT !.queue = << >>]
  BY DEF CopyRedacted, world, observed
<1>2. Kind[e] = "redacted"
  <2>1. <<e, "dest">> \in Jobs
    <3>1. <<e, "dest">> \in ToSet(run.queue)
      BY <1>1 DEF ToSet
    <3> QED
      BY <3>1, ToSetIn DEF EInv, Shape, IsRun
  <2> QED
    BY <2>1 DEF Jobs, IsJob
<1>3. << >> \in Seq(Jobs)
  BY EmptySeq
<1>4. /\ IsRun(run') /\ run'.pc = run.pc /\ run'.plan = run.plan /\ run'.queue = << >>
      /\ run'.busy = run.busy
  BY <1>1, <1>3 DEF EInv, Shape, IsRun
<1>5. /\ DOMAIN out' = AllPaths
      /\ \A path \in AllPaths : path \notin Paths(Env, Here, e) => out'[path] = out[path]
  BY DEF CopyRedacted, EInv, Shape
<1>6. \A s \in Rendered : \A part \in Parts(s[3]) : Artifact(s, part)' = Artifact(s, part)
  <2> SUFFICES ASSUME NEW s \in Rendered, NEW part \in Parts(s[3])
               PROVE  Artifact(s, part)' = Artifact(s, part)
    OBVIOUS
  <2>1. s[3] # e
    BY <1>2 DEF Rendered, IsRendered, RenderedKinds
  <2> QED
    BY <1>5, <2>1, PathsApart DEF Artifact
<1>7. \A j \in ToSet(run'.queue) : j[2] # "cache"
  BY <1>4, NothingIn
<1>8. DOMAIN run'.busy \subseteq Jobs
  BY <1>4 DEF EInv, Shape
<1> QED
  BY <1>1, <1>4, <1>5, <1>6, <1>7, <1>8, AfterStep

-----------------------------------------------------------------------------
\* An input that changes makes every source late that may have read it.
LEMMA ChangeStep ==
  ASSUME EInv, NEW f \in Inputs, NEW t \in Int, f = Defaults => t \in Nat, Change(f, t)
  PROVE  EInv'
<1> DEFINE late(i) == run.plan[i].late \/ Late(run.plan[i], f)
           marked  == [i \in DOMAIN run.plan |-> [run.plan[i] EXCEPT !.late = late(i)]]
<1>1. /\ UNCHANGED <<out, manifest, torn, raced>> /\ clock' = clock + 1
      /\ time' = [time EXCEPT ![f] = t]
      /\ run' = [run EXCEPT !.calm = FALSE, !.plan = marked]
  BY DEF Change, EInv, Shape, IsRun
<1>2. /\ run.plan \in Seq(Plans) /\ DOMAIN run.plan = 1 .. Len(run.plan) /\ Len(run.plan) \in Nat
      /\ \A i \in DOMAIN run.plan : run.plan[i] \in Plans
  BY ElementOfSeq, LenProperties DEF EInv, Shape, IsRun
<1>3. \A i \in DOMAIN run.plan : late(i) \in BOOLEAN
  BY <1>2 DEF Plans, Late, Unended, Begun
<1> HIDE DEF late
<1>4. \A i \in DOMAIN run.plan :
        /\ marked[i] \in Plans /\ marked[i].entry = run.plan[i].entry
        /\ marked[i].defaults = run.plan[i].defaults /\ marked[i].late = late(i)
  BY <1>2, <1>3 DEF Plans
<1>5. marked \in Seq(Plans) /\ DOMAIN marked = DOMAIN run.plan
  <2>1. marked \in [1 .. Len(run.plan) -> Plans]
    BY <1>2, <1>4
  <2> QED
    BY <1>2, <2>1, SeqDef
<1> HIDE DEF marked
<1>6. /\ IsRun(run') /\ run'.pc = run.pc /\ run'.ok = run.ok /\ run'.opts = run.opts
      /\ run'.targets = run.targets /\ run'.plan = marked /\ run'.queue = run.queue
      /\ run'.busy = run.busy
  BY <1>1, <1>5 DEF EInv, Shape, IsRun
<1>7. /\ time' \in [Inputs -> Int] /\ time'[Defaults] \in Nat
      /\ f # Defaults => time'[Defaults] = time[Defaults]
  BY <1>1 DEF EInv, Shape, Inputs
<1>8. Shape'
  BY <1>1, <1>6, <1>7 DEF EInv, Shape
<1>9. Staged'
  <2>1. run.plan = << >> => marked = << >>
    BY <1>2, <1>5, EmptySeq
  <2>2. run.plan # << >> \/ marked = << >>
    BY <2>1
  <2> QED
    BY <1>6, <2>2 DEF EInv, Staged
<1>10. Recorded'
  BY <1>1, <1>7, RecordedKept DEF EInv, Artifact
<1>11. Planned'
  <2> SUFFICES ASSUME run.ok, NEW q \in ToSet(marked) PROVE PlanStands(q)'
    BY <1>6 DEF Planned
  <2>1. PICK i \in DOMAIN run.plan : q = marked[i]
    BY <1>5 DEF ToSet
  <2> DEFINE p == run.plan[i]
  <2>2. p \in ToSet(run.plan) /\ p \in Plans
    BY <1>2 DEF ToSet
  <2>3. q.entry = p.entry /\ q.defaults = p.defaults /\ q.late = late(i) /\ p.defaults \in Nat
    BY <1>4, <2>1, <2>2 DEF Plans
  <2>4. q.late <=> p.late \/ Late(p, f)
    BY <2>3 DEF late
  <2>5. PlanStands(p) /\ p.entry \in Entries
    BY <2>2 DEF EInv, Planned, Plans
  <2> HIDE DEF p
  <2>7. SourceDeps(p.entry) \subseteq Inputs /\ Defaults \notin SourceDeps(p.entry)
    BY <2>5, EnvelopeAssumption DEF SourceDeps, Inputs
  <2>8. Unended(q.entry)' = Unended(p.entry)
    BY <1>6, <2>3 DEF Unended, JobsOf
  <2>9. ~q.late => Waits(q)'
    <3> SUFFICES ASSUME ~q.late, Unended(p.entry) PROVE q.defaults = time'[Defaults]
      BY <2>8 DEF Waits
    <3>1. f # Defaults
      BY <2>4 DEF Late
    <3> QED
      BY <1>7, <2>3, <2>4, <2>5, <3>1 DEF PlanStands, Waits
  <2>6. ASSUME ~q.late, <<Env, Here, p.entry>> \in Sources, NEW j \in ToSet(JobsOf(p.entry))
        PROVE  Stands(j, q)'
    <3>1. Stands(j, p)
      BY <2>4, <2>5, <2>6 DEF PlanStands
    <3>2. CASE j \in ToSet(run.queue)
      BY <1>6, <3>2 DEF Stands
    <3>3. CASE f \notin SourceDeps(p.entry)
      <4>1. Fingerprint(q.entry)' = Fingerprint(p.entry)
        <5>1. \A g \in SourceDeps(p.entry) : time'[g] = time[g]
          BY <1>1, <2>7, <3>3 DEF EInv, Shape
        <5> QED
          BY <2>3, <5>1 DEF Fingerprint
      <4>2. \A a : Current(a, p) => Current(a, q)'
        BY <1>6, <2>3, <4>1 DEF Current
      <4> QED
        BY <1>1, <1>6, <2>3, <3>1, <4>2 DEF Stands, Artifact, Env, Here
    <3>4. CASE ~Begun(p.entry)
      BY <2>6, <3>2, <3>4 DEF Begun
    <3>5. f \notin SourceDeps(p.entry) \/ ~Begun(p.entry)
      BY <2>4, <2>6, <2>7 DEF Late
    <3> QED
      BY <3>3, <3>4, <3>5
  <2>10. run'.pc = "plan" => ToSet(JobsOf(q.entry)) \subseteq ToSet(run'.queue)
    BY <1>6, <2>3, <2>5 DEF PlanStands
  <2> QED
    BY <1>6, <1>7, <2>3, <2>5, <2>6, <2>9, <2>10 DEF PlanStands, Env, Here
<1> QED
  BY <1>8, <1>9, <1>10, <1>11 DEF EInv

\* Files that disappear leave nothing behind that is not what was recorded.
LEMMA GoneStep ==
  ASSUME EInv, IsRun(run'), UNCHANGED <<clock, time, manifest, torn, raced>>,
         run'.pc = run.pc, run'.ok = run.ok, run'.opts = run.opts, run'.targets = run.targets,
         run'.plan = run.plan, run'.queue = run.queue, run'.busy = run.busy,
         DOMAIN out' = AllPaths, \A path \in AllPaths : out'[path] \in {out[path], Absent}
  PROVE  EInv'
<1>1. Shape'
  BY ShapeKept DEF EInv, Shape
<1>2. Staged'
  BY DEF EInv, Staged
<1>3. \A s \in Rendered : \A part \in Parts(s[3]) :
        Artifact(s, part)' \in {Artifact(s, part), Absent}
  BY PathsApart DEF Artifact, Rendered, Sources
<1>4. Recorded'
  BY <1>3, RecordedKept DEF EInv, Shape
<1>5. Planned'
  BY <1>3, PlannedKept
<1> QED
  BY <1>1, <1>2, <1>4, <1>5 DEF EInv

LEMMA LoseStep ==
  ASSUME EInv, NEW f \in Files, Lose(f)
  PROVE  EInv'
<1>1. /\ UNCHANGED <<clock, time, out, manifest, torn, raced>>
      /\ run' = [run EXCEPT !.calm = FALSE]
  BY DEF Lose
<1>2. /\ IsRun(run') /\ run'.pc = run.pc /\ run'.ok = run.ok /\ run'.opts = run.opts
      /\ run'.targets = run.targets /\ run'.plan = run.plan /\ run'.queue = run.queue
      /\ run'.busy = run.busy
  BY <1>1 DEF EInv, Shape, IsRun
<1> QED
  BY <1>1, <1>2, GoneStep DEF EInv, Shape

LEMMA DeleteStep ==
  ASSUME EInv, NEW path \in AllPaths, Delete(path)
  PROVE  EInv'
<1>1. /\ UNCHANGED <<clock, time, manifest, torn, raced>>
      /\ out' = [out EXCEPT ![path] = Absent]
      /\ run' = [run EXCEPT !.calm = FALSE]
  BY DEF Delete
<1>2. /\ IsRun(run') /\ run'.pc = run.pc /\ run'.ok = run.ok /\ run'.opts = run.opts
      /\ run'.targets = run.targets /\ run'.plan = run.plan /\ run'.queue = run.queue
      /\ run'.busy = run.busy
  BY <1>1 DEF EInv, Shape, IsRun
<1>3. DOMAIN out' = AllPaths /\ \A p \in AllPaths : out'[p] \in {out[p], Absent}
  BY <1>1 DEF EInv, Shape
<1> QED
  BY <1>1, <1>2, <1>3, GoneStep

LEMMA CleanStep ==
  ASSUME EInv, Clean
  PROVE  EInv'
<1>1. /\ UNCHANGED <<clock, time, manifest, torn, raced, run>>
      /\ out' = [p \in AllPaths |-> IF Expected(p) THEN out[p] ELSE Absent]
  BY DEF Clean
<1>2. DOMAIN out' = AllPaths /\ \A p \in AllPaths : out'[p] \in {out[p], Absent}
  BY <1>1
<1> QED
  BY <1>1, <1>2, GoneStep DEF EInv, Shape

\* Defaults that are taken back are some that were recorded, or planned with.
LEMMA RevertIs ==
  ASSUME EInv, NEW t \in Digests, Revert(t)
  PROVE  t \in Nat /\ Defaults \in Inputs /\ Change(Defaults, t)
<1>1. t # -1 /\ Change(Defaults, t)
  BY DEF Revert, None
<1>2. \A p \in ToSet(run.plan) : p.defaults \in Nat
  <2>1. ToSet(run.plan) \subseteq Plans
    BY ToSetIn DEF EInv, Shape, IsRun
  <2> QED
    BY <2>1 DEF Plans
<1> QED
  BY <1>1, <1>2 DEF Digests, EInv, Shape, Inputs

LEMMA NextStep == EInv /\ [Next]_vars => EInv'
<1> SUFFICES ASSUME EInv, [Next]_vars PROVE EInv'
  OBVIOUS
<1>1. CASE \E o \in Asked, force \in BOOLEAN :
              \/ \E n \in Envelopes : Begin({n}, FALSE, o, force)
              \/ Begin(Envelopes, TRUE, o, force)
              \/ \E e \in Entries : BeginDoc(e, o, force)
  BY <1>1, BeginStep, BeginDocStep
<1>2. CASE BuildStep
  <2>1. CASE Raise
    BY <2>1, StopStep DEF Raise
  <2> QED
    BY <1>2, <2>1, PlanTextStep, PlanPdfStep, CopyStep, RedactStep, FinishRedactionStep,
       CopyRedactedStep, FinishJobStep, FailJobStep, StartJobStep, RecordStep, AdvanceStep,
       NextEnvelopeStep DEF BuildStep
<1>3. CASE Kill
  BY <1>3, StopStep DEF Kill
<1>4. CASE \E f \in Inputs : Save(f) \/ Restore(f)
  <2> PICK f \in Inputs : Save(f) \/ Restore(f)
    BY <1>4
  <2>1. clock \in Int /\ 0 - clock \in Int
    BY DEF EInv, Shape
  <2> QED
    BY <2>1, ChangeStep DEF Save, Restore, EInv, Shape
<1>9. CASE \E t \in Digests : Revert(t)
  BY <1>9, RevertIs, ChangeStep
<1>5. CASE \E f \in Files : Lose(f)
  BY <1>5, LoseStep
<1>6. CASE \E path \in AllPaths : Delete(path)
  BY <1>6, DeleteStep
<1>7. CASE (\E n \in Envelopes : MarkSent(n)) \/ UNCHANGED vars
  <2>1. UNCHANGED <<clock, time, out, manifest, torn, raced, run>>
    BY <1>7 DEF MarkSent, vars, world, observed
  <2> QED
    BY <2>1, GoneStep DEF EInv, Shape
<1>8. CASE Clean
  BY <1>8, CleanStep
<1> QED
  BY <1>1, <1>2, <1>3, <1>4, <1>5, <1>6, <1>7, <1>8, <1>9 DEF Next

LEMMA Invariant == Spec => []EInv
<1> QED
  BY InitHolds, NextStep, PTL DEF Spec

\* A rendered source that a build would call up to date is right.
LEMMA RenderedRight ==
  ASSUME EInv
  PROVE  RenderedIsRight
<1> SUFFICES ASSUME NEW n \in Envelopes, NEW o \in Asked, NEW e \in ToSet(Holds[n]),
                    IsRendered(e), FreshRender(n, e, o),
                    <<n, o.variant, e>> \notin torn \cup raced,
                    NEW path \in Paths(n, o.variant, e)
             PROVE  Right(out[path], e, o)
  BY DEF RenderedIsRight, At
<1> DEFINE s == <<n, o.variant, e>>
<1>1. s \in Rendered
  <2>1. e \in Entries
    BY EnvelopeAssumption, ToSetIn
  <2> QED
    BY <2>1 DEF Rendered, Sources, Dirs
<1>2. PICK part \in Parts(e) : out[path] = Artifact(s, part)
  BY DEF Paths, Artifact, Dir, IsRendered, IsText, RenderedKinds, TextKinds
<1>3. /\ Artifact(s, part) # Absent
      /\ manifest[s] # None => OptionsOf(manifest[s]) = RenderOptions(o)
                                /\ manifest[s].of = Fingerprint(e)
  BY <1>2 DEF FreshRender, ManifestStale, Missing, At
<1>4. manifest[s] # None /\ (manifest[s].of = << >> \/ Matches(Artifact(s, part), manifest[s]))
  BY <1>1, <1>3 DEF EInv, Recorded
<1>5. manifest[s].of # << >>
  <2>1. Tool \in DOMAIN Fingerprint(e)
    BY DEF Fingerprint, SourceDeps
  <2>2. Fingerprint(e) # << >>
    BY <2>1
  <2> QED
    BY <1>3, <1>4, <2>2
<1>6. /\ manifest[s].final = o.final /\ manifest[s].variant = o.variant
      /\ manifest[s].defaults = time[Defaults] /\ time[Defaults] \in Nat
  BY <1>3, <1>4 DEF OptionsOf, RenderOptions, EInv, Shape
<1> QED
  BY <1>2, <1>3, <1>4, <1>5, <1>6 DEF Matches, Right

-----------------------------------------------------------------------------
\* Sent envelopes: what a build is given stays what it was chosen for.
Chosen ==
  /\ run.pc = "idle" => DOMAIN run.busy = {}
  /\ run.pc # "idle" => /\ run.targets \in Seq(Envelopes) /\ run.targets # << >>
                        /\ run.force \/ ToSet(run.targets) \cap (sent \ unseen) = {}

LEMMA SetSeq ==
  ASSUME NEW S, IsFiniteSet(S)
  PROVE  SetToSeq(S) \in Seq(S) /\ (S # {} => SetToSeq(S) # << >>)
<1>1. Cardinality(S) \in Nat /\ ExistsBijection(1 .. Cardinality(S), S)
  BY FS_CardinalityType
<1>2. PICK f \in [1 .. Cardinality(S) -> S] : f \in Injection(1 .. Cardinality(S), S)
  BY <1>1 DEF ExistsBijection, Bijection, Injection
<1>3. IsInjective(f)
  BY <1>2 DEF Injection
<1>4. SetToSeq(S) \in [1 .. Cardinality(S) -> S]
  BY <1>3 DEF SetToSeq
<1>5. SetToSeq(S) \in Seq(S)
  BY <1>1, <1>4, SeqDef
<1>6. S # {} => Cardinality(S) # 0
  BY FS_EmptySet
<1>7. Cardinality(S) # 0 => 1 \in DOMAIN SetToSeq(S)
  BY <1>1, <1>4
<1>8. DOMAIN << >> = 1 .. 0
  OBVIOUS
<1> QED
  BY <1>5, <1>6, <1>7, <1>8

LEMMA ChosenBegin ==
  ASSUME EInv, NEW asked \in SUBSET Envelopes, NEW all, NEW o, NEW force \in BOOLEAN,
         Begin(asked, all, o, force)
  PROVE  Chosen'
<1>1. /\ run' = [Idle EXCEPT !.pc = "plan", !.targets = Targets(asked, all, force), !.opts = o,
                       !.force = force, !.todo = Of(Head(Targets(asked, all, force)), SourceKinds)]
      /\ Targets(asked, all, force) # << >> /\ sent' = sent /\ unseen' = {}
      /\ ~all /\ ~force => asked \cap sent = {}
  BY DEF Begin, world
<1>2. PICK S \in SUBSET asked : Targets(asked, all, force) = SetToSeq(S) /\ (force \/ S \cap sent = {})
  BY <1>1 DEF Targets
<1>3. IsFiniteSet(S)
  BY FS_Subset, EnvelopeAssumption
<1>4. SetToSeq(S) \in Seq(S) /\ ToSet(SetToSeq(S)) \subseteq S
  BY <1>3, SetSeq, ToSetIn
<1>5. SetToSeq(S) \in Seq(Envelopes)
  BY <1>4, SeqDef
<1>6. run'.pc = "plan" /\ run'.targets = SetToSeq(S) /\ run'.force = force
  BY <1>1, <1>2 DEF Idle
<1> QED
  BY <1>1, <1>2, <1>4, <1>5, <1>6 DEF Chosen

LEMMA ChosenBeginDoc ==
  ASSUME EInv, NEW e, NEW o, NEW force \in BOOLEAN, BeginDoc(e, o, force)
  PROVE  Chosen'
<1>1. /\ run' = [Idle EXCEPT !.pc = "plan", !.targets = SetToSeq(Owners(e)), !.opts = o,
                       !.force = force, !.doc = TRUE, !.todo = <<e>>]
      /\ Cardinality(Owners(e)) = 1 /\ sent' = sent /\ unseen' = {} /\ (force \/ Owners(e) \cap sent = {})
  BY DEF BeginDoc, world
<1> DEFINE S == Owners(e)
<1>2. S \subseteq Envelopes
  BY DEF Owners
<1> HIDE DEF S
<1>3. IsFiniteSet(S) /\ S # {}
  BY <1>1, <1>2, FS_Subset, FS_EmptySet, EnvelopeAssumption DEF S
<1>4. SetToSeq(S) \in Seq(S) /\ ToSet(SetToSeq(S)) \subseteq S /\ SetToSeq(S) # << >>
  BY <1>3, SetSeq, ToSetIn
<1>5. SetToSeq(S) \in Seq(Envelopes)
  BY <1>2, <1>4, SeqDef
<1>6. run'.pc = "plan" /\ run'.targets = SetToSeq(S) /\ run'.force = force
  BY <1>1 DEF Idle, S
<1> QED
  BY <1>1, <1>4, <1>5, <1>6 DEF Chosen, S

\* A build that goes on is the build that was begun.
LEMMA ChosenOn ==
  ASSUME Chosen, run.pc # "idle", run'.pc # "idle", run'.targets = run.targets,
         run'.force = run.force, UNCHANGED <<sent, unseen>>
  PROVE  Chosen'
BY DEF Chosen

LEMMA ChosenNext ==
  ASSUME EInv, Chosen, NextEnvelope
  PROVE  Chosen'
<1>1. /\ run.pc # "idle" /\ sent' = sent /\ unseen' = unseen
  BY DEF NextEnvelope, world
<1>2. CASE run' = Idle
  BY <1>2, IdleType DEF Chosen
<1>3. CASE run' # Idle
  <2>1. /\ run' = [run EXCEPT !.pc = "plan", !.targets = Tail(@), !.ok = TRUE,
                            !.calm = TRUE, !.todo = Of(Head(Tail(run.targets)), SourceKinds)]
        /\ Len(run.targets) # 1
    BY <1>3 DEF NextEnvelope
  <2>2. run'.pc = "plan" /\ run'.targets = Tail(run.targets) /\ run'.force = run.force
    BY <2>1 DEF EInv, Shape, IsRun
  <2>3. run.targets \in Seq(Envelopes) /\ run.targets # << >>
    BY <1>1 DEF Chosen
  <2>4. Tail(run.targets) \in Seq(Envelopes) /\ ToSet(Tail(run.targets)) \subseteq ToSet(run.targets)
    BY <2>3, TailSet
  <2>5. Tail(run.targets) # << >>
    <3>1. Len(run.targets) # 0 /\ Len(run.targets) \in Nat
      BY <2>3, EmptySeq, LenProperties
    <3>2. Len(Tail(run.targets)) = Len(run.targets) - 1
      BY <2>3, HeadTailProperties
    <3>3. Len(Tail(run.targets)) # 0
      BY <2>1, <3>1, <3>2
    <3> QED
      BY <2>4, <3>3, EmptySeq
  <2> QED
    BY <1>1, <2>2, <2>4, <2>5 DEF Chosen
<1> QED
  BY <1>2, <1>3

LEMMA StageIs ==
  ASSUME EInv, Advance
  PROVE  \E pc \in {"render", "record", "copy", "redact"} :
           \/ run' = [run EXCEPT !.pc = pc]
           \/ \E plan : run' = [run EXCEPT !.pc = pc, !.plan = plan]
           \/ \E todo : run' = [run EXCEPT !.pc = pc, !.todo = todo]
<1>1. run' = Stage(run.pc)
  BY DEF Advance
<1>2. CASE run.pc = "plan"
  BY <1>1, <1>2 DEF Stage
<1>3. CASE run.pc = "render"
  <2>1. run' = [run EXCEPT !.pc = "record", !.plan = IF run.ok THEN @ ELSE << >>]
    BY <1>1, <1>3 DEF Stage
  <2>2. run' = [run EXCEPT !.pc = "record", !.plan = IF run.ok THEN run.plan ELSE << >>]
    BY <2>1 DEF EInv, Shape, IsRun
  <2> QED
    BY <2>2
<1>4. CASE run.pc = "record"
  BY <1>1, <1>4 DEF Stage
<1>5. CASE run.pc = "copy"
  BY <1>1, <1>5 DEF Stage
<1> QED
  BY <1>2, <1>3, <1>4, <1>5 DEF Advance

\* What a running build does to its record: it may end, it may go to another
\* stage, and it keeps what it was asked for.
LEMMA RunStep ==
  ASSUME EInv, Chosen, BuildStep, ~NextEnvelope, ~Raise
  PROVE  /\ run.pc # "idle" /\ run'.pc # "idle" /\ sent' = sent /\ unseen' = unseen
         /\ run'.targets = run.targets /\ run'.force = run.force
<1> DEFINE Goal == /\ run.pc # "idle" /\ run'.pc # "idle" /\ sent' = sent /\ unseen' = unseen
                   /\ run'.targets = run.targets /\ run'.force = run.force
<1>0. \A j \in DOMAIN run.busy : run.pc # "idle"
  BY DEF Chosen
<1>1. ASSUME NEW e, PlanText(e) PROVE Goal
  BY <1>1 DEF PlanText, world, EInv, Shape, IsRun
<1>2. ASSUME NEW e, PlanPdf(e) PROVE Goal
  BY <1>2 DEF PlanPdf, world, EInv, Shape, IsRun
<1>3. ASSUME NEW e, Copy(e) PROVE Goal
  BY <1>3 DEF Copy, world, EInv, Shape, IsRun
<1>4. ASSUME NEW e, Redact(e) PROVE Goal
  BY <1>4 DEF Redact, world, EInv, Shape, IsRun
<1>5. ASSUME NEW e, FinishRedaction(e) PROVE Goal
  BY <1>0, <1>5 DEF FinishRedaction, world, EInv, Shape, IsRun
<1>6. ASSUME NEW e, CopyRedacted(e) PROVE Goal
  BY <1>6 DEF CopyRedacted, world, EInv, Shape, IsRun
<1>7. ASSUME NEW j, FinishJob(j) PROVE Goal
  BY <1>0, <1>7 DEF FinishJob, world, EInv, Shape, IsRun
<1>8. ASSUME NEW j, FailJob(j) PROVE Goal
  BY <1>0, <1>8 DEF FailJob, world, EInv, Shape, IsRun
<1>9. CASE StartJob
  BY <1>9 DEF StartJob, world, EInv, Shape, IsRun
<1>10. CASE Record
  BY <1>10 DEF Record, world, EInv, Shape, IsRun
<1>11. CASE Advance
  BY <1>11, StageIs DEF Advance, world, EInv, Shape, IsRun
<1> HIDE DEF Goal
<1>12. Goal
  <2>1. CASE \E e \in Entries : \/ PlanText(e) \/ PlanPdf(e) \/ Copy(e)
                                 \/ Redact(e) \/ FinishRedaction(e) \/ CopyRedacted(e)
    BY <1>1, <1>2, <1>3, <1>4, <1>5, <1>6, <2>1
  <2>2. CASE \E j \in DOMAIN run.busy : FinishJob(j) \/ FailJob(j)
    BY <1>7, <1>8, <2>2
  <2>3. \/ \E e \in Entries : \/ PlanText(e) \/ PlanPdf(e) \/ Copy(e)
                              \/ Redact(e) \/ FinishRedaction(e) \/ CopyRedacted(e)
        \/ \E j \in DOMAIN run.busy : FinishJob(j) \/ FailJob(j)
        \/ StartJob \/ Record \/ Advance
    BY Zenon DEF BuildStep
  <2> QED
    BY <1>9, <1>10, <1>11, <2>1, <2>2, <2>3 DEF Goal
<1> QED
  BY <1>12 DEF Goal

LEMMA ChosenStep == EInv /\ Chosen /\ [Next]_vars => Chosen'
<1> SUFFICES ASSUME EInv, Chosen, [Next]_vars PROVE Chosen'
  OBVIOUS
<1>1. CASE \E o \in Asked, force \in BOOLEAN :
              \/ \E n \in Envelopes : Begin({n}, FALSE, o, force)
              \/ Begin(Envelopes, TRUE, o, force)
              \/ \E e \in Entries : BeginDoc(e, o, force)
  BY <1>1, ChosenBegin, ChosenBeginDoc
<1>2. CASE BuildStep
  <2>1. CASE Raise
    BY <2>1, IdleType DEF Raise, Stop, Chosen
  <2> QED
    BY <1>2, <2>1, ChosenNext, ChosenOn, RunStep
<1>3. CASE Kill
  BY <1>3, IdleType DEF Kill, Stop, Chosen
<1>4. CASE \/ \E f \in Inputs : Save(f) \/ Restore(f)
           \/ \E t \in Digests : Revert(t)
           \/ \E f \in Files : Lose(f)
           \/ \E path \in AllPaths : Delete(path)
  <2>1. /\ sent' = sent /\ unseen' = unseen /\ run'.pc = run.pc /\ run'.busy = run.busy
        /\ run'.targets = run.targets /\ run'.force = run.force
    BY <1>4 DEF Save, Restore, Revert, Change, Lose, Delete, EInv, Shape, IsRun
  <2> QED
    BY <2>1 DEF Chosen
<1>5. CASE \E n \in Envelopes : MarkSent(n)
  BY <1>5 DEF MarkSent, Chosen
<1>6. CASE Clean \/ UNCHANGED vars
  BY <1>6 DEF Clean, vars, world, Chosen
<1> QED
  BY <1>1, <1>2, <1>3, <1>4, <1>5, <1>6 DEF Next

\* A build leaves the artifacts of an envelope that was sent when it began alone
\* (main: --all passes over it, --envelope and --doc refuse it), unless it is forced,
\* and whatever is marked while it runs.
THEOREM SentIsKept == Spec => SentStays
<1>1. Init => Chosen
  BY IdleType DEF Init, Chosen
<1>2. ASSUME EInv, Chosen, [Next]_vars, NEW path \in AllPaths, out'[path] \notin {out[path], Absent}
      PROVE  path[1] \notin sent \ unseen \/ run.force
  <2>1. CASE BuildStep
    <3>1. path[1] = Env
      <4>1. ASSUME NEW j, FinishJob(j) PROVE path[1] = Env
        BY <1>2, <4>1 DEF FinishJob, Paths
      <4>2. ASSUME NEW e, Copy(e) PROVE path[1] = Env
        <5>1. out'[path] # out[path] => path \in Paths(Env, Here, e)
          BY <4>2 DEF Copy
        <5> QED
          BY <1>2, <5>1 DEF Paths
      <4>3. ASSUME NEW e, CopyRedacted(e) PROVE path[1] = Env
        BY <1>2, <4>3 DEF CopyRedacted, Paths
      <4> QED
        BY <1>2, <2>1, <4>1, <4>2, <4>3 DEF BuildStep, PlanText, PlanPdf, Redact,
           FinishRedaction, FailJob, StartJob, Record, Advance, NextEnvelope, Raise, Stop
    <3>2. run.pc # "idle"
      BY <1>2, <2>1, RunStep DEF NextEnvelope, Raise
    <3>3. Env \in ToSet(run.targets)
      BY <1>2, <3>2, TailSet DEF Chosen, Env
    <3> QED
      BY <1>2, <3>1, <3>2, <3>3 DEF Chosen
  <2>2. CASE ~BuildStep
    <3>1. out' = out \/ (\E p \in AllPaths : out' = [out EXCEPT ![p] = Absent])
            \/ out' = [p \in AllPaths |-> IF Expected(p) THEN out[p] ELSE Absent]
      BY <1>2, <2>2 DEF Next, Begin, BeginDoc, Kill, Stop, Save, Restore, Revert, Change, Lose,
         Delete, MarkSent, Clean, vars
    <3> QED
      BY <1>2, <3>1 DEF EInv, Shape
  <2> QED
    BY <2>1, <2>2
<1>3. EInv /\ Chosen /\ [Next]_vars =>
        [~run.force => \A p \in AllPaths :
           p[1] \in sent \ unseen => out'[p] \in {out[p], Absent}]_vars
  BY <1>2
<1> QED
  BY <1>1, <1>3, Invariant, ChosenStep, PTL DEF Spec, SentStays

-----------------------------------------------------------------------------
\* Types: of the times, of the build, and of what is observed.
Dated ==
  /\ clock # 0 /\ DOMAIN cache = Entries
  /\ \A f \in Inputs : time[f] < clock
  /\ \A p \in AllPaths : out[p].at \in Int /\ out[p].at < clock
  /\ \A e \in Entries : cache[e].at \in Int /\ cache[e].at < clock

Timed == Dated /\ \A d \in Digests : d < clock

Crew ==
  /\ run.pc \in {"idle", "plan", "render", "record", "copy", "redact"}
  /\ run.pc # "idle" => run.opts \in Asked
  /\ IsFiniteSet(DOMAIN run.busy) /\ Cardinality(DOMAIN run.busy) <= Workers

Observed ==
  /\ lost \subseteq Files /\ sent \subseteq Envelopes /\ unseen \subseteq sent
  /\ torn \cup raced \subseteq Envelopes \X (Dirs \cup {"none"}) \X Entries
  /\ settled \subseteq Envelopes \X Asked

LEMMA DigestsAre ==
  ASSUME EInv
  PROVE  Digests \subseteq Nat \cup {-1}
<1>1. ToSet(run.plan) \subseteq Plans
  BY ToSetIn DEF EInv, Shape, IsRun
<1> QED
  BY <1>1 DEF Digests, EInv, Shape, Plans

\* The defaults that are recorded or planned with are those there are, or were.
LEMMA DigestsKept ==
  ASSUME EInv, [Next]_vars
  PROVE  Digests' \subseteq Digests \cup {time[Defaults]}
<1> DEFINE Given == {q.defaults : q \in ToSet(run.plan)}
<1>1. ASSUME UNCHANGED manifest,
             ToSet(run'.plan) \subseteq ToSet(run.plan) \/ run'.plan = << >>
      PROVE  Digests' \subseteq Digests
  BY <1>1, NothingIn DEF Digests
<1>2. ASSUME NEW e \in Entries, PlanPdf(e) PROVE Digests' \subseteq Digests \cup {time[Defaults]}
  <2> DEFINE p == [entry |-> e, defaults |-> time[Defaults], seen |-> Inspectable(e), late |-> FALSE]
  <2>1. run'.plan = run.plan \/ run'.plan = Append(run.plan, p)
    BY <1>2 DEF PlanPdf, EInv, Shape, IsRun
  <2>2. p \in Plans /\ run.plan \in Seq(Plans) /\ p.defaults = time[Defaults]
    BY DEF EInv, Shape, IsRun, Plans, Inspectable
  <2> HIDE DEF p
  <2>3. ToSet(Append(run.plan, p)) \subseteq ToSet(run.plan) \cup {p}
    BY <2>2, AppendSet
  <2>4. UNCHANGED manifest
    BY <1>2 DEF PlanPdf
  <2>5. \A q \in ToSet(run'.plan) : q.defaults \in Digests \cup {time[Defaults]}
    BY <2>1, <2>2, <2>3 DEF Digests
  <2>6. \A s \in Sources : manifest'[s].defaults \in Digests
    BY <2>4 DEF Digests
  <2> QED
    BY <2>5, <2>6 DEF Digests
<1>3. CASE Record
  <2>1. /\ run'.plan = Tail(run.plan) /\ run.plan \in Seq(Plans) /\ run.plan # << >>
    BY <1>3 DEF Record, EInv, Shape, IsRun
  <2>2. ToSet(run.plan) = {Head(run.plan)} \cup ToSet(Tail(run.plan))
    BY <2>1, TailSet
  <2>3. \A s \in Sources : manifest'[s].defaults \in {manifest[s].defaults, Head(run.plan).defaults}
    BY <1>3 DEF Record, EInv, Shape
  <2>4. Head(run.plan).defaults \in Digests
    BY <2>2 DEF Digests
  <2>5. \A s \in Sources : manifest'[s].defaults \in Digests
    BY <2>3, <2>4 DEF Digests
  <2>6. \A q \in ToSet(run'.plan) : q.defaults \in Digests
    BY <2>1, <2>2 DEF Digests
  <2> QED
    BY <2>5, <2>6 DEF Digests
<1>4. ASSUME NEW f, NEW t, Change(f, t) PROVE Digests' \subseteq Digests
  <2>1. /\ DOMAIN run'.plan = DOMAIN run.plan /\ UNCHANGED manifest
        /\ \A i \in DOMAIN run.plan : run'.plan[i].defaults = run.plan[i].defaults
    <3>1. \A i \in DOMAIN run.plan : run.plan[i] \in Plans
      BY ElementOfSeq, LenProperties DEF EInv, Shape, IsRun
    <3> QED
      BY <1>4, <3>1 DEF Change, EInv, Shape, IsRun, Plans
  <2> QED
    BY <2>1 DEF Digests, ToSet
<1>5. CASE BuildStep
  <2>1. ASSUME ~Record, ~\E e \in Entries : PlanPdf(e)
        PROVE  UNCHANGED manifest /\ (run'.plan = run.plan \/ run'.plan = << >>)
    <3>1. CASE Advance
      BY <3>1, NothingIn DEF Advance, Stage, EInv, Shape, IsRun
    <3>2. CASE NextEnvelope
      BY <3>2, IdleType DEF NextEnvelope, EInv, Shape, IsRun
    <3>3. CASE Raise
      BY <3>3, IdleType DEF Raise, Stop
    <3>4. ASSUME ~Advance, ~NextEnvelope, ~Raise
          PROVE  UNCHANGED manifest /\ run'.plan = run.plan
      BY <1>5, <2>1, <3>4 DEF BuildStep, PlanText, Copy, Redact, FinishRedaction, CopyRedacted,
         FinishJob, FailJob, StartJob, EInv, Shape, IsRun
    <3> QED
      BY <3>1, <3>2, <3>3, <3>4
  <2> QED
    BY <1>1, <1>2, <1>3, <2>1
<1>6. CASE (\E f \in Inputs : Save(f) \/ Restore(f)) \/ \E t \in Digests : Revert(t)
  BY <1>4, <1>6 DEF Save, Restore, Revert
<1>7. ASSUME ~BuildStep, ~\E f \in Inputs : Save(f) \/ Restore(f), ~\E t \in Digests : Revert(t)
      PROVE  UNCHANGED manifest /\ (run'.plan = run.plan \/ run'.plan = << >>)
  <2>1. ASSUME NEW asked, NEW all, NEW o, NEW force, Begin(asked, all, o, force)
        PROVE  UNCHANGED manifest /\ run'.plan = << >>
    BY <2>1 DEF Begin, Idle
  <2>2. ASSUME NEW e, NEW o, NEW force, BeginDoc(e, o, force)
        PROVE  UNCHANGED manifest /\ run'.plan = << >>
    BY <2>2 DEF BeginDoc, Idle
  <2>3. CASE Kill
    BY <2>3, IdleType DEF Kill, Stop
  <2>4. CASE (\E f \in Files : Lose(f)) \/ (\E p \in AllPaths : Delete(p))
    BY <2>4 DEF Lose, Delete, EInv, Shape, IsRun
  <2>5. CASE (\E n \in Envelopes : MarkSent(n)) \/ Clean \/ UNCHANGED vars
    BY <2>5 DEF MarkSent, Clean, vars
  <2> QED
    BY <1>7, <2>1, <2>2, <2>3, <2>4, <2>5 DEF Next
<1> QED
  BY <1>1, <1>5, <1>6, <1>7

LEMMA DatedStep ==
  ASSUME EInv, Timed, [Next]_vars
  PROVE  Dated'
<1>0. /\ clock \in Nat /\ time \in [Inputs -> Int] /\ DOMAIN out = AllPaths
      /\ time[Defaults] < clock /\ \A d \in Digests : d \in Int
  BY DigestsAre DEF EInv, Shape, Timed, Dated, Inputs
<1>1. ASSUME NEW job, FinishJob(job) PROVE Dated'
  <2>1. /\ clock' = clock + 1 /\ UNCHANGED <<time, cache>>
        /\ \A p \in AllPaths : out'[p] = out[p] \/ out'[p].at = clock
    BY <1>1 DEF FinishJob, world
  <2> QED
    BY <1>0, <2>1 DEF Timed, Dated
<1>2. ASSUME NEW e \in Entries, Copy(e) PROVE Dated'
  <2>1. /\ UNCHANGED <<clock, time, cache>>
        /\ \A p \in AllPaths : out'[p] = out[p] \/ out'[p].at = time[Own[e]]
    BY <1>2 DEF Copy, world, Absent
  <2>2. time[Own[e]] \in Int /\ time[Own[e]] < clock
    BY <1>0, EnvelopeAssumption DEF Timed, Dated, Inputs
  <2> QED
    BY <1>0, <2>1, <2>2 DEF Timed, Dated
<1>3. ASSUME NEW e \in Entries, FinishRedaction(e) PROVE Dated'
  <2>1. /\ clock' = clock + 1 /\ UNCHANGED <<time, out>> /\ DOMAIN cache' = Entries
        /\ \A d \in Entries : cache'[d] = cache[d] \/ cache'[d].at = clock
    BY <1>3 DEF FinishRedaction, world, Absent, Timed, Dated
  <2> QED
    BY <1>0, <2>1 DEF Timed, Dated
<1>4. ASSUME NEW e \in Entries, CopyRedacted(e) PROVE Dated'
  <2>1. /\ UNCHANGED <<clock, time, cache>>
        /\ \A p \in AllPaths : out'[p] = out[p] \/ out'[p] = cache[e]
    BY <1>4 DEF CopyRedacted, world
  <2> QED
    BY <1>0, <2>1 DEF Timed, Dated
<1>5. ASSUME NEW f, NEW t \in Int, t <= clock, Change(f, t) PROVE Dated'
  <2>1. /\ clock' = clock + 1 /\ UNCHANGED <<out, cache>> /\ time' = [time EXCEPT ![f] = t]
    BY <1>5 DEF Change
  <2>2. \A g \in Inputs : time'[g] = time[g] \/ time'[g] = t
    BY <1>0, <2>1
  <2>3. t < clock'
    BY <1>0, <1>5, <2>1
  <2> QED
    BY <1>0, <2>1, <2>2, <2>3 DEF Timed, Dated
<1>6. ASSUME UNCHANGED <<clock, time, cache>>,
             \A p \in AllPaths : out'[p] = out[p] \/ out'[p] = Absent
      PROVE  Dated'
  <2>1. Absent.at = 0
    BY DEF Absent
  <2> QED
    BY <1>0, <1>6, <2>1 DEF Timed, Dated
<1>7. CASE BuildStep
  <2>1. ASSUME UNCHANGED <<clock, time, cache, out>> PROVE Dated'
    BY <1>6, <2>1
  <2> QED
    BY <1>1, <1>2, <1>3, <1>4, <1>7, <2>1 DEF BuildStep, PlanText, PlanPdf, Redact, FailJob,
       StartJob, Record, Advance, NextEnvelope, Raise, Stop, world
<1>8. CASE \E f \in Inputs : Save(f) \/ Restore(f)
  <2>1. clock <= clock /\ 0 - clock <= clock /\ clock \in Int /\ 0 - clock \in Int
    BY <1>0
  <2> QED
    BY <1>5, <1>8, <2>1 DEF Save, Restore
<1>12. CASE \E t \in Digests : Revert(t)
  <2> PICK t \in Digests : Revert(t)
    BY <1>12
  <2>1. t \in Nat /\ t < clock /\ Change(Defaults, t)
    BY RevertIs DEF Timed, Dated
  <2>2. t \in Int /\ t <= clock
    BY <1>0, <2>1
  <2> QED
    BY <1>5, <2>1, <2>2
<1>9. CASE \E p \in AllPaths : Delete(p)
  <2>1. PICK p \in AllPaths : Delete(p)
    BY <1>9
  <2>2. UNCHANGED <<clock, time, cache>> /\ out' = [out EXCEPT ![p] = Absent]
    BY <2>1 DEF Delete
  <2> QED
    BY <1>0, <1>6, <2>2
<1>10. CASE Clean
  BY <1>6, <1>10 DEF Clean
<1>11. ASSUME ~BuildStep, ~\E f \in Inputs : Save(f) \/ Restore(f), ~\E p \in AllPaths : Delete(p),
              ~Clean, ~\E t \in Digests : Revert(t)
       PROVE  Dated'
  <2>1. UNCHANGED <<clock, time, cache, out>>
    BY <1>11 DEF Next, Begin, BeginDoc, Kill, Stop, Lose, MarkSent, vars, world
  <2> QED
    BY <1>6, <2>1
<1> QED
  BY <1>7, <1>8, <1>9, <1>10, <1>11, <1>12

LEMMA TimedStep == EInv /\ Timed /\ [Next]_vars => Timed'
<1> SUFFICES ASSUME EInv, Timed, [Next]_vars PROVE Timed'
  OBVIOUS
<1>1. clock' \in {clock, clock + 1}
  BY DEF Next, Begin, BeginDoc, BuildStep, PlanText, PlanPdf, Copy, Redact, FinishRedaction,
     CopyRedacted, FinishJob, FailJob, StartJob, Record, Advance, NextEnvelope, Raise, Kill, Stop,
     Save, Restore, Revert, Change, Lose, Delete, MarkSent, Clean, vars
<1>2. clock \in Nat /\ time[Defaults] < clock /\ \A d \in Digests : d \in Int /\ d < clock
  BY DigestsAre DEF EInv, Shape, Timed, Dated, Inputs
<1>3. time[Defaults] \in Int
  BY DEF EInv, Shape
<1>4. \A d \in Digests' : d < clock'
  BY <1>1, <1>2, <1>3, DigestsKept
<1> QED
  BY <1>4, DatedStep DEF Timed

\* A renderer more, if there is room, or one less.
LEMMA CrewKept ==
  ASSUME EInv, Crew, run'.pc \in {"idle", "plan", "render", "record", "copy", "redact"},
         run'.pc # "idle" => run'.opts \in Asked,
         \/ DOMAIN run'.busy \subseteq DOMAIN run.busy
         \/ \E job : DOMAIN run'.busy \subseteq {job}
         \/ /\ Cardinality(DOMAIN run.busy) < Workers
            /\ \E job : DOMAIN run'.busy = DOMAIN run.busy \cup {job}
  PROVE  Crew'
<1>1. Workers \in Nat \ {0} /\ IsFiniteSet(DOMAIN run.busy) /\ Cardinality(DOMAIN run.busy) \in Nat
  BY EnvelopeAssumption, FS_CardinalityType DEF Crew
<1>2. CASE DOMAIN run'.busy \subseteq DOMAIN run.busy
  <2>1. /\ IsFiniteSet(DOMAIN run'.busy) /\ Cardinality(DOMAIN run'.busy) \in Nat
        /\ Cardinality(DOMAIN run'.busy) <= Cardinality(DOMAIN run.busy)
    BY <1>1, <1>2, FS_Subset, FS_CardinalityType
  <2> QED
    BY <1>1, <2>1 DEF Crew
<1>3. CASE \E job : DOMAIN run'.busy \subseteq {job}
  <2>1. PICK job : DOMAIN run'.busy \subseteq {job}
    BY <1>3
  <2>2. IsFiniteSet({job}) /\ Cardinality({job}) = 1
    BY FS_Singleton
  <2>3. /\ IsFiniteSet(DOMAIN run'.busy) /\ Cardinality(DOMAIN run'.busy) \in Nat
        /\ Cardinality(DOMAIN run'.busy) <= 1
    BY <2>1, <2>2, FS_Subset, FS_CardinalityType
  <2> QED
    BY <1>1, <2>3 DEF Crew
<1>4. CASE /\ Cardinality(DOMAIN run.busy) < Workers
           /\ \E job : DOMAIN run'.busy = DOMAIN run.busy \cup {job}
  <2>1. PICK job : DOMAIN run'.busy = DOMAIN run.busy \cup {job}
    BY <1>4
  <2>2. /\ IsFiniteSet(DOMAIN run'.busy)
        /\ Cardinality(DOMAIN run'.busy) \in {Cardinality(DOMAIN run.busy), Cardinality(DOMAIN run.busy) + 1}
    BY <1>1, <2>1, FS_AddElement
  <2> QED
    BY <1>1, <1>4, <2>2 DEF Crew
<1> QED
  BY <1>2, <1>3, <1>4

LEMMA CrewStep == EInv /\ Chosen /\ Crew /\ [Next]_vars => Crew'
<1> SUFFICES ASSUME EInv, Chosen, Crew, [Next]_vars PROVE Crew'
  OBVIOUS
<1> DEFINE Pcs == {"idle", "plan", "render", "record", "copy", "redact"}
           Same == run'.pc = run.pc /\ run'.opts = run.opts
<1>0. run.pc \in Pcs /\ (run.pc # "idle" => run.opts \in Asked)
  BY DEF Crew
<1>1. ASSUME Same, DOMAIN run'.busy \subseteq DOMAIN run.busy PROVE Crew'
  BY <1>0, <1>1, CrewKept
<1>2. ASSUME run' = Idle PROVE Crew'
  BY <1>2, IdleType, CrewKept
<1>3. ASSUME NEW asked, NEW all, NEW o \in Asked, NEW force, Begin(asked, all, o, force) PROVE Crew'
  <2>1. run'.pc = "plan" /\ run'.opts = o /\ DOMAIN run'.busy = {}
    BY <1>3, IdleType DEF Begin, Idle
  <2> QED
    BY <2>1, CrewKept
<1>4. ASSUME NEW e, NEW o \in Asked, NEW force, BeginDoc(e, o, force) PROVE Crew'
  <2>1. run'.pc = "plan" /\ run'.opts = o /\ DOMAIN run'.busy = {}
    BY <1>4, IdleType DEF BeginDoc, Idle
  <2> QED
    BY <2>1, CrewKept
<1>5. ASSUME NEW e, PlanText(e) \/ Redact(e) PROVE Crew'
  <2>1. \/ run' = [run EXCEPT !.todo = Tail(@), !.busy = Put(<< >>, <<e, "txt">>, Snapshot(e))]
        \/ run' = [run EXCEPT !.todo = Tail(@), !.busy = Put(<< >>, <<e, "cache">>, Snapshot(e))]
        \/ run' = [run EXCEPT !.todo = Tail(@)]
        \/ run' = [run EXCEPT !.todo = Tail(@), !.ok = FALSE]
        \/ run' = [run EXCEPT !.todo = Tail(@), !.queue = <<<<e, "dest">>>>]
    BY <1>5 DEF PlanText, Redact
  <2>2. ASSUME NEW job, NEW x, run' = [run EXCEPT !.todo = Tail(@), !.busy = Put(<< >>, job, x)]
        PROVE  Crew'
    <3>1. Same /\ run'.busy = Put(<< >>, job, x)
      BY <2>2 DEF EInv, Shape, IsRun
    <3>2. DOMAIN run'.busy = {job}
      BY <3>1 DEF Put
    <3> QED
      BY <1>0, <3>1, <3>2, CrewKept
  <2>3. ASSUME run' = [run EXCEPT !.todo = Tail(@)] \/ run' = [run EXCEPT !.todo = Tail(@), !.ok = FALSE]
                 \/ run' = [run EXCEPT !.todo = Tail(@), !.queue = <<<<e, "dest">>>>]
        PROVE  Crew'
    <3>1. Same /\ run'.busy = run.busy
      BY <2>3 DEF EInv, Shape, IsRun
    <3> QED
      BY <1>1, <3>1
  <2> QED
    BY <2>1, <2>2, <2>3
<1>6. ASSUME NEW e, PlanPdf(e) \/ Copy(e) \/ CopyRedacted(e) PROVE Crew'
  <2>1. Same /\ run'.busy = run.busy
    BY <1>6 DEF PlanPdf, Copy, CopyRedacted, EInv, Shape, IsRun
  <2> QED
    BY <1>1, <2>1
<1>7. ASSUME NEW e, FinishRedaction(e) PROVE Crew'
  <2>1. Same /\ DOMAIN run'.busy = {}
    BY <1>7 DEF FinishRedaction, EInv, Shape, IsRun
  <2> QED
    BY <1>1, <2>1
<1>8. ASSUME NEW job, FinishJob(job) \/ FailJob(job) PROVE Crew'
  <2>1. Same /\ run'.busy = Drop(run.busy, job)
    BY <1>8 DEF FinishJob, FailJob, EInv, Shape, IsRun
  <2> QED
    BY <1>1, <2>1 DEF Drop
<1>9. CASE StartJob
  <2> DEFINE job == Head(run.queue)
  <2>1. Same /\ run'.busy = Put(run.busy, job, Snapshot(job[1])) /\ Cardinality(DOMAIN run.busy) < Workers
    BY <1>9 DEF StartJob, EInv, Shape, IsRun
  <2>2. DOMAIN run'.busy = DOMAIN run.busy \cup {job}
    BY <2>1 DEF Put
  <2> QED
    BY <1>0, <2>1, <2>2, CrewKept
<1>10. CASE Record
  <2>1. Same /\ run'.busy = run.busy
    BY <1>10 DEF Record, EInv, Shape, IsRun
  <2> QED
    BY <1>1, <2>1
<1>11. CASE Advance
  <2>1. \E pc \in {"render", "record", "copy", "redact"} :
          \/ run' = [run EXCEPT !.pc = pc]
          \/ \E plan : run' = [run EXCEPT !.pc = pc, !.plan = plan]
          \/ \E todo : run' = [run EXCEPT !.pc = pc, !.todo = todo]
    BY <1>11, StageIs DEF Advance
  <2>2. /\ run'.pc \in Pcs /\ run'.opts = run.opts /\ run'.busy = run.busy /\ run.pc # "idle"
    BY <1>11, <2>1 DEF Advance, EInv, Shape, IsRun
  <2> QED
    BY <1>0, <2>2, CrewKept
<1>12. CASE NextEnvelope
  <2>1. run' = Idle \/ run' = [run EXCEPT !.pc = "plan", !.targets = Tail(@), !.ok = TRUE,
                            !.calm = TRUE, !.todo = Of(Head(Tail(run.targets)), SourceKinds)]
    BY <1>12 DEF NextEnvelope
  <2>2. run' # Idle => run'.pc = "plan" /\ run'.opts = run.opts /\ run'.busy = run.busy
    BY <2>1 DEF EInv, Shape, IsRun
  <2>3. run.pc # "idle"
    BY <1>12 DEF NextEnvelope
  <2> QED
    BY <1>0, <1>2, <2>2, <2>3, CrewKept
<1>13. CASE BuildStep
  <2>1. CASE Raise
    BY <1>2, <2>1 DEF Raise, Stop
  <2> QED
    BY <1>5, <1>6, <1>7, <1>8, <1>9, <1>10, <1>11, <1>12, <1>13, <2>1 DEF BuildStep
<1>14. CASE Kill
  BY <1>2, <1>14 DEF Kill, Stop
<1>15. CASE \/ \E f \in Inputs : Save(f) \/ Restore(f)
            \/ \E t \in Digests : Revert(t)
            \/ \E f \in Files : Lose(f)
            \/ \E path \in AllPaths : Delete(path)
            \/ \E n \in Envelopes : MarkSent(n)
            \/ Clean \/ UNCHANGED vars
  <2>1. Same /\ run'.busy = run.busy
    BY <1>15 DEF Save, Restore, Revert, Change, Lose, Delete, MarkSent, Clean, vars, EInv, Shape, IsRun
  <2> QED
    BY <1>1, <2>1
<1> QED
  BY <1>3, <1>4, <1>13, <1>14, <1>15 DEF Next

LEMMA ObservedStep == EInv /\ Chosen /\ Crew /\ Observed /\ [Next]_vars => Observed'
<1> SUFFICES ASSUME EInv, Chosen, Crew, Observed, [Next]_vars PROVE Observed'
  OBVIOUS
<1> DEFINE Triples == Envelopes \X (Dirs \cup {"none"}) \X Entries
           Marks == torn' \cup raced' \subseteq Triples
           Ended == settled' \subseteq Envelopes \X Asked
           World == lost' \subseteq Files /\ sent' \subseteq Envelopes /\ unseen' \subseteq sent'
<1>1. run.pc # "idle" => Env \in Envelopes /\ Here \in Dirs /\ <<Env, run.opts>> \in Envelopes \X Asked
  <2>1. run.pc # "idle" => Env \in Envelopes
    BY TailSet DEF Chosen, Env
  <2> QED
    BY <2>1 DEF Crew, Here, Dirs
<1>2. World
  BY DEF Next, Begin, BeginDoc, BuildStep, PlanText, PlanPdf, Copy, Redact, FinishRedaction,
     CopyRedacted, FinishJob, FailJob, StartJob, Record, Advance, NextEnvelope, Raise, Kill, Stop,
     Save, Restore, Revert, Change, Lose, Delete, MarkSent, Clean, vars, world, Observed
<1>3. Marks
  <2>1. ASSUME NEW job \in DOMAIN run.busy, FinishJob(job) PROVE Marks
    <3>1. job[1] \in Entries /\ run.pc # "idle"
      BY DEF EInv, Shape, Jobs, Chosen
    <3> QED
      BY <1>1, <2>1, <3>1 DEF FinishJob, Dir, Observed
  <2>2. CASE Record
    <3>1. run.plan \in Seq(Plans) /\ run.plan # << >> /\ run.pc # "idle"
      BY <2>2 DEF Record, EInv, Shape, IsRun
    <3>2. Head(run.plan) \in Plans
      BY <3>1, TailSet
    <3>3. Head(run.plan).entry \in Entries
      BY <3>2 DEF Plans
    <3> QED
      BY <1>1, <2>2, <3>1, <3>3 DEF Record, Observed
  <2>3. ASSUME UNCHANGED <<torn, raced>> PROVE Marks
    BY <2>3 DEF Observed
  <2>6. ASSUME NEW e, FinishRedaction(e) PROVE Marks
    BY <2>6 DEF FinishRedaction, Sources, Observed
  <2>4. CASE BuildStep
    BY <2>1, <2>2, <2>3, <2>4, <2>6 DEF BuildStep, PlanText, PlanPdf, Copy, Redact,
       CopyRedacted, FailJob, StartJob, Advance, NextEnvelope, Raise, Stop, observed
  <2>5. CASE ~BuildStep
    BY <2>3, <2>5 DEF Next, Begin, BeginDoc, Kill, Stop, Save, Restore, Revert, Change, Lose,
       Delete, MarkSent, Clean, vars, observed
  <2> QED
    BY <2>4, <2>5
<1>4. Ended
  <2>1. CASE NextEnvelope
    <3>1. settled' \subseteq settled \cup {<<Env, run.opts>>} /\ run.pc # "idle"
      BY <2>1 DEF NextEnvelope, Unsettle
    <3> QED
      BY <1>1, <3>1 DEF Observed
  <2>2. ASSUME settled' \subseteq settled PROVE Ended
    BY <2>2 DEF Observed
  <2>3. CASE BuildStep
    BY <2>1, <2>2, <2>3 DEF BuildStep, PlanText, PlanPdf, Copy, Redact, FinishRedaction,
       CopyRedacted, FinishJob, FailJob, StartJob, Record, Advance, Raise, Stop, observed
  <2>4. CASE ~BuildStep
    BY <2>2, <2>4 DEF Next, Begin, BeginDoc, Unsettle, Kill, Stop, Save, Restore, Revert, Change, Disturb,
       Lose, Delete, MarkSent, Clean, vars, observed
  <2> QED
    BY <2>3, <2>4
<1> QED
  BY <1>2, <1>3, <1>4 DEF Observed

\* The state has the types TypeOK gives, for any envelopes and any number of
\* renderers: never more at work than there are workers, and no file from a time
\* that is still to come.
THEOREM TypeCorrect == Spec => []TypeOK
<1>1. Init => Chosen /\ Timed /\ Crew /\ Observed
  <2> SUFFICES ASSUME Init PROVE Chosen /\ Timed /\ Crew /\ Observed
    OBVIOUS
  <2>1. Timed
    BY IdleType, NothingIn DEF Init, Timed, Dated, Absent, Digests, None
  <2>2. Crew /\ Chosen
    BY IdleType, FS_EmptySet, EnvelopeAssumption DEF Init, Crew, Chosen
  <2>3. Observed
    BY DEF Init, Observed
  <2> QED
    BY <2>1, <2>2, <2>3
<1>2. EInv /\ Timed /\ Crew /\ Observed => TypeOK
  BY DEF EInv, Shape, Timed, Dated, Crew, Observed, TypeOK
<1> QED
  BY <1>1, <1>2, Invariant, ChosenStep, TimedStep, CrewStep, ObservedStep, PTL DEF Spec

-----------------------------------------------------------------------------
\* Rebuilding comes to rest.  An entry of the envelope that is being built is
\* fresh, or the build has still to come to it; nobody else touches it.
FreshEntry(n, e, o) ==
  /\ IsText(e)     => FreshText(n, e)
  /\ IsRendered(e) => FreshRender(n, e, o)
  /\ Kind[e] = "copy" => FreshCopy(n, e, o)
  /\ Kind[e] = "redacted" => FreshRedact(n, e, o)

CacheFresh(e) == Inspectable(e) /\ ~Old({cache[e]}, Uses[e])

Early == run.pc \in {"plan", "render", "record"}

TextToCome(e) == (run.pc = "plan" /\ e \in ToSet(run.todo)) \/ <<e, "txt">> \in DOMAIN run.busy

RenderToCome(e) ==
  \/ run.pc = "plan" /\ e \in ToSet(run.todo)
  \/ Early /\ \E p \in ToSet(run.plan) : p.entry = e

CopyToCome(e) == Early \/ (run.pc = "copy" /\ e \in ToSet(run.todo))

RedactToCome(e) ==
  \/ Early \/ run.pc = "copy"
  \/ run.pc = "redact" /\ e \in ToSet(run.todo)
  \/ <<e, "cache">> \in DOMAIN run.busy
  \/ run.pc = "redact" /\ CacheFresh(e) /\ run.queue = <<<<e, "dest">>>>

ToCome(e) ==
  \/ IsText(e) /\ TextToCome(e)
  \/ IsRendered(e) /\ RenderToCome(e)
  \/ Kind[e] = "copy" /\ CopyToCome(e)
  \/ Kind[e] = "redacted" /\ RedactToCome(e)

\* A job is to be done, is being done, or has left its output.
Coming(e, j) ==
  \/ j \in ToSet(run.queue)
  \/ j \in DOMAIN run.busy
  \/ Inspectable(e) /\ \A part \in Written(e, j[2]) : Artifact(<<Env, Here, e>>, part) # Absent

Going == run.pc # "idle" /\ run.calm /\ run.ok /\ ~run.doc

Foreseen(p) ==
  /\ p.defaults = time[Defaults] /\ (p.seen <=> Inspectable(p.entry))
  /\ p.entry \in ToSet(Holds[Env]) => \A j \in ToSet(JobsOf(p.entry)) : Coming(p.entry, j)

Promised ==
  Going =>
    /\ \A p \in ToSet(run.plan) : Foreseen(p)
    /\ \A j \in DOMAIN run.busy : run.busy[j].good <=> Inspectable(j[1])
    /\ \A e \in ToSet(Holds[Env]) : FreshEntry(Env, e, run.opts) \/ ToCome(e)

\* What was settled is fresh, and no build of it is running.
Rests ==
  \A x \in settled : CheckStaleness(x[1], x[2]) /\ (run.pc # "idle" => x[1] # Env)

\* No envelope is built twice by a build.
Once ==
  run.pc # "idle" => \A i, j \in DOMAIN run.targets : run.targets[i] = run.targets[j] => i = j

\* The list of what is to do is a sequence; a redaction is alone.
Listed == \E S : run.todo \in Seq(S)

Hands ==
  /\ \A j \in DOMAIN run.busy : j[2] # "dest"
  /\ run.pc # "redact" => \A j \in ToSet(run.queue) : j[2] # "dest"
  /\ run.pc = "redact" => \/ DOMAIN run.busy = {}
                          \/ run.queue = << >> /\ \E e : DOMAIN run.busy = {<<e, "cache">>}

Typed == EInv /\ Chosen /\ Crew /\ Timed /\ Observed
House == Once /\ Listed /\ Hands

-----------------------------------------------------------------------------
\* An entry stays fresh when its outputs, its record and its inputs are let alone.
LEMMA FreshKept ==
  ASSUME NEW n, NEW e, NEW o, UNCHANGED <<time, lost>>,
         \A p \in Paths(n, o.variant, e) : out'[p] = out[p],
         Kind[e] = "redacted" => cache'[e] = cache[e],
         IsRendered(e) => manifest'[<<n, o.variant, e>>] = manifest[<<n, o.variant, e>>],
         FreshEntry(n, e, o)
  PROVE  FreshEntry(n, e, o)'
<1>1. At(Paths(n, o.variant, e))' = At(Paths(n, o.variant, e))
  BY DEF At
<1>2. IsText(e) => <<n, "none", e, "txt">> \in Paths(n, o.variant, e)
  BY DEF IsText, TextKinds, Paths, Parts, Dir
<1>3. IsText(e) => At({<<n, "none", e, "txt">>})' = At({<<n, "none", e, "txt">>})
  BY <1>2 DEF At
<1>4. IsText(e) => FreshText(n, e)'
  BY <1>3 DEF FreshEntry, FreshText, Old, Missing
<1>5. IsRendered(e) => FreshRender(n, e, o)'
  BY <1>1 DEF FreshEntry, FreshRender, ManifestStale, Inspectable, Old, Missing, OptionsOf,
              RenderOptions, Fingerprint, SourceDeps
<1>6. Kind[e] = "copy" => FreshCopy(n, e, o)'
  BY <1>1 DEF FreshEntry, FreshCopy, Old, Missing
<1>7. Kind[e] = "redacted" => FreshRedact(n, e, o)'
  BY <1>1 DEF FreshEntry, FreshRedact, Inspectable, Old, Missing, DestOld
<1> QED
  BY <1>4, <1>5, <1>6, <1>7 DEF FreshEntry

LEMMA EntryPaths ==
  ASSUME NEW n, NEW v, NEW e, NEW p \in Paths(n, v, e)
  PROVE  p[1] = n /\ p[3] = e
BY DEF Paths

LEMMA CheckIsFresh ==
  ASSUME NEW n, NEW o
  PROVE  CheckStaleness(n, o) <=> \A e \in ToSet(Holds[n]) : FreshEntry(n, e, o)
BY DEF CheckStaleness, FreshEntry

LEMMA PathsIn ==
  ASSUME NEW n \in Envelopes, NEW o \in Asked, NEW e \in ToSet(Holds[n])
  PROVE  e \in Entries /\ <<n, o.variant, e>> \in Sources /\ Paths(n, o.variant, e) \subseteq AllPaths
<1>1. e \in Entries
  BY EnvelopeAssumption, ToSetIn
<1>2. <<n, o.variant, e>> \in Sources
  BY <1>1 DEF Sources, Dirs
<1> QED
  BY <1>1, <1>2 DEF AllPaths

LEMMA InBuild ==
  ASSUME Typed, run.pc # "idle"
  PROVE  /\ Env \in Envelopes /\ run.opts \in Asked /\ Env \in ToSet(run.targets)
         /\ \A e \in ToSet(Holds[Env]) :
              e \in Entries /\ <<Env, Here, e>> \in Sources /\ Paths(Env, Here, e) \subseteq AllPaths
<1>1. Env \in Envelopes /\ run.opts \in Asked /\ Env \in ToSet(run.targets)
  BY TailSet DEF Typed, Chosen, Crew, Env
<1> QED
  BY <1>1, PathsIn DEF Here

\* What is settled stays so while another envelope is built.
LEMMA RestsKept ==
  ASSUME Typed, Rests, UNCHANGED <<time, lost, cache>>, settled' \subseteq settled,
         run.pc # "idle" \/ UNCHANGED <<out, manifest>>,
         \A p \in AllPaths : p[1] # Env => out'[p] = out[p],
         \A s \in Sources : s[1] # Env => manifest'[s] = manifest[s],
         run'.pc # "idle" => \A x \in settled' : x[1] # Env'
  PROVE  Rests'
<1> SUFFICES ASSUME NEW x \in settled' PROVE CheckStaleness(x[1], x[2])'
  BY DEF Rests
<1>1. x \in settled /\ CheckStaleness(x[1], x[2]) /\ x[1] \in Envelopes /\ x[2] \in Asked
  BY DEF Rests, Typed, Observed
<1>2. x[1] # Env \/ UNCHANGED <<out, manifest>>
  BY <1>1 DEF Rests
<1>3. ASSUME NEW e \in ToSet(Holds[x[1]]) PROVE FreshEntry(x[1], e, x[2])'
  <2>1. FreshEntry(x[1], e, x[2])
    BY <1>1, <1>3, CheckIsFresh
  <2>2. \A p \in Paths(x[1], x[2].variant, e) : out'[p] = out[p]
    <3> TAKE p \in Paths(x[1], x[2].variant, e)
    <3>1. p \in AllPaths
      BY <1>1, <1>3, PathsIn
    <3>2. p[1] = x[1]
      BY EntryPaths
    <3> QED
      BY <1>2, <3>1, <3>2
  <2>3. manifest'[<<x[1], x[2].variant, e>>] = manifest[<<x[1], x[2].variant, e>>]
    BY <1>1, <1>2, <1>3, PathsIn
  <2> QED
    BY <2>1, <2>2, <2>3, FreshKept
<1>4. (\A e \in ToSet(Holds[x[1]]) : FreshEntry(x[1], e, x[2]))'
  BY <1>3
<1> QED
  BY <1>4 DEF CheckStaleness, FreshEntry

-----------------------------------------------------------------------------
\* The entries of some kinds are all in their list.
LEMMA OfHolds ==
  ASSUME NEW n \in Envelopes, NEW kinds
  PROVE  /\ \E S : Of(n, kinds) \in Seq(S)
         /\ \A e \in ToSet(Holds[n]) : Kind[e] \in kinds => e \in ToSet(Of(n, kinds))
<1> DEFINE places  == {i \in DOMAIN Holds[n] : Kind[Holds[n][i]] \in kinds}
           rank(i) == Cardinality({j \in places : j <= i})
           all     == [k \in 1 .. Cardinality(places) |-> Holds[n][CHOOSE i \in places : rank(i) = k]]
<1>1. Of(n, kinds) = all
  BY DEF Of
<1>2. Holds[n] \in Seq(Entries) /\ DOMAIN Holds[n] = 1 .. Len(Holds[n]) /\ Len(Holds[n]) \in Nat
  BY EnvelopeAssumption
<1>3. places \subseteq Nat /\ IsFiniteSet(places) /\ Cardinality(places) \in Nat
  <2>1. places \subseteq 1 .. Len(Holds[n])
    BY <1>2
  <2>2. IsFiniteSet(1 .. Len(Holds[n]))
    BY <1>2, FS_Interval
  <2> HIDE DEF places
  <2>3. IsFiniteSet(places)
    BY <2>1, <2>2, FS_Subset
  <2> QED
    BY <2>1, <2>3, FS_CardinalityType
<1>4. \A i \in places : rank(i) \in 1 .. Cardinality(places)
  <2> TAKE i \in places
  <2> DEFINE low == {j \in places : j <= i}
  <2>1. low \subseteq places /\ i \in low
    BY <1>3
  <2> HIDE DEF low, places
  <2>2. IsFiniteSet(low) /\ Cardinality(low) \in Nat /\ Cardinality(low) <= Cardinality(places)
    BY <1>3, <2>1, FS_Subset, FS_CardinalityType
  <2>3. Cardinality(low) # 0
    BY <2>1, <2>2, FS_EmptySet
  <2>4. Cardinality(low) \in 1 .. Cardinality(places)
    BY <1>3, <2>2, <2>3
  <2> QED
    BY <2>4 DEF low
<1>5. \A i, j \in places : i < j => rank(i) < rank(j)
  <2> SUFFICES ASSUME NEW i \in places, NEW j \in places, i < j PROVE rank(i) < rank(j)
    OBVIOUS
  <2> DEFINE low == {h \in places : h <= i}  high == {h \in places : h <= j}
  <2>1. low \subseteq high \ {j} /\ j \in high /\ high \subseteq places
    BY <1>3
  <2> HIDE DEF low, high, places
  <2>2. IsFiniteSet(high) /\ IsFiniteSet(high \ {j}) /\ Cardinality(high) \in Nat
        /\ Cardinality(high \ {j}) = Cardinality(high) - 1
    BY <1>3, <2>1, FS_Subset, FS_CardinalityType, FS_RemoveElement
  <2>3. Cardinality(low) <= Cardinality(high \ {j}) /\ Cardinality(low) \in Nat
    BY <2>1, <2>2, FS_Subset, FS_CardinalityType
  <2>4. Cardinality(low) < Cardinality(high)
    BY <2>2, <2>3
  <2> QED
    BY <2>4 DEF low, high
<1> HIDE DEF places, rank
<1>6. \A i, j \in places : rank(i) = rank(j) => i = j
  <2> SUFFICES ASSUME NEW i \in places, NEW j \in places, rank(i) = rank(j), i # j PROVE FALSE
    OBVIOUS
  <2>1. i < j \/ j < i
    BY <1>3
  <2> QED
    BY <1>3, <1>4, <1>5, <2>1
<1>7. \A i \in places : (CHOOSE j \in places : rank(j) = rank(i)) = i
  BY <1>6
<1>8. \A i \in places : rank(i) \in DOMAIN all /\ all[rank(i)] = Holds[n][i]
  BY <1>3, <1>4, <1>7
<1>9. all \in Seq({all[k] : k \in 1 .. Cardinality(places)})
  BY <1>3
<1> HIDE DEF all
<1>10. \A e \in ToSet(Holds[n]) : Kind[e] \in kinds => e \in ToSet(all)
  <2> SUFFICES ASSUME NEW i \in DOMAIN Holds[n], Kind[Holds[n][i]] \in kinds
               PROVE  Holds[n][i] \in ToSet(all)
    BY DEF ToSet
  <2>1. i \in places
    BY DEF places
  <2> QED
    BY <1>8, <2>1 DEF ToSet
<1> QED
  BY <1>1, <1>9, <1>10

LEMMA KindOf ==
  ASSUME NEW e \in Entries
  PROVE  /\ IsText(e) \/ IsRendered(e) \/ Kind[e] \in {"copy", "redacted"}
         /\ ~(IsText(e) /\ IsRendered(e))
         /\ Kind[e] \in {"copy", "redacted"} => ~IsText(e) /\ ~IsRendered(e)
         /\ IsText(e) \/ IsRendered(e) => Kind[e] \in SourceKinds
BY EnvelopeAssumption DEF IsText, IsRendered, Kinds, TextKinds, RenderedKinds, SourceKinds

-----------------------------------------------------------------------------
\* The house keeping: what is asked of a step that goes on, or ends.
LEMMA HouseOn ==
  ASSUME Typed, House, run'.targets = run.targets, run.pc # "idle",
         run'.todo = run.todo \/ (run.todo # << >> /\ run'.todo = Tail(run.todo))
           \/ (\E kinds : run'.todo = Of(Env, kinds)),
         Hands'
  PROVE  House'
<1>1. Once'
  BY DEF House, Once
<1>2. Listed'
  <2>1. CASE run'.todo = run.todo
    BY <2>1 DEF House, Listed
  <2>2. CASE run.todo # << >> /\ run'.todo = Tail(run.todo)
    BY <2>2, TailSet DEF House, Listed
  <2>3. CASE \E kinds : run'.todo = Of(Env, kinds)
    BY <2>3, InBuild, OfHolds DEF Listed
  <2> QED
    BY <2>1, <2>2, <2>3
<1> QED
  BY <1>1, <1>2 DEF House

LEMMA HouseIdle ==
  ASSUME run' = Idle
  PROVE  House'
<1>1. run'.pc = "idle" /\ DOMAIN run'.busy = {} /\ ToSet(run'.queue) = {} /\ run'.todo = << >>
  BY IdleType DEF Idle
<1>2. << >> \in Seq({})
  BY EmptySeq
<1> QED
  BY <1>1, <1>2 DEF House, Once, Listed, Hands

LEMMA SetSeqOnce ==
  ASSUME NEW S, IsFiniteSet(S), NEW i \in DOMAIN SetToSeq(S), NEW j \in DOMAIN SetToSeq(S),
         SetToSeq(S)[i] = SetToSeq(S)[j]
  PROVE  i = j
<1>1. Cardinality(S) \in Nat /\ ExistsBijection(1 .. Cardinality(S), S)
  BY FS_CardinalityType
<1>2. PICK f \in [1 .. Cardinality(S) -> S] : f \in Injection(1 .. Cardinality(S), S)
  BY <1>1 DEF ExistsBijection, Bijection, Injection
<1>3. IsInjective(f)
  BY <1>2 DEF Injection
<1>4. IsInjective(SetToSeq(S))
  BY <1>3 DEF SetToSeq
<1> QED
  BY <1>4 DEF IsInjective

LEMMA HouseBegin ==
  ASSUME NEW S \in SUBSET Envelopes, S # {},
         run'.targets = SetToSeq(S), run'.pc = "plan", DOMAIN run'.busy = {}, run'.queue = << >>,
         (\E kinds : run'.todo = Of(Head(SetToSeq(S)), kinds)) \/ (\E e : run'.todo = <<e>>)
  PROVE  House'
<1>1. IsFiniteSet(S)
  BY FS_Subset, EnvelopeAssumption
<1>2. Once'
  BY <1>1, SetSeqOnce DEF Once
<1>3. Head(SetToSeq(S)) \in Envelopes
  <2>1. SetToSeq(S) \in Seq(S) /\ SetToSeq(S) # << >>
    BY <1>1, SetSeq
  <2> QED
    BY <2>1, TailSet
<1>4. Listed'
  <2>1. ASSUME NEW e, run'.todo = <<e>> PROVE Listed'
    <3>1. <<e>> \in Seq({e})
      OBVIOUS
    <3> QED
      BY <2>1, <3>1 DEF Listed
  <2> QED
    BY <1>3, <2>1, OfHolds DEF Listed
<1>5. Hands'
  BY NothingIn DEF Hands
<1> QED
  BY <1>2, <1>4, <1>5 DEF House

LEMMA HouseNext ==
  ASSUME Typed, House, NextEnvelope
  PROVE  House'
<1>1. CASE run' = Idle
  BY <1>1, HouseIdle
<1>2. CASE run' # Idle
  <2>1. /\ run' = [run EXCEPT !.pc = "plan", !.targets = Tail(@), !.ok = TRUE,
                            !.calm = TRUE, !.todo = Of(Head(Tail(run.targets)), SourceKinds)]
        /\ Len(run.targets) # 1
    BY <1>2 DEF NextEnvelope
  <2>2. /\ run'.pc = "plan" /\ run'.targets = Tail(run.targets) /\ run'.busy = run.busy
        /\ run'.queue = run.queue /\ run'.todo = Of(Head(Tail(run.targets)), SourceKinds)
    BY <2>1 DEF Typed, EInv, Shape, IsRun
  <2>3. run.targets \in Seq(Envelopes) /\ run.targets # << >> /\ run.pc # "idle"
    BY DEF Typed, Chosen, NextEnvelope
  <2>4. /\ Len(run.targets) \in Nat /\ Len(run.targets) > 1 /\ DOMAIN run.targets = 1 .. Len(run.targets)
    <3>1. Len(run.targets) \in Nat /\ Len(run.targets) # 0 /\ DOMAIN run.targets = 1 .. Len(run.targets)
      BY <2>3, EmptySeq, LenProperties
    <3>2. Len(run.targets) # 1
      BY <2>1
    <3>3. \A L \in Nat : L # 0 /\ L # 1 => L > 1
      OBVIOUS
    <3>4. Len(run.targets) > 1
      BY Zenon, <3>1, <3>2, <3>3
    <3> QED
      BY <3>1, <3>4
  <2>5. /\ Tail(run.targets) \in Seq(Envelopes) /\ Tail(run.targets) # << >>
        /\ DOMAIN Tail(run.targets) = 1 .. Len(run.targets) - 1
        /\ \A i \in 1 .. Len(run.targets) - 1 : Tail(run.targets)[i] = run.targets[i + 1]
    <3>1. /\ Tail(run.targets) \in Seq(Envelopes) /\ Len(Tail(run.targets)) = Len(run.targets) - 1
          /\ \A i \in 1 .. Len(Tail(run.targets)) : Tail(run.targets)[i] = run.targets[i + 1]
      BY <2>3, HeadTailProperties
    <3>2. DOMAIN Tail(run.targets) = 1 .. Len(run.targets) - 1 /\ Len(Tail(run.targets)) # 0
      <4> DEFINE L == Len(run.targets)  tail == Tail(run.targets)
      <4>1. L \in Nat /\ L > 1 /\ Len(tail) = L - 1 /\ tail \in Seq(Envelopes)
        BY <2>4, <3>1
      <4>2. DOMAIN tail = 1 .. Len(tail)
        BY <4>1, LenProperties
      <4> HIDE DEF L, tail
      <4>3. DOMAIN tail = 1 .. L - 1 /\ Len(tail) # 0
        BY <4>1, <4>2
      <4> QED
        BY <4>3 DEF L, tail
    <3> QED
      BY <3>1, <3>2, EmptySeq
  <2>6. Once'
    <3> SUFFICES ASSUME NEW i \in DOMAIN Tail(run.targets), NEW j \in DOMAIN Tail(run.targets),
                        Tail(run.targets)[i] = Tail(run.targets)[j]
                 PROVE  i = j
      BY <2>2 DEF Once
    <3>1. i \in Nat /\ j \in Nat /\ i + 1 \in DOMAIN run.targets /\ j + 1 \in DOMAIN run.targets
          /\ run.targets[i + 1] = run.targets[j + 1]
      BY <2>4, <2>5, SMTT(60)
    <3>2. i + 1 = j + 1
      BY <2>3, <3>1 DEF House, Once
    <3> QED
      BY <3>1, <3>2
  <2>7. Listed'
    <3>1. Head(Tail(run.targets)) \in Envelopes
      BY <2>5, TailSet
    <3> QED
      BY <2>2, <3>1, OfHolds DEF Listed
  <2>8. Hands'
    <3>1. ToSet(run.queue) = {}
      BY NothingIn DEF NextEnvelope, Typed, EInv, Staged
    <3> QED
      BY <2>2, <3>1 DEF House, Hands
  <2> QED
    BY <2>6, <2>7, <2>8 DEF House
<1> QED
  BY <1>1, <1>2

LEMMA HouseBuild ==
  ASSUME Typed, House, BuildStep, ~NextEnvelope, ~Raise
  PROVE  House'
<1>0. /\ run.pc # "idle" /\ run'.targets = run.targets /\ run.queue \in Seq(Jobs)
      /\ DOMAIN run.busy \subseteq Jobs
  BY RunStep DEF Typed, EInv, Shape, IsRun
<1> DEFINE Goal == House'
<1>1. ASSUME NEW e, PlanText(e) PROVE Goal
  <2>1. /\ run'.pc = "plan" /\ run.todo # << >> /\ run'.todo = Tail(run.todo) /\ run'.queue = run.queue
        /\ run.pc = "plan" /\ run'.busy \in {run.busy, Put(<< >>, <<e, "txt">>, Snapshot(e))}
    BY <1>1 DEF PlanText, Typed, EInv, Shape, IsRun
  <2>2. DOMAIN Put(<< >>, <<e, "txt">>, Snapshot(e)) = {<<e, "txt">>}
    BY DEF Put
  <2>3. Hands'
    BY <2>1, <2>2 DEF House, Hands
  <2> QED
    BY <1>0, <2>1, <2>3, HouseOn
<1>2. ASSUME NEW e \in Entries, PlanPdf(e) PROVE Goal
  <2>1. /\ run'.pc = "plan" /\ run.todo # << >> /\ run'.todo = Tail(run.todo)
        /\ run'.queue \in {run.queue, run.queue \o JobsOf(e)}
        /\ run.pc = "plan" /\ run'.busy = run.busy /\ IsRendered(e)
    BY <1>2 DEF PlanPdf, Typed, EInv, Shape, IsRun
  <2>2. ToSet(run.queue \o JobsOf(e)) \subseteq ToSet(run.queue) \cup {<<e, "pdf">>, <<e, "docx">>}
    BY <1>0, <2>1, JobsOfSource, ConcatSet
  <2>4. \A j \in ToSet(run'.queue) : j[2] # "dest"
    <3>1. \A j \in ToSet(run.queue) : j[2] # "dest"
      BY <2>1 DEF House, Hands
    <3>2. <<e, "pdf">>[2] # "dest" /\ <<e, "docx">>[2] # "dest"
      OBVIOUS
    <3>3. ToSet(run'.queue) \subseteq ToSet(run.queue) \cup {<<e, "pdf">>, <<e, "docx">>}
      BY <2>1, <2>2
    <3> QED
      BY <3>1, <3>2, <3>3
  <2>3. Hands'
    BY <2>1, <2>4 DEF House, Hands
  <2> QED
    BY <1>0, <2>1, <2>3, HouseOn
<1>3. ASSUME NEW e, Copy(e) PROVE Goal
  <2>1. /\ run'.pc = run.pc /\ run.todo # << >> /\ run'.todo = Tail(run.todo)
        /\ run'.queue = run.queue /\ run'.busy = run.busy
    BY <1>3 DEF Copy, Typed, EInv, Shape, IsRun
  <2>2. Hands'
    BY <2>1 DEF House, Hands
  <2> QED
    BY <1>0, <2>1, <2>2, HouseOn
<1>4. ASSUME NEW e, Redact(e) PROVE Goal
  <2>1. /\ run'.pc = "redact" /\ run.todo # << >> /\ run'.todo = Tail(run.todo) /\ run.busy = << >>
        /\ run.queue = << >>
        /\ \/ run'.busy = run.busy
           \/ run'.busy = Put(<< >>, <<e, "cache">>, Snapshot(e)) /\ run'.queue = run.queue
    BY <1>4 DEF Redact, Typed, EInv, Shape, IsRun
  <2>2. DOMAIN Put(<< >>, <<e, "cache">>, Snapshot(e)) = {<<e, "cache">>} /\ DOMAIN << >> = {}
    BY DEF Put
  <2>4. ASSUME run'.busy = run.busy PROVE Hands'
    BY <2>1, <2>2, <2>4 DEF Hands
  <2>5. ASSUME run'.busy = Put(<< >>, <<e, "cache">>, Snapshot(e)) /\ run'.queue = run.queue
        PROVE  Hands'
    <3>1. DOMAIN run'.busy = {<<e, "cache">>} /\ run'.queue = << >> /\ <<e, "cache">>[2] # "dest"
      BY <2>1, <2>2, <2>5
    <3> QED
      BY <2>1, <3>1 DEF Hands
  <2>3. Hands'
    BY <2>1, <2>4, <2>5
  <2> QED
    BY <1>0, <2>1, <2>3, HouseOn
<1>5. ASSUME NEW e, FinishRedaction(e) PROVE Goal
  <2>1. run.pc = "redact"
    BY <1>5 DEF FinishRedaction, Typed, EInv, Staged
  <2>2. run'.pc = "redact" /\ DOMAIN run'.busy = {} /\ run'.todo = run.todo
    BY <1>5, <2>1 DEF FinishRedaction, Typed, EInv, Shape, IsRun
  <2>3. Hands'
    BY <2>2 DEF Hands
  <2> QED
    BY <1>0, <2>2, <2>3, HouseOn
<1>6. ASSUME NEW e, CopyRedacted(e) PROVE Goal
  <2>1. run.pc = "redact" /\ run'.pc = "redact" /\ run'.busy = run.busy /\ run'.todo = run.todo
        /\ run'.queue = << >>
    BY <1>6 DEF CopyRedacted, Typed, EInv, Shape, IsRun
  <2>2. Hands'
    BY <2>1 DEF House, Hands
  <2> QED
    BY <1>0, <2>1, <2>2, HouseOn
<1>7. ASSUME NEW j, FinishJob(j) \/ FailJob(j) PROVE Goal
  <2>1. run'.pc = run.pc /\ run'.busy = Drop(run.busy, j) /\ run'.todo = run.todo
        /\ run'.queue = run.queue
    BY <1>7 DEF FinishJob, FailJob, Typed, EInv, Shape, IsRun
  <2>2. DOMAIN run'.busy = DOMAIN run.busy \ {j}
    BY <2>1 DEF Drop
  <2>3. Hands'
    BY <2>1, <2>2 DEF House, Hands
  <2> QED
    BY <1>0, <2>1, <2>3, HouseOn
<1>8. CASE StartJob
  <2> DEFINE job == Head(run.queue)
  <2>1. run'.pc = "render" /\ run.pc = "render" /\ run.queue # << >> /\ run'.queue = Tail(run.queue)
        /\ run'.busy = Put(run.busy, job, Snapshot(job[1])) /\ run'.todo = run.todo
    BY <1>8 DEF StartJob, Typed, EInv, Shape, IsRun
  <2>2. ToSet(run.queue) = {job} \cup ToSet(run'.queue) /\ DOMAIN run'.busy = DOMAIN run.busy \cup {job}
    BY <1>0, <2>1, TailSet DEF Put
  <2>3. Hands'
    BY <2>1, <2>2 DEF House, Hands
  <2> QED
    BY <1>0, <2>1, <2>3, HouseOn
<1>9. CASE Record
  <2>1. run'.pc = run.pc /\ run'.busy = run.busy /\ run'.todo = run.todo /\ run'.queue = run.queue
    BY <1>9 DEF Record, Typed, EInv, Shape, IsRun
  <2>2. Hands'
    BY <2>1 DEF House, Hands
  <2> QED
    BY <1>0, <2>1, <2>2, HouseOn
<1>10. CASE Advance
  <2>1. /\ run'.busy = run.busy /\ run'.queue = run.queue
        /\ run'.todo = run.todo \/ \E kinds : run'.todo = Of(Env, kinds)
        /\ run'.pc = "redact" => run.pc = "copy"
    BY <1>10 DEF Advance, Stage, Typed, EInv, Shape, IsRun
  <2>2. run.busy = << >> /\ (run.pc # "plan" => run.queue = << >>)
    BY <1>10 DEF Advance
  <2>3. Hands'
    BY <1>10, <2>1, <2>2, NothingIn DEF House, Hands, Advance
  <2> QED
    BY <1>0, <2>1, <2>3, HouseOn
<1> HIDE DEF Goal
<1>11. Goal
  <2>1. CASE \E e \in Entries : \/ PlanText(e) \/ PlanPdf(e) \/ Copy(e)
                                 \/ Redact(e) \/ FinishRedaction(e) \/ CopyRedacted(e)
    BY <1>1, <1>2, <1>3, <1>4, <1>5, <1>6, <2>1
  <2>2. CASE \E j \in DOMAIN run.busy : FinishJob(j) \/ FailJob(j)
    BY <1>7, <2>2
  <2>3. \/ \E e \in Entries : \/ PlanText(e) \/ PlanPdf(e) \/ Copy(e)
                              \/ Redact(e) \/ FinishRedaction(e) \/ CopyRedacted(e)
        \/ \E j \in DOMAIN run.busy : FinishJob(j) \/ FailJob(j)
        \/ StartJob \/ Record \/ Advance
    BY Zenon DEF BuildStep
  <2> QED
    BY <1>8, <1>9, <1>10, <2>1, <2>2, <2>3 DEF Goal
<1> QED
  BY <1>11 DEF Goal

-----------------------------------------------------------------------------
\* The entries, one step after the other.
LEMMA StillFresh ==
  ASSUME run'.opts = run.opts, run'.targets = run.targets, UNCHANGED <<time, lost>>, NEW d,
         \A p \in Paths(Env, Here, d) : out'[p] = out[p],
         Kind[d] = "redacted" => cache'[d] = cache[d],
         IsRendered(d) => manifest'[<<Env, Here, d>>] = manifest[<<Env, Here, d>>],
         FreshEntry(Env, d, run.opts)
  PROVE  FreshEntry(Env, d, run.opts)'
<1> DEFINE n == Env  o == run.opts
<1>1. n' = n /\ o' = o /\ Here = o.variant
  BY DEF Env, Here
<1> HIDE DEF n, o
<1>2. ASSUME NEW m, m = n, NEW q, q = o PROVE FreshEntry(m, d, q)'
  BY <1>1, <1>2, FreshKept DEF n, o
<1>3. \A m, q : m = n /\ q = o => FreshEntry(m, d, q)'
  BY <1>2
<1> QED
  BY <1>1, <1>3 DEF n, o

LEMMA PromiseOn ==
  ASSUME Promised, run.pc # "idle", run'.opts = run.opts, run'.targets = run.targets,
         run'.calm = run.calm, run'.doc = run.doc, run'.ok => run.ok, UNCHANGED <<time, lost>>,
         Going =>
           /\ \A p \in ToSet(run'.plan) :
                \/ p \in ToSet(run.plan)
                \/ /\ p.defaults = time[Defaults] /\ (p.seen <=> Inspectable(p.entry))
                   /\ \A j \in ToSet(JobsOf(p.entry)) : j \in ToSet(run'.queue)
           /\ \A p \in ToSet(run.plan) : p.entry \in ToSet(Holds[Env]) =>
                \A j \in ToSet(JobsOf(p.entry)) : Coming(p.entry, j) => Coming(p.entry, j)'
           /\ \A j \in DOMAIN run'.busy :
                \/ j \in DOMAIN run.busy /\ run'.busy[j] = run.busy[j]
                \/ run'.busy[j].good <=> Inspectable(j[1])
           /\ \A d \in ToSet(Holds[Env]) :
                FreshEntry(Env, d, run.opts) \/ ToCome(d) => FreshEntry(Env, d, run.opts)' \/ ToCome(d)'
  PROVE  Promised'
<1> SUFFICES ASSUME Going'
             PROVE  /\ \A p \in ToSet(run'.plan) : Foreseen(p)'
                    /\ \A j \in DOMAIN run'.busy : run'.busy[j].good <=> Inspectable(j[1])'
                    /\ \A e \in ToSet(Holds[Env'])  : FreshEntry(Env, e, run.opts)' \/ ToCome(e)'
  BY DEF Promised
<1>1. Going
  BY DEF Going
<1>2. Env' = Env /\ \A e : Inspectable(e)' <=> Inspectable(e)
  BY DEF Env, Inspectable
<1>3. ASSUME NEW p \in ToSet(run'.plan) PROVE Foreseen(p)'
  <2>1. CASE p \in ToSet(run.plan)
    <3>1. Foreseen(p)
      BY <1>1, <2>1 DEF Promised
    <3> QED
      BY <1>1, <1>2, <2>1, <3>1 DEF Foreseen
  <2>2. CASE p \notin ToSet(run.plan)
    BY <1>1, <1>2, <1>3, <2>2 DEF Foreseen, Coming
  <2> QED
    BY <2>1, <2>2
<1>4. ASSUME NEW j \in DOMAIN run'.busy PROVE run'.busy[j].good <=> Inspectable(j[1])'
  BY <1>1, <1>2, <1>4 DEF Promised
<1>5. ASSUME NEW e \in ToSet(Holds[Env']) PROVE FreshEntry(Env, e, run.opts)' \/ ToCome(e)'
  BY <1>1, <1>2, <1>5 DEF Promised
<1> QED
  BY <1>3, <1>4, <1>5

LEMMA PlanTextPromise ==
  ASSUME Typed, House, Promised, NEW e \in Entries, PlanText(e)
  PROVE  Promised'
<1>1. /\ run.pc = "plan" /\ run'.pc = "plan" /\ run'.opts = run.opts /\ run'.targets = run.targets
      /\ run'.calm = run.calm /\ run'.doc = run.doc /\ run'.ok = run.ok /\ run'.plan = run.plan
      /\ run'.queue = run.queue /\ run'.todo = Tail(run.todo) /\ UNCHANGED <<time, lost, out, cache, manifest>>
      /\ run.busy = << >> /\ run.todo # << >> /\ e = Head(run.todo) /\ IsText(e)
      /\ \/ run'.busy = Put(<< >>, <<e, "txt">>, Snapshot(e))
         \/ run'.busy = run.busy /\ ~Old({out[<<Env, "none", e, "txt">>]}, TextDeps(e))
  BY DEF PlanText, world, Typed, EInv, Shape, IsRun
<1>2. ToSet(run.todo) = {e} \cup ToSet(Tail(run.todo)) /\ DOMAIN run.busy = {}
  BY <1>1, TailSet DEF House, Listed
<1>3. \/ DOMAIN run'.busy = {<<e, "txt">>} /\ (run'.busy[<<e, "txt">>].good <=> Inspectable(e))
      \/ DOMAIN run'.busy = {} /\ FreshText(Env, e)
  <2>1. CASE run'.busy = Put(<< >>, <<e, "txt">>, Snapshot(e))
    BY <2>1 DEF Put, Snapshot
  <2>2. CASE run'.busy = run.busy /\ ~Old({out[<<Env, "none", e, "txt">>]}, TextDeps(e))
    BY <1>2, <2>2 DEF FreshText, At
  <2> QED
    BY <1>1, <2>1, <2>2
<1>4. \A d, j : Coming(d, j) => Coming(d, j)'
  BY <1>1, <1>2 DEF Coming, Inspectable, Artifact, Env, Here
<1>5. \A d \in ToSet(Holds[Env]) :
        FreshEntry(Env, d, run.opts) => FreshEntry(Env, d, run.opts)'
  BY <1>1, StillFresh
<1>6. ASSUME NEW d \in ToSet(Holds[Env]), ToCome(d) PROVE FreshEntry(Env, d, run.opts)' \/ ToCome(d)'
  <2>1. CASE IsText(d)
    <3>1. d = e \/ d \in ToSet(run'.todo)
      BY <1>1, <1>2, <1>6, <2>1, KindOf DEF ToCome, TextToCome, IsText, IsRendered, TextKinds, RenderedKinds
    <3>2. CASE d \in ToSet(run'.todo)
      BY <1>1, <2>1, <3>2 DEF ToCome, TextToCome
    <3>3. CASE d = e /\ DOMAIN run'.busy = {<<e, "txt">>}
      BY <2>1, <3>3 DEF ToCome, TextToCome
    <3>4. CASE d = e /\ FreshText(Env, e)
      <4>1. FreshEntry(Env, d, run.opts)
        BY <2>1, <3>4, KindOf DEF FreshEntry
      <4> QED
        BY <1>5, <4>1
    <3> QED
      BY <1>3, <3>1, <3>2, <3>3, <3>4
  <2>2. CASE ~IsText(d)
    <3>1. d # e
      BY <1>1, <2>2
    <3>2. ~<<d, "cache">> \in DOMAIN run.busy /\ (d \in ToSet(run.todo) => d \in ToSet(run'.todo))
      BY <1>1, <1>2, <3>1
    <3> QED
      BY <1>1, <1>6, <2>2, <3>2 DEF ToCome, RenderToCome, CopyToCome, RedactToCome, Early
  <2> QED
    BY <2>1, <2>2
<1> QED
  BY <1>1, <1>2, <1>3, <1>4, <1>5, <1>6, PromiseOn

LEMMA AppendIs ==
  ASSUME NEW S, NEW s \in Seq(S), NEW x \in S
  PROVE  ToSet(Append(s, x)) = ToSet(s) \cup {x}
<1>1. ToSet(Append(s, x)) \subseteq ToSet(s) \cup {x}
  BY AppendSet
<1>2. /\ Len(Append(s, x)) = Len(s) + 1 /\ Len(s) \in Nat /\ Append(s, x) \in Seq(S)
      /\ \A i \in 1 .. Len(s) : Append(s, x)[i] = s[i]
      /\ Append(s, x)[Len(s) + 1] = x
  BY AppendProperties, LenProperties
<1>3. DOMAIN s = 1 .. Len(s) /\ DOMAIN Append(s, x) = 1 .. Len(s) + 1
  BY <1>2, LenProperties
<1>4. Len(s) + 1 \in DOMAIN Append(s, x) /\ \A i \in DOMAIN s : i \in DOMAIN Append(s, x)
  BY <1>2, <1>3
<1>5. ToSet(s) \cup {x} \subseteq ToSet(Append(s, x))
  BY <1>2, <1>3, <1>4 DEF ToSet
<1> QED
  BY <1>1, <1>5

LEMMA PlanPdfPromise ==
  ASSUME Typed, House, Promised, NEW e \in Entries, PlanPdf(e)
  PROVE  Promised'
<1> DEFINE new == [entry |-> e, defaults |-> time[Defaults], seen |-> Inspectable(e), late |-> FALSE]
<1>1. /\ run.pc = "plan" /\ run'.pc = "plan" /\ run'.opts = run.opts /\ run'.targets = run.targets
      /\ run'.calm = run.calm /\ run'.doc = run.doc /\ run'.ok = run.ok /\ run'.busy = run.busy
      /\ run'.todo = Tail(run.todo) /\ UNCHANGED <<time, lost, out, cache, manifest>>
      /\ run.busy = << >> /\ run.todo # << >> /\ e = Head(run.todo) /\ IsRendered(e)
      /\ \/ run'.queue = run.queue /\ run'.plan = run.plan
              /\ Inspectable(e) /\ ~ManifestStale(Env, e, run.opts)
         \/ run'.queue = run.queue \o JobsOf(e) /\ run'.plan = Append(run.plan, new)
  BY DEF PlanPdf, world, Typed, EInv, Shape, IsRun
<1>2. ToSet(run.todo) = {e} \cup ToSet(Tail(run.todo)) /\ DOMAIN run.busy = {}
  BY <1>1, TailSet DEF House, Listed
<1>3. run.queue \in Seq(Jobs) /\ run.plan \in Seq(Plans) /\ new \in Plans
  BY DEF Typed, EInv, Shape, IsRun, Plans, Inspectable
<1> HIDE DEF new
<1>4. \/ run'.queue = run.queue /\ run'.plan = run.plan
           /\ Inspectable(e) /\ ~ManifestStale(Env, e, run.opts)
      \/ /\ ToSet(run'.queue) = ToSet(run.queue) \cup ToSet(JobsOf(e))
         /\ ToSet(run'.plan) = ToSet(run.plan) \cup {new}
  <2>1. JobsOf(e) \in Seq(Jobs)
    BY <1>1, JobsOfSource
  <2>2. ToSet(run.queue \o JobsOf(e)) = ToSet(run.queue) \cup ToSet(JobsOf(e))
    BY <1>3, <2>1, ConcatSet
  <2>3. ToSet(Append(run.plan, new)) = ToSet(run.plan) \cup {new}
    BY <1>3, AppendIs
  <2> QED
    BY <1>1, <2>2, <2>3
<1>5. \A d, j : Coming(d, j) => Coming(d, j)'
  BY <1>1, <1>2, <1>4 DEF Coming, Inspectable, Artifact, Env, Here
<1>6. \A d \in ToSet(Holds[Env]) :
        FreshEntry(Env, d, run.opts) => FreshEntry(Env, d, run.opts)'
  BY <1>1, StillFresh
<1>7. new.entry = e /\ new.defaults = time[Defaults] /\ (new.seen <=> Inspectable(e))
  BY DEF new
<1>8. ASSUME NEW d \in ToSet(Holds[Env]), ToCome(d) PROVE FreshEntry(Env, d, run.opts)' \/ ToCome(d)'
  <2>1. CASE d = e
    <3>1. CASE ToSet(run'.plan) = ToSet(run.plan) \cup {new}
      BY <1>1, <1>7, <2>1, <3>1 DEF ToCome, RenderToCome, Early
    <3>2. CASE Inspectable(e) /\ ~ManifestStale(Env, e, run.opts)
      <4>1. FreshEntry(Env, d, run.opts)
        BY <1>1, <2>1, <3>2, KindOf DEF FreshEntry, FreshRender
      <4> QED
        BY <1>6, <4>1
    <3> QED
      BY <1>4, <3>1, <3>2
  <2>2. CASE d # e
    <3>1. ~<<d, "cache">> \in DOMAIN run.busy /\ ~<<d, "txt">> \in DOMAIN run.busy
          /\ (d \in ToSet(run.todo) => d \in ToSet(run'.todo))
          /\ ToSet(run.plan) \subseteq ToSet(run'.plan)
      BY <1>1, <1>2, <1>4, <2>2
    <3> QED
      BY <1>1, <1>8, <3>1 DEF ToCome, TextToCome, RenderToCome, CopyToCome, RedactToCome, Early
  <2> QED
    BY <2>1, <2>2
<1>9. \A p \in ToSet(run'.plan) :
        \/ p \in ToSet(run.plan)
        \/ /\ p.defaults = time[Defaults] /\ (p.seen <=> Inspectable(p.entry))
           /\ \A j \in ToSet(JobsOf(p.entry)) : j \in ToSet(run'.queue)
  BY <1>4, <1>7
<1> QED
  BY <1>1, <1>5, <1>6, <1>8, <1>9, PromiseOn

LEMMA StartJobPromise ==
  ASSUME Typed, House, Promised, StartJob
  PROVE  Promised'
<1> DEFINE job == Head(run.queue)
<1>1. /\ run.pc = "render" /\ run'.pc = "render" /\ run'.opts = run.opts /\ run'.targets = run.targets
      /\ run'.calm = run.calm /\ run'.doc = run.doc /\ run'.ok = run.ok /\ run'.plan = run.plan
      /\ run'.todo = run.todo /\ UNCHANGED <<time, lost, out, cache, manifest>>
      /\ run.queue # << >> /\ run'.queue = Tail(run.queue)
      /\ run'.busy = Put(run.busy, job, Snapshot(job[1]))
  BY DEF StartJob, world, Typed, EInv, Shape, IsRun
<1>2. run.queue \in Seq(Jobs)
  BY DEF Typed, EInv, Shape, IsRun
<1>3. ToSet(run.queue) = {job} \cup ToSet(run'.queue)
  BY <1>1, <1>2, TailSet
<1>4. /\ DOMAIN run'.busy = DOMAIN run.busy \cup {job}
      /\ \A j \in DOMAIN run'.busy : j # job => run'.busy[j] = run.busy[j]
      /\ run'.busy[job].good <=> Inspectable(job[1])
  BY <1>1 DEF Put, Snapshot
<1> HIDE DEF job
<1>5. \A d, j : Coming(d, j) => Coming(d, j)'
  BY <1>1, <1>3, <1>4 DEF Coming, Inspectable, Artifact, Env, Here
<1>6. \A d \in ToSet(Holds[Env]) :
        FreshEntry(Env, d, run.opts) => FreshEntry(Env, d, run.opts)'
  BY <1>1, StillFresh
<1>7. \A d \in ToSet(Holds[Env]) : ToCome(d) => ToCome(d)'
  BY <1>1, <1>4 DEF ToCome, TextToCome, RenderToCome, CopyToCome, RedactToCome, Early
<1> QED
  BY <1>1, <1>4, <1>5, <1>6, <1>7, PromiseOn

LEMMA FailJobPromise ==
  ASSUME Typed, NEW job, FailJob(job)
  PROVE  Promised'
<1>1. run'.ok = FALSE
  BY DEF FailJob, Typed, EInv, Shape, IsRun
<1> QED
  BY <1>1 DEF Promised, Going

LEMMA SourceTimes ==
  ASSUME Typed, NEW e \in Entries
  PROVE  /\ clock \in Nat /\ clock # 0
         /\ \A f \in SourceDeps(e) \cup TextDeps(e) \cup Uses[e] : time[f] \in Int /\ time[f] < clock
<1>1. Uses[e] \subseteq Files /\ Own[e] \in Uses[e]
  BY EnvelopeAssumption
<1>2. SourceDeps(e) \cup TextDeps(e) \cup Uses[e] \subseteq Inputs
  BY <1>1 DEF SourceDeps, TextDeps, Inputs
<1> QED
  BY <1>2 DEF Typed, EInv, Shape, Timed, Dated

LEMMA FinishJobPromise ==
  ASSUME Typed, House, Promised, NEW job \in DOMAIN run.busy, job[2] # "cache", FinishJob(job)
  PROVE  Promised'
<1> DEFINE e == job[1]
           mine(p) == p \in Paths(Env, Here, e) /\ p[4] \in Written(e, job[2])
<1>1. /\ run'.pc = run.pc /\ run'.opts = run.opts /\ run'.targets = run.targets
      /\ run'.calm = run.calm /\ run'.doc = run.doc /\ run'.ok = run.ok /\ run'.plan = run.plan
      /\ run'.todo = run.todo /\ run'.queue = run.queue /\ UNCHANGED <<time, lost, cache, manifest>>
      /\ run'.busy = Drop(run.busy, job) /\ run.busy[job].good
  BY DEF FinishJob, world, Typed, EInv, Shape, IsRun
<1>2. run.pc # "idle" /\ job \in Jobs /\ e \in Entries /\ job = <<e, job[2]>>
      /\ job[2] \in {"pdf", "docx", "txt"}
  BY DEF Typed, Chosen, EInv, Shape, Jobs, IsJob, House, Hands
<1>3. \/ IsText(e) /\ job[2] = "txt"
      \/ IsRendered(e) /\ job[2] \in {"pdf", "docx"}
  BY <1>2 DEF Jobs, IsJob
<1>4. /\ DOMAIN run'.busy = DOMAIN run.busy \ {job}
      /\ \A j \in DOMAIN run'.busy : run'.busy[j] = run.busy[j]
  BY <1>1 DEF Drop
<1>5. /\ \A p \in AllPaths : out'[p] = out[p] \/ (mine(p) /\ out'[p].at = clock)
      /\ \A p \in AllPaths : mine(p) => out'[p].at = clock
  BY DEF FinishJob
<1> HIDE DEF e, mine
<1>6. \A a : a.at = clock => a # Absent
  BY SourceTimes, <1>2 DEF Absent
<1>7. Going => Inspectable(e)
  BY <1>1 DEF Promised, e
<1>8. ASSUME NEW d \in ToSet(Holds[Env]), IsRendered(d), NEW j \in ToSet(JobsOf(d)), Going,
             Coming(d, j)
      PROVE  Coming(d, j)'
  <2>1. d \in Entries /\ Paths(Env, Here, d) \subseteq AllPaths
    BY <1>2, InBuild
  <2>2. j \in {<<d, "pdf">>, <<d, "docx">>} /\ Written(d, j[2]) \subseteq Parts(d)
    BY <1>8, <2>1, JobsOfSource
  <2>3. \A part \in Written(d, j[2]) : <<Env, Here, d, part>> \in Paths(Env, Here, d)
    BY <1>8, <2>2, KindOf, <2>1 DEF Paths, Dir
  <2>4. CASE j = job
    <3>1. d = e /\ j[2] = job[2]
      BY <1>2, <2>2, <2>4
    <3>2. \A part \in Written(d, j[2]) : out'[<<Env, Here, d, part>>] # Absent
      BY <1>5, <1>6, <2>1, <2>3, <3>1 DEF mine
    <3> QED
      BY <1>1, <1>7, <1>8, <3>1, <3>2 DEF Coming, Inspectable, Artifact, Env, Here
  <2>5. CASE j # job
    <3>1. \A part \in Written(d, j[2]) :
            out[<<Env, Here, d, part>>] # Absent => out'[<<Env, Here, d, part>>] # Absent
      BY <1>5, <1>6, <2>1, <2>3
    <3> QED
      BY <1>1, <1>4, <1>8, <2>5, <3>1 DEF Coming, Inspectable, Artifact, Env, Here
  <2> QED
    BY <2>4, <2>5
<1>9. ASSUME NEW d \in ToSet(Holds[Env]), Going, FreshEntry(Env, d, run.opts) \/ ToCome(d)
      PROVE  FreshEntry(Env, d, run.opts)' \/ ToCome(d)'
  <2>1. d \in Entries /\ Paths(Env, Here, d) \subseteq AllPaths
    BY <1>2, InBuild
  <2>2. CASE d # e
    <3>1. \A p \in Paths(Env, Here, d) : out'[p] = out[p]
      BY <1>5, <2>1, <2>2, EntryPaths DEF mine
    <3>2. ToCome(d) => ToCome(d)'
      <4>1. <<d, "txt">> # job /\ <<d, "cache">> # job
        BY <1>2, <2>2
      <4> QED
        BY <1>1, <1>4, <4>1 DEF ToCome, TextToCome, RenderToCome, CopyToCome, RedactToCome, Early,
                                CacheFresh, Inspectable, Old, Missing
    <3> QED
      BY <1>1, <1>9, <3>1, <3>2, StillFresh
  <2>3. CASE d = e /\ IsText(e)
    <3> DEFINE p == <<Env, "none", e, "txt">>
    <3>1. p \in Paths(Env, Here, e) /\ p[4] \in Written(e, job[2])
      BY <1>3, <2>1, <2>3, KindOf DEF Paths, Dir, IsText, TextKinds, Parts, Written
    <3>2. out'[p].at = clock /\ out'[p] # Absent
      BY <1>5, <1>6, <2>1, <2>3, <3>1 DEF mine
    <3>3. Env' = Env
      BY <1>1 DEF Env
    <3>4. FreshText(Env, e)'
      <4>1. At({p})' = {out'[p]}
        BY <3>3 DEF At
      <4>2. \A f \in TextDeps(e) : ~(clock < time'[f])
        BY <1>1, <2>1, <2>3, SourceTimes
      <4> HIDE DEF p
      <4>3. ~Old(At({p}), TextDeps(e))'
        BY <3>2, <4>1, <4>2 DEF Old, Missing
      <4> QED
        BY <3>3, <4>3 DEF FreshText, p
    <3>5. FreshEntry(Env, d, run.opts)'
      BY <2>1, <2>3, <3>4, KindOf DEF FreshEntry
    <3> QED
      BY <3>5
  <2>4. CASE d = e /\ IsRendered(e) /\ ToCome(e)
    BY <1>1, <2>1, <2>4, KindOf DEF ToCome, RenderToCome, Early
  <2>5. CASE d = e /\ IsRendered(e) /\ FreshEntry(Env, e, run.opts)
    <3>1. FreshRender(Env, e, run.opts)
      BY <2>5 DEF FreshEntry
    <3>2. \A p \in Paths(Env, Here, e) : out'[p] = out[p] \/ (out'[p] # Absent /\ out'[p].at = clock)
      BY <1>5, <1>6, <2>1, <2>5
    <3> DEFINE ps == Paths(Env, Here, e)  entry == manifest[<<Env, Here, e>>]
    <3>3. ps' = ps /\ entry' = entry /\ Fingerprint(e)' = Fingerprint(e)
          /\ RenderOptions(run.opts)' = RenderOptions(run.opts) /\ Inspectable(e)' = Inspectable(e)
      BY <1>1 DEF Env, Here, Fingerprint, RenderOptions, Inspectable
    <3>4. ~Missing(At(ps)) /\ Inspectable(e)
      BY <3>1 DEF FreshRender, ManifestStale, Here
    <3>5. ~Missing(At(ps))'
      BY <3>2, <3>3, <3>4 DEF Missing, At
    <3>6. ~Old(At(ps), SourceDeps(e)) => ~Old(At(ps), SourceDeps(e))'
      <4>1. \A f \in SourceDeps(e) : ~(clock < time[f])
        BY <2>1, <2>5, SourceTimes
      <4> HIDE DEF ps
      <4> QED
        BY <1>1, <3>2, <3>3, <3>5, <4>1 DEF Old, At, ps
    <3>7. FreshRender(Env, e, run.opts)'
      <4>1. \/ entry = None /\ ~Old(At(ps), SourceDeps(e))
            \/ entry # None /\ OptionsOf(entry) = RenderOptions(run.opts) /\ entry.of = Fingerprint(e)
        BY <3>1 DEF FreshRender, ManifestStale, Here
      <4> QED
        BY <3>3, <3>4, <3>5, <3>6, <4>1 DEF FreshRender, ManifestStale, Here, OptionsOf
    <3>8. FreshEntry(Env, d, run.opts)'
      BY <2>1, <2>5, <3>7, KindOf DEF FreshEntry
    <3> QED
      BY <3>8
  <2> QED
    BY <1>3, <1>9, <2>2, <2>3, <2>4, <2>5
<1>10. Going => \A p \in ToSet(run.plan) : IsRendered(p.entry)
  BY DEF Going, Typed, EInv, Planned, PlanStands
<1> QED
  BY <1>1, <1>2, <1>4, <1>8, <1>9, <1>10, PromiseOn

LEMMA RecordPromise ==
  ASSUME Typed, House, Promised, Record, NEW p, p = Head(run.plan)
  PROVE  Promised'
<1> DEFINE e == p.entry  s == <<Env, Here, e>>
           new == [of |-> IF p.seen THEN Fingerprint(e) ELSE << >>,
                   final |-> run.opts.final, variant |-> Here, defaults |-> p.defaults]
<1>1. /\ run.pc = "record" /\ run'.pc = "record" /\ run'.opts = run.opts /\ run'.targets = run.targets
      /\ run'.calm = run.calm /\ run'.doc = run.doc /\ run'.ok = run.ok /\ run'.plan = Tail(run.plan)
      /\ run'.todo = run.todo /\ run'.queue = run.queue /\ run'.busy = run.busy
      /\ UNCHANGED <<time, lost, out, cache>> /\ run.plan # << >>
      /\ manifest' = [manifest EXCEPT ![s] = new]
  BY DEF Record, world, Typed, EInv, Shape, IsRun
<1>2. run.plan \in Seq(Plans) /\ run.queue = << >> /\ DOMAIN run.busy = {} /\ run.ok
      /\ manifest = [t \in Sources |-> manifest[t]]
  BY <1>1 DEF Typed, EInv, Shape, IsRun, Staged
<1>3. p \in Plans /\ ToSet(run.plan) = {p} \cup ToSet(run'.plan)
  BY <1>1, <1>2, TailSet
<1>4. e \in Entries /\ IsRendered(e)
  BY <1>2, <1>3 DEF Typed, EInv, Planned, PlanStands, Plans
<1> HIDE DEF s, new
<1>5. \A d, j : Coming(d, j) => Coming(d, j)'
  BY <1>1 DEF Coming, Inspectable, Artifact, Env, Here
<1>6. ASSUME NEW d \in ToSet(Holds[Env]), d # e, FreshEntry(Env, d, run.opts)
      PROVE  FreshEntry(Env, d, run.opts)'
  <2>1. <<Env, Here, d>> # s
    BY <1>6 DEF s
  <2>2. manifest'[<<Env, Here, d>>] = manifest[<<Env, Here, d>>]
    <3>1. <<Env, Here, d>> \in Sources
      BY <1>1, InBuild
    <3> QED
      BY <1>1, <1>2, <2>1, <3>1
  <2> QED
    BY <1>1, <1>6, <2>2, StillFresh
<1>7. ASSUME NEW d \in ToSet(Holds[Env]), d # e, ToCome(d) PROVE ToCome(d)'
  <2>1. (\E q \in ToSet(run.plan) : q.entry = d) => \E q \in ToSet(run'.plan) : q.entry = d
    BY <1>3, <1>7
  <2> QED
    BY <1>1, <1>7, <2>1 DEF ToCome, TextToCome, RenderToCome, CopyToCome, RedactToCome, Early
<1>8. ASSUME e \in ToSet(Holds[Env]), Going PROVE FreshEntry(Env, e, run.opts)'
  <2>1. s \in Sources
    BY <1>1, <1>8, InBuild DEF s
  <2>2. Foreseen(p)
    BY <1>3, <1>8 DEF Promised
  <2>3. \A j \in ToSet(JobsOf(e)) : Inspectable(e) /\ \A part \in Written(e, j[2]) : Artifact(s, part) # Absent
    BY <1>2, <1>8, <2>2, NothingIn DEF Foreseen, Coming, s
  <2>4. \A part \in Parts(e) : Artifact(s, part) # Absent
    BY <1>4, <2>3, JobsOfSource
  <2>5. Parts(e) # {}
    BY DEF Parts
  <2>6. Inspectable(e) /\ p.seen
    BY <1>4, <2>2, <2>3, <2>5, JobsOfSource DEF Foreseen
  <2>7. ~Missing(At(Paths(Env, Here, e)))
    BY <1>4, <2>4, KindOf DEF Missing, At, Paths, Dir, Artifact, s
  <2>8. manifest'[s] = new /\ new.of = Fingerprint(e) /\ OptionsOf(new) = RenderOptions(run.opts)
    BY <1>1, <1>2, <2>1, <2>2, <2>6 DEF new, OptionsOf, RenderOptions, Here, Foreseen
  <2>9. new # None
    <3>1. new.defaults \in Nat /\ None.defaults = -1
      BY <1>3 DEF Plans, new, None
    <3> QED
      BY <3>1
  <2>10. /\ Env' = Env /\ Here' = Here /\ run'.opts = run.opts /\ Inspectable(e)' = Inspectable(e)
         /\ Fingerprint(e)' = Fingerprint(e) /\ RenderOptions(run.opts)' = RenderOptions(run.opts)
         /\ At(Paths(Env, Here, e))' = At(Paths(Env, Here, e))
    BY <1>1 DEF Env, Here, Inspectable, Fingerprint, RenderOptions, At
  <2>11. FreshRender(Env, e, run.opts)'
    BY <2>6, <2>7, <2>8, <2>9, <2>10 DEF FreshRender, ManifestStale, OptionsOf, Missing, Here, s
  <2> QED
    BY <1>4, <2>11, KindOf DEF FreshEntry
<1> QED
  BY <1>1, <1>3, <1>5, <1>6, <1>7, <1>8, PromiseOn

\* The one output of a copy, or of a redaction.
LEMMA OnePath ==
  ASSUME NEW e \in Entries, Kind[e] \in {"copy", "redacted"}, NEW n, NEW v
  PROVE  Paths(n, v, e) = {<<n, v, e, Kind[e]>>}
BY DEF Paths, Dir, Parts, IsText, TextKinds

LEMMA CopyPromise ==
  ASSUME Typed, House, Promised, NEW e \in Entries, Copy(e)
  PROVE  Promised'
<1> DEFINE paths == Paths(Env, Here, e)
           new == [Absent EXCEPT !.of = [f \in Uses[e] |-> time[f]], !.at = time[Own[e]]]
<1>1. /\ run.pc = "copy" /\ run'.pc = "copy" /\ run'.opts = run.opts /\ run'.targets = run.targets
      /\ run'.calm = run.calm /\ run'.doc = run.doc /\ run'.ok = run.ok /\ run'.plan = run.plan
      /\ run'.todo = Tail(run.todo) /\ run'.queue = run.queue /\ run'.busy = run.busy
      /\ UNCHANGED <<time, lost, cache, manifest>> /\ run.todo # << >> /\ e = Head(run.todo)
      /\ Kind[e] = "copy"
      /\ \/ out' = [p \in AllPaths |-> IF p \in paths THEN new ELSE out[p]]
         \/ out' = out /\ ~Old(At(paths), Uses[e])
  BY DEF Copy, world, Typed, EInv, Shape, IsRun
<1>2. ToSet(run.todo) = {e} \cup ToSet(run'.todo)
  <2>1. ToSet(run.todo) = {Head(run.todo)} \cup ToSet(Tail(run.todo))
    BY <1>1, TailSet DEF House, Listed
  <2> QED
    BY <1>1, <2>1
<1>3. run.plan = << >> /\ ToSet(run.plan) = {}
  BY <1>1, NothingIn DEF Typed, EInv, Staged
<1> HIDE DEF paths, new
<1>4. ASSUME NEW d \in ToSet(Holds[Env]), d # e, FreshEntry(Env, d, run.opts)
      PROVE  FreshEntry(Env, d, run.opts)'
  <2>1. Paths(Env, Here, d) \subseteq AllPaths
    BY <1>1, InBuild
  <2>2. \A p \in Paths(Env, Here, d) : out'[p] = out[p]
    BY <1>1, <1>4, <2>1, EntryPaths DEF paths
  <2> QED
    BY <1>1, <1>4, <2>2, StillFresh
<1>5. ASSUME NEW d \in ToSet(Holds[Env]), d # e, ToCome(d) PROVE ToCome(d)'
  BY <1>1, <1>2, <1>5 DEF ToCome, TextToCome, RenderToCome, CopyToCome, RedactToCome, Early
<1>6. ASSUME e \in ToSet(Holds[Env]) PROVE FreshEntry(Env, e, run.opts)'
  <2>1. paths' = paths /\ Paths(Env, run.opts.variant, e)' = paths /\ paths \subseteq AllPaths /\ paths # {}
    BY <1>1, <1>6, InBuild, OnePath DEF paths, Env, Here
  <2>2. ~Old(At(paths), Uses[e])'
    <3>1. CASE out' = [p \in AllPaths |-> IF p \in paths THEN new ELSE out[p]]
      <4>1. At(paths)' = {new}
        BY <2>1, <3>1 DEF At
      <4>2. new.at = time[Own[e]] /\ new.of = [f \in Uses[e] |-> time[f]]
        BY DEF new, Absent
      <4>3. Own[e] \in Uses[e] /\ Uses[e] = {Own[e]} /\ time[Own[e]] \in Int
        BY <1>1, EnvelopeAssumption, SourceTimes
      <4>4. new # Absent
        <5>1. DOMAIN new.of # DOMAIN Absent.of
          BY <4>2, <4>3 DEF Absent
        <5> QED
          BY <5>1
      <4> QED
        BY <1>1, <4>1, <4>2, <4>3, <4>4 DEF Old, Missing
    <3>2. CASE out' = out /\ ~Old(At(paths), Uses[e])
      <4>1. At(paths)' = At(paths)
        BY <2>1, <3>2 DEF At
      <4> QED
        BY <1>1, <3>2, <4>1 DEF Old, Missing
    <3> QED
      BY <1>1, <3>1, <3>2
  <2>3. FreshCopy(Env, e, run.opts)'
    BY <2>1, <2>2 DEF FreshCopy
  <2> QED
    BY <1>1, <2>3, KindOf DEF FreshEntry
<1> QED
  BY <1>1, <1>3, <1>4, <1>5, <1>6, PromiseOn

LEMMA RedactPromise ==
  ASSUME Typed, House, Promised, NEW e \in Entries, Redact(e)
  PROVE  Promised'
<1>1. /\ run.pc = "redact" /\ run'.pc = "redact" /\ run'.opts = run.opts /\ run'.targets = run.targets
      /\ run'.calm = run.calm /\ run'.doc = run.doc /\ run'.plan = run.plan
      /\ run'.todo = Tail(run.todo) /\ UNCHANGED <<time, lost, out, cache, manifest>>
      /\ run.todo # << >> /\ e = Head(run.todo) /\ Kind[e] = "redacted"
      /\ run.busy = << >> /\ run.queue = << >>
      /\ \/ run'.ok = FALSE
         \/ /\ run'.ok = run.ok /\ run'.busy = Put(<< >>, <<e, "cache">>, Snapshot(e))
            /\ run'.queue = run.queue
         \/ /\ run'.ok = run.ok /\ run'.busy = run.busy /\ run'.queue = <<<<e, "dest">>>>
            /\ ~Old({cache[e]}, Uses[e]) /\ ~Raises({cache[e]}, Uses[e])
  BY DEF Redact, world, Typed, EInv, Shape, IsRun
<1>2. ToSet(run.todo) = {e} \cup ToSet(run'.todo) /\ DOMAIN run.busy = {}
  BY <1>1, TailSet DEF House, Listed
<1>3. run.plan = << >> /\ ToSet(run.plan) = {}
  BY <1>1, NothingIn DEF Typed, EInv, Staged
<1>4. CASE run'.ok = FALSE
  BY <1>4 DEF Promised, Going
<1>5. CASE run'.ok # FALSE
  <2>1. \/ DOMAIN run'.busy = {<<e, "cache">>} /\ (run'.busy[<<e, "cache">>].good <=> Inspectable(e))
        \/ DOMAIN run'.busy = {} /\ CacheFresh(e) /\ run'.queue = <<<<e, "dest">>>>
    <3>1. CASE run'.busy = Put(<< >>, <<e, "cache">>, Snapshot(e))
      BY <3>1 DEF Put, Snapshot
    <3>2. CASE run'.busy = run.busy /\ run'.queue = <<<<e, "dest">>>>
               /\ ~Old({cache[e]}, Uses[e]) /\ ~Raises({cache[e]}, Uses[e])
      BY <1>2, <3>2 DEF CacheFresh, Raises, Old, Inspectable
    <3> QED
      BY <1>1, <1>5, <3>1, <3>2
  <2>2. \A d \in ToSet(Holds[Env]) : FreshEntry(Env, d, run.opts) => FreshEntry(Env, d, run.opts)'
    BY <1>1, StillFresh
  <2>3. ToCome(e)'
    <3>1. CacheFresh(e) => CacheFresh(e)'
      BY <1>1 DEF CacheFresh, Inspectable, Old, Missing
    <3> QED
      BY <1>1, <2>1, <3>1 DEF ToCome, RedactToCome
  <2>4. ASSUME NEW d, d # e, ToCome(d) PROVE ToCome(d)'
    <3>1. run.queue # <<<<d, "dest">>>>
      BY <1>1
    <3> QED
      BY <1>1, <1>2, <2>4, <3>1 DEF ToCome, TextToCome, RenderToCome, CopyToCome, RedactToCome, Early
  <2> QED
    BY <1>1, <1>3, <1>5, <2>1, <2>2, <2>3, <2>4, PromiseOn
<1> QED
  BY <1>4, <1>5

LEMMA FinishRedactionPromise ==
  ASSUME Typed, House, Promised, NEW e \in Entries, FinishRedaction(e)
  PROVE  Promised'
<1> DEFINE job == <<e, "cache">>
           new == [Absent EXCEPT !.of = [f \in Uses[e] |-> run.busy[job].of[f]], !.at = clock]
<1>1. /\ run'.pc = run.pc /\ run'.opts = run.opts /\ run'.targets = run.targets
      /\ run'.calm = run.calm /\ run'.doc = run.doc /\ run'.ok = run.ok /\ run'.plan = run.plan
      /\ run'.todo = run.todo /\ run'.busy = << >> /\ run'.queue = <<<<e, "dest">>>>
      /\ UNCHANGED <<time, lost, out, manifest>> /\ cache' = [cache EXCEPT ![e] = new]
      /\ job \in DOMAIN run.busy /\ run.busy[job].good
  BY DEF FinishRedaction, world, Typed, EInv, Shape, IsRun
<1>2. run.pc = "redact" /\ Kind[e] = "redacted"
  BY <1>1 DEF Typed, EInv, Staged, Shape, Jobs, IsJob
<1>3. DOMAIN run.busy = {job} /\ run.queue = << >>
  BY <1>1, <1>2 DEF House, Hands
<1>4. ToSet(run.plan) = {}
  BY <1>2, NothingIn DEF Typed, EInv, Staged
<1>5. new.at = clock /\ cache'[e] = new /\ \A d \in Entries : d # e => cache'[d] = cache[d]
  BY <1>1 DEF Absent, Typed, Timed, Dated
<1> HIDE DEF new
<1>6. ASSUME NEW d \in ToSet(Holds[Env]), d # e, FreshEntry(Env, d, run.opts)
      PROVE  FreshEntry(Env, d, run.opts)'
  <2>1. d \in Entries
    BY <1>2, InBuild
  <2> QED
    BY <1>1, <1>5, <1>6, <2>1, StillFresh
<1>7. ASSUME NEW d, d # e, ToCome(d) PROVE ToCome(d)'
  <2>1. <<d, "cache">> # job /\ <<d, "txt">> # job /\ run.queue # <<<<d, "dest">>>>
    BY <1>3, <1>7
  <2> QED
    BY <1>1, <1>2, <1>3, <1>7, <2>1 DEF ToCome, TextToCome, RenderToCome, CopyToCome, RedactToCome, Early
<1>8. Going => ToCome(e)'
  <2> SUFFICES ASSUME Going PROVE CacheFresh(e)'
    BY <1>1, <1>2 DEF ToCome, RedactToCome
  <2>1. Inspectable(e)'
    BY <1>1 DEF Promised, Inspectable
  <2>2. new # Absent
    BY <1>5, SourceTimes DEF Absent
  <2>3. \A f \in Uses[e] : ~(clock < time'[f])
    BY <1>1, SourceTimes
  <2> QED
    BY <1>5, <2>1, <2>2, <2>3 DEF CacheFresh, Old, Missing
<1>9. DOMAIN run'.busy = {}
  BY <1>1
<1> QED
  BY <1>1, <1>2, <1>4, <1>6, <1>7, <1>8, <1>9, PromiseOn

LEMMA CopyRedactedPromise ==
  ASSUME Typed, House, Promised, NEW e \in Entries, CopyRedacted(e)
  PROVE  Promised'
<1> DEFINE paths == Paths(Env, Here, e)
<1>1. /\ run.pc = "redact" /\ run'.pc = "redact" /\ run'.opts = run.opts /\ run'.targets = run.targets
      /\ run'.calm = run.calm /\ run'.doc = run.doc /\ run'.ok = run.ok /\ run'.plan = run.plan
      /\ run'.todo = run.todo /\ run'.busy = run.busy
      /\ run.queue = <<<<e, "dest">>>> /\ run'.queue = << >>
      /\ UNCHANGED <<time, lost, cache, manifest>>
      /\ \/ out' = [p \in AllPaths |-> IF p \in paths THEN cache[e] ELSE out[p]]
         \/ out' = out /\ ~DestOld(Env, e, run.opts)
  BY DEF CopyRedacted, world, Typed, EInv, Shape, IsRun
<1>2. ToSet(run.plan) = {}
  BY <1>1, NothingIn DEF Typed, EInv, Staged
<1>3. Kind[e] = "redacted"
  <2>1. ToSet(run.queue) \subseteq Jobs
    BY ToSetIn DEF Typed, EInv, Shape, IsRun
  <2>2. <<e, "dest">> \in ToSet(run.queue)
    BY <1>1 DEF ToSet
  <2> QED
    BY <2>1, <2>2 DEF Jobs, IsJob
<1> HIDE DEF paths
<1>4. ASSUME NEW d \in ToSet(Holds[Env]), d # e, FreshEntry(Env, d, run.opts)
      PROVE  FreshEntry(Env, d, run.opts)'
  <2>1. Paths(Env, Here, d) \subseteq AllPaths
    BY <1>1, InBuild
  <2>2. \A p \in Paths(Env, Here, d) : out'[p] = out[p]
    BY <1>1, <1>4, <2>1, EntryPaths DEF paths
  <2> QED
    BY <1>1, <1>4, <2>2, StillFresh
<1>5. ASSUME NEW d, d # e, ToCome(d) PROVE ToCome(d)'
  <2>1. run.queue # <<<<d, "dest">>>>
    BY <1>1, <1>5
  <2> QED
    BY <1>1, <1>5, <2>1 DEF ToCome, TextToCome, RenderToCome, CopyToCome, RedactToCome, Early
<1>6. ASSUME e \in ToSet(Holds[Env]), CacheFresh(e) PROVE FreshEntry(Env, e, run.opts)'
  <2>1. /\ paths' = paths /\ Paths(Env, run.opts.variant, e)' = paths /\ paths \subseteq AllPaths
        /\ paths # {} /\ paths = Paths(Env, run.opts.variant, e)
    BY <1>1, <1>3, <1>6, InBuild, OnePath DEF paths, Env, Here
  <2>2. CacheFresh(e)' /\ cache[e] # Absent /\ cache[e].at \in Int
    BY <1>1, <1>6 DEF CacheFresh, Inspectable, Old, Missing, Typed, Timed, Dated
  <2>3. DestOld(Env, e, run.opts)' = FALSE
    <3>1. CASE out' = [p \in AllPaths |-> IF p \in paths THEN cache[e] ELSE out[p]]
      <4>1. At(paths)' = {cache[e]}
        BY <2>1, <3>1 DEF At
      <4> QED
        BY <1>1, <2>1, <2>2, <4>1 DEF DestOld, Missing
    <3>2. CASE out' = out /\ ~DestOld(Env, e, run.opts)
      <4>1. At(paths)' = At(paths)
        BY <2>1, <3>2 DEF At
      <4> QED
        BY <1>1, <2>1, <3>2, <4>1 DEF DestOld, Missing
    <3> QED
      BY <1>1, <3>1, <3>2
  <2>4. FreshRedact(Env, e, run.opts)'
    BY <2>2, <2>3 DEF FreshRedact, CacheFresh
  <2> QED
    BY <1>3, <2>4, KindOf DEF FreshEntry
<1>7. ASSUME FreshEntry(Env, e, run.opts) \/ ToCome(e) PROVE CacheFresh(e) \/ ToCome(e)'
  <2>1. FreshEntry(Env, e, run.opts) => CacheFresh(e)
    BY <1>3 DEF FreshEntry, FreshRedact, CacheFresh
  <2> QED
    BY <1>1, <1>3, <1>7, <2>1, KindOf DEF ToCome, RedactToCome, Early
<1> QED
  BY <1>1, <1>2, <1>4, <1>5, <1>6, <1>7, PromiseOn

\* At the end of a stage nothing of it is to come any more.
LEMMA AdvancePromise ==
  ASSUME Typed, House, Promised, Advance
  PROVE  Promised'
<1>1. /\ run'.opts = run.opts /\ run'.targets = run.targets /\ run'.calm = run.calm
      /\ run'.doc = run.doc /\ run'.ok = run.ok /\ run'.busy = run.busy /\ run'.queue = run.queue
      /\ UNCHANGED <<time, lost, out, cache, manifest>> /\ run.busy = << >> /\ run.pc # "idle"
      /\ run.pc # "plan" => run.queue = << >>
  BY DEF Advance, Stage, world, Typed, EInv, Shape, IsRun
<1>2. \/ run.pc = "plan" /\ run'.pc = "render" /\ run.todo = << >> /\ run'.plan = run.plan
      \/ run.pc = "render" /\ run'.pc = "record" /\ (run.ok => run'.plan = run.plan)
      \/ /\ run.pc = "record" /\ run'.pc = "copy" /\ run.plan = << >> /\ run'.plan = run.plan
         /\ run'.todo = Of(Env, {"copy"})
      \/ /\ run.pc = "copy" /\ run'.pc = "redact" /\ run.todo = << >> /\ run'.plan = run.plan
         /\ run'.todo = Of(Env, {"redacted"})
  BY DEF Advance, Stage, Typed, EInv, Shape, IsRun
<1>3. ToSet(<< >>) = {} /\ DOMAIN run.busy = {}
  BY <1>1, NothingIn
<1>4. \A d, j : Coming(d, j) => Coming(d, j)'
  BY <1>1 DEF Coming, Inspectable, Artifact, Env, Here
<1>5. \A d \in ToSet(Holds[Env]) : FreshEntry(Env, d, run.opts) => FreshEntry(Env, d, run.opts)'
  BY <1>1, StillFresh
<1>6. ASSUME NEW d \in ToSet(Holds[Env]), Going, ToCome(d) PROVE ToCome(d)'
  <2>1. d \in Entries /\ Env \in Envelopes
    BY <1>1, InBuild
  <2>2. \A kinds : Kind[d] \in kinds => d \in ToSet(Of(Env, kinds))
    BY <2>1, OfHolds
  <2>3. CASE run.pc = "plan"
    BY <1>1, <1>2, <1>3, <1>6, <2>3 DEF ToCome, TextToCome, RenderToCome, CopyToCome, RedactToCome, Early
  <2>4. CASE run.pc = "render"
    BY <1>1, <1>2, <1>3, <1>6, <2>4 DEF ToCome, TextToCome, RenderToCome, CopyToCome, RedactToCome, Early, Going
  <2>5. CASE run.pc = "record"
    BY <1>1, <1>2, <1>3, <1>6, <2>2, <2>5 DEF ToCome, TextToCome, RenderToCome, CopyToCome, RedactToCome, Early
  <2>6. CASE run.pc = "copy"
    BY <1>1, <1>2, <1>3, <1>6, <2>2, <2>6 DEF ToCome, TextToCome, RenderToCome, CopyToCome, RedactToCome, Early
  <2> QED
    BY <1>2, <2>3, <2>4, <2>5, <2>6
<1>7. Going => run'.plan = run.plan
  BY <1>2 DEF Going
<1> QED
  BY <1>1, <1>3, <1>4, <1>5, <1>6, <1>7, PromiseOn

\* A build of an envelope that is begun has everything to come.
LEMMA FirstPromise ==
  ASSUME run'.pc = "plan", run'.plan = << >>, DOMAIN run'.busy = {}, Env' \in Envelopes,
         run'.todo = Of(Env', SourceKinds)
  PROVE  Promised'
<1>1. ToSet(run'.plan) = {}
  BY NothingIn
<1>2. ASSUME NEW e \in ToSet(Holds[Env']) PROVE ToCome(e)'
  <2>1. e \in Entries
    BY <1>2, EnvelopeAssumption, ToSetIn
  <2>2. Kind[e] \in SourceKinds => e \in ToSet(run'.todo)
    BY <1>2, OfHolds
  <2> QED
    BY <2>1, <2>2, KindOf DEF ToCome, TextToCome, RenderToCome, CopyToCome, RedactToCome, Early
<1> QED
  BY <1>1, <1>2 DEF Promised

LEMMA IdlePromise ==
  ASSUME run' = Idle
  PROVE  Promised'
BY IdleType DEF Promised, Going

LEMMA BeginPromise ==
  ASSUME Typed, House, Promised, Rests, NEW asked \in SUBSET Envelopes, NEW all, NEW o, NEW force,
         Begin(asked, all, o, force)
  PROVE  House' /\ Promised' /\ Rests'
<1>1. PICK S \in SUBSET asked : Targets(asked, all, force) = SetToSeq(S)
  BY DEF Targets
<1>2. /\ run' = [Idle EXCEPT !.pc = "plan", !.targets = SetToSeq(S), !.opts = o,
                       !.force = force, !.todo = Of(Head(SetToSeq(S)), SourceKinds)]
      /\ SetToSeq(S) # << >> /\ settled' = Unsettle(Head(SetToSeq(S)))
      /\ UNCHANGED <<time, lost, out, cache, manifest>> /\ run.pc = "idle"
  BY <1>1 DEF Begin, world
<1>3. /\ run'.pc = "plan" /\ run'.targets = SetToSeq(S) /\ run'.plan = << >> /\ DOMAIN run'.busy = {}
      /\ run'.queue = << >> /\ run'.todo = Of(Head(SetToSeq(S)), SourceKinds)
  BY <1>2 DEF Idle
<1>4. IsFiniteSet(S)
  BY FS_Subset, EnvelopeAssumption
<1>5. SetToSeq(S) \in Seq(S) /\ S # {}
  <2>1. S = {} => SetToSeq(S) = << >>
    BY <1>4, SetSeq, EmptySeq, ToSetIn, LenProperties
  <2> QED
    BY <1>2, <1>4, <2>1, SetSeq
<1>6. Head(SetToSeq(S)) \in S /\ Env' = Head(SetToSeq(S))
  BY <1>2, <1>3, <1>5, TailSet DEF Env
<1>7. House'
  BY <1>3, <1>5, HouseBegin
<1>8. Promised'
  BY <1>3, <1>6, FirstPromise
<1>9. Rests'
  BY <1>2, <1>6, RestsKept DEF Unsettle
<1> QED
  BY <1>7, <1>8, <1>9

LEMMA BeginDocPromise ==
  ASSUME Typed, House, Promised, Rests, NEW e, NEW o, NEW force, BeginDoc(e, o, force)
  PROVE  House' /\ Promised' /\ Rests'
<1> DEFINE S == Owners(e)
<1>1. /\ run' = [Idle EXCEPT !.pc = "plan", !.targets = SetToSeq(S), !.opts = o,
                       !.force = force, !.doc = TRUE, !.todo = <<e>>]
      /\ settled' = {x \in settled : x[1] \notin S} /\ Cardinality(S) = 1
      /\ UNCHANGED <<time, lost, out, cache, manifest>> /\ run.pc = "idle"
  BY DEF BeginDoc, world
<1>2. S \in SUBSET Envelopes
  BY DEF Owners
<1> HIDE DEF S
<1>3. /\ run'.pc = "plan" /\ run'.targets = SetToSeq(S) /\ DOMAIN run'.busy = {} /\ run'.doc = TRUE
      /\ run'.queue = << >> /\ run'.todo = <<e>>
  BY <1>1 DEF Idle
<1>4. IsFiniteSet(S) /\ S # {}
  BY <1>1, <1>2, FS_Subset, FS_EmptySet, EnvelopeAssumption
<1>5. Env' \in S
  BY <1>3, <1>4, SetSeq, TailSet DEF Env
<1>6. House'
  BY <1>2, <1>3, <1>4, HouseBegin
<1>7. Promised'
  BY <1>3 DEF Promised, Going
<1>8. Rests'
  BY <1>1, <1>5, RestsKept
<1> QED
  BY <1>6, <1>7, <1>8

LEMMA NextEnvelopePromise ==
  ASSUME Typed, House, Promised, Rests, NextEnvelope
  PROVE  Promised' /\ Rests'
<1>1. /\ UNCHANGED <<time, lost, out, cache, manifest>> /\ run.pc # "idle"
      /\ run.plan = << >> /\ DOMAIN run.busy = {} /\ run.queue = << >>
  BY DEF NextEnvelope, world, Typed, EInv, Staged
<1>2. run.targets \in Seq(Envelopes) /\ run.targets # << >> /\ Env = run.targets[1]
  BY <1>1 DEF Typed, Chosen, Env
<1>3. Len(run.targets) \in Nat /\ Len(run.targets) # 0 /\ DOMAIN run.targets = 1 .. Len(run.targets)
  BY <1>2, EmptySeq, LenProperties
<1> DEFINE next == run.targets[2]
           more == [run EXCEPT !.pc = "plan", !.targets = Tail(@), !.ok = TRUE,
                               !.calm = TRUE, !.todo = Of(Head(Tail(run.targets)), SourceKinds)]
<1>4. \/ Len(run.targets) = 1 /\ run' = Idle
      \/ Len(run.targets) # 1 /\ run' = more
  BY DEF NextEnvelope
<1>5. Len(run.targets) # 1 =>
        /\ next \in Envelopes /\ next # Env /\ Head(Tail(run.targets)) = next
  <2> SUFFICES ASSUME Len(run.targets) # 1
               PROVE  next \in Envelopes /\ next # Env /\ Head(Tail(run.targets)) = next
    OBVIOUS
  <2>1. \A L \in Nat : L # 0 /\ L # 1 => 1 \in 1 .. L /\ 2 \in 1 .. L /\ 1 \in 1 .. L - 1
    OBVIOUS
  <2>2. 1 \in DOMAIN run.targets /\ 2 \in DOMAIN run.targets /\ 1 \in 1 .. Len(run.targets) - 1
    BY Zenon, <1>3, <2>1
  <2>3. run.targets[1] # run.targets[2]
    <3>1. 1 # 2
      OBVIOUS
    <3> QED
      BY Zenon, <1>1, <2>2, <3>1 DEF House, Once
  <2>4. /\ Tail(run.targets) \in Seq(Envelopes) /\ Len(Tail(run.targets)) = Len(run.targets) - 1
        /\ \A i \in 1 .. Len(Tail(run.targets)) : Tail(run.targets)[i] = run.targets[i + 1]
    BY <1>2, HeadTailProperties
  <2>5. Tail(run.targets)[1] = run.targets[2]
    BY <2>2, <2>4
  <2>6. Head(Tail(run.targets)) = Tail(run.targets)[1]
    <3>1. Tail(run.targets) # << >>
      <4>1. Len(<< >>) = 0 /\ \A L \in Nat : L # 0 /\ L # 1 => L - 1 # 0
        OBVIOUS
      <4> QED
        BY <1>3, <2>4, <4>1
    <3> QED
      BY <2>4, <3>1, HeadTailProperties
  <2> QED
    BY <1>2, <2>2, <2>3, <2>5, <2>6, ElementOfSeq
<1>6. Len(run.targets) # 1 =>
        /\ run'.pc = "plan" /\ run'.plan = << >> /\ DOMAIN run'.busy = {} /\ Env' = next
        /\ run'.todo = Of(next, SourceKinds)
  <2> SUFFICES ASSUME Len(run.targets) # 1
               PROVE  /\ run'.pc = "plan" /\ run'.plan = << >> /\ DOMAIN run'.busy = {} /\ Env' = next
                      /\ run'.todo = Of(next, SourceKinds)
    OBVIOUS
  <2>1. run' = more
    BY <1>4
  <2>2. /\ run'.pc = "plan" /\ run'.plan = run.plan /\ run'.busy = run.busy
        /\ run'.targets = Tail(run.targets) /\ run'.todo = Of(Head(Tail(run.targets)), SourceKinds)
    BY <2>1 DEF Typed, EInv, Shape, IsRun
  <2> QED
    BY <1>1, <1>5, <2>2 DEF Env
<1> HIDE DEF next, more
<1>7. Promised'
  <2>1. CASE Len(run.targets) = 1
    BY <1>4, <2>1, IdlePromise
  <2>2. CASE Len(run.targets) # 1
    BY <1>5, <1>6, <2>2, FirstPromise
  <2> QED
    BY <2>1, <2>2
<1>8. Going => CheckStaleness(Env, run.opts)
  <2> SUFFICES ASSUME Going, NEW e \in ToSet(Holds[Env]) PROVE FreshEntry(Env, e, run.opts)
    BY CheckIsFresh
  <2>1. run.pc = "redact" /\ run.todo = << >>
    BY DEF NextEnvelope, Going
  <2>2. run.queue # <<<<e, "dest">>>>
    BY <1>1
  <2>3. ~ToCome(e)
    BY <1>1, <2>1, <2>2, NothingIn DEF ToCome, TextToCome, RenderToCome, CopyToCome, RedactToCome, Early
  <2> QED
    BY <2>3 DEF Promised
<1>9. Rests'
  <2>1. settled' \subseteq settled \cup {<<Env, run.opts>>}
    BY DEF NextEnvelope, Unsettle
  <2>2. <<Env, run.opts>> \in settled' => <<Env, run.opts>> \in settled \/ Going
    BY <1>1 DEF NextEnvelope, Unsettle, Going
  <2>3. run'.pc # "idle" => Len(run.targets) # 1
    BY <1>4, IdleType
  <2>4. Len(run.targets) # 1 => \A x \in settled' : x[1] # next
    BY <1>5 DEF NextEnvelope, Unsettle, next
  <2>5. \A x \in settled' : CheckStaleness(x[1], x[2])
    BY <1>8, <2>1, <2>2 DEF Rests
  <2>6. \A n, o : CheckStaleness(n, o) => CheckStaleness(n, o)'
    <3> SUFFICES ASSUME NEW n, NEW o, CheckStaleness(n, o) PROVE CheckStaleness(n, o)'
      OBVIOUS
    <3>1. \A e \in ToSet(Holds[n]) : FreshEntry(n, e, o)'
      BY <1>1, CheckIsFresh, FreshKept
    <3> QED
      BY <3>1 DEF CheckStaleness, FreshEntry
  <2> QED
    BY <1>6, <2>3, <2>4, <2>5, <2>6 DEF Rests
<1> QED
  BY <1>7, <1>9

\* A running build touches no other envelope.
LEMMA BuildRests ==
  ASSUME Typed, Rests, BuildStep, ~NextEnvelope, ~Raise
  PROVE  Rests'
<1>1. run.pc # "idle" /\ run'.targets = run.targets
  BY RunStep DEF Typed
<1>2. ASSUME NEW e, FinishRedaction(e) PROVE Rests'
  BY <1>2 DEF FinishRedaction, Rests
<1>3. ASSUME UNCHANGED <<time, lost, cache, settled>>,
             \A p \in AllPaths : p[1] # Env => out'[p] = out[p],
             \A s \in Sources : s[1] # Env => manifest'[s] = manifest[s]
      PROVE  Rests'
  <2>1. \A x \in settled' : x[1] # Env'
    BY <1>1, <1>3 DEF Rests, Env
  <2> QED
    BY <1>1, <1>3, <2>1, RestsKept
<1>4. CASE UNCHANGED <<time, lost, cache, settled, out, manifest>>
  BY <1>3, <1>4
<1>5. ASSUME NEW job, FinishJob(job) PROVE Rests'
  <2>1. UNCHANGED <<time, lost, cache, settled, manifest>>
        /\ \A p \in AllPaths : p \notin Paths(Env, Here, job[1]) => out'[p] = out[p]
    BY <1>5 DEF FinishJob, world
  <2> QED
    BY <1>3, <2>1, EntryPaths
<1>6. ASSUME NEW e, Copy(e) \/ CopyRedacted(e) PROVE Rests'
  <2>1. UNCHANGED <<time, lost, cache, settled, manifest>>
        /\ \A p \in AllPaths : p \notin Paths(Env, Here, e) => out'[p] = out[p]
    BY <1>6 DEF Copy, CopyRedacted, world, observed
  <2> QED
    BY <1>3, <2>1, EntryPaths
<1>7. CASE Record
  <2>1. UNCHANGED <<time, lost, cache, settled, out>>
        /\ \A s \in Sources : s # <<Env, Here, Head(run.plan).entry>> => manifest'[s] = manifest[s]
    <3>1. manifest = [s \in Sources |-> manifest[s]]
      BY DEF Typed, EInv, Shape
    <3> QED
      BY <1>7, <3>1 DEF Record, world
  <2> QED
    BY <1>3, <2>1
<1> QED
  BY <1>2, <1>4, <1>5, <1>6, <1>7 DEF BuildStep, PlanText, PlanPdf, Redact, StartJob, FailJob, Advance,
     world, observed

LEMMA BuildPromise ==
  ASSUME Typed, House, Promised, BuildStep, ~NextEnvelope, ~Raise
  PROVE  Promised'
<1>1. CASE \E e \in Entries : \/ PlanText(e) \/ PlanPdf(e) \/ Copy(e)
                              \/ Redact(e) \/ FinishRedaction(e) \/ CopyRedacted(e)
  BY <1>1, PlanTextPromise, PlanPdfPromise, CopyPromise, RedactPromise, FinishRedactionPromise,
     CopyRedactedPromise
<1>2. CASE \E j \in DOMAIN run.busy : FailJob(j) \/ (j[2] # "cache" /\ FinishJob(j))
  BY <1>2, FailJobPromise, FinishJobPromise
<1>3. CASE StartJob \/ Record \/ Advance
  BY <1>3, StartJobPromise, RecordPromise, AdvancePromise
<1>4. \/ \E e \in Entries : \/ PlanText(e) \/ PlanPdf(e) \/ Copy(e)
                            \/ Redact(e) \/ FinishRedaction(e) \/ CopyRedacted(e)
      \/ \E j \in DOMAIN run.busy : FailJob(j) \/ (j[2] # "cache" /\ FinishJob(j))
      \/ StartJob \/ Record \/ Advance
  BY Zenon DEF BuildStep
<1> QED
  BY <1>1, <1>2, <1>3, <1>4

LEMMA RestsStep == Typed /\ House /\ Promised /\ Rests /\ [Next]_vars => House' /\ Promised' /\ Rests'
<1> SUFFICES ASSUME Typed, House, Promised, Rests, [Next]_vars
             PROVE  House' /\ Promised' /\ Rests'
  OBVIOUS
<1> DEFINE Goal == House' /\ Promised' /\ Rests'
<1>1. CASE \E o \in Asked, force \in BOOLEAN :
              \/ \E n \in Envelopes : Begin({n}, FALSE, o, force)
              \/ Begin(Envelopes, TRUE, o, force)
              \/ \E e \in Entries : BeginDoc(e, o, force)
  BY <1>1, BeginPromise, BeginDocPromise
<1>2. ASSUME Stop PROVE Goal
  <2>1. run' = Idle /\ UNCHANGED <<time, lost, cache, out, manifest, settled>>
    BY <1>2 DEF Stop, world, observed
  <2>2. Rests'
    BY <2>1, RestsKept, IdleType
  <2> QED
    BY <2>1, <2>2, HouseIdle, IdlePromise
<1>3. CASE BuildStep
  <2>1. CASE Raise
    BY <1>2, <2>1 DEF Raise
  <2>2. CASE NextEnvelope
    BY <2>2, HouseNext, NextEnvelopePromise
  <2>3. CASE ~Raise /\ ~NextEnvelope
    BY <1>3, <2>3, HouseBuild, BuildPromise, BuildRests
  <2> QED
    BY <2>1, <2>2, <2>3
<1>4. CASE Kill
  BY <1>2, <1>4 DEF Kill
<1>5. CASE \/ \E f \in Inputs : Save(f) \/ Restore(f)
           \/ \E t \in Digests : Revert(t)
           \/ \E f \in Files : Lose(f)
           \/ \E path \in AllPaths : Delete(path)
  <2>1. /\ run'.pc = run.pc /\ run'.targets = run.targets /\ run'.busy = run.busy
        /\ run'.queue = run.queue /\ run'.todo = run.todo /\ run'.calm = FALSE /\ settled' = {}
    BY <1>5 DEF Save, Restore, Revert, Change, Lose, Delete, Disturb, Typed, EInv, Shape, IsRun
  <2>2. House'
    BY <2>1 DEF House, Once, Listed, Hands
  <2> QED
    BY <2>1, <2>2 DEF Promised, Going, Rests
<1>6. ASSUME UNCHANGED run, run.pc = "idle" \/ UNCHANGED <<time, lost, out, cache, manifest>>,
             settled' = {} \/ UNCHANGED <<time, lost, out, cache, manifest, settled>>
      PROVE  Goal
  <2>1. House'
    BY <1>6 DEF House, Once, Listed, Hands
  <2>2. Promised'
    <3>1. CASE run.pc = "idle"
      BY <1>6, <3>1 DEF Promised, Going
    <3>2. CASE run.pc # "idle"
      <4>1. run' = run /\ UNCHANGED <<time, lost, out, cache, manifest>>
        BY <1>6, <3>2
      <4>2. \A d, j : Coming(d, j) => Coming(d, j)'
        BY <4>1 DEF Coming, Inspectable, Artifact, Env, Here
      <4>3. \A d : FreshEntry(Env, d, run.opts) => FreshEntry(Env, d, run.opts)'
        BY <4>1, StillFresh
      <4>4. \A d : CacheFresh(d) => CacheFresh(d)'
        BY <4>1 DEF CacheFresh, Inspectable, Old, Missing
      <4>5. \A d : ToCome(d) => ToCome(d)'
        BY <4>1, <4>4 DEF ToCome, TextToCome, RenderToCome, CopyToCome, RedactToCome, Early
      <4> QED
        BY <3>2, <4>1, <4>2, <4>3, <4>5, PromiseOn
    <3> QED
      BY <3>1, <3>2
  <2>3. Rests'
    <3>1. CASE settled' = {}
      BY <3>1 DEF Rests
    <3>2. CASE settled' # {}
      <4>1. run'.pc # "idle" => \A x \in settled' : x[1] # Env'
        BY <1>6, <3>2 DEF Rests, Env
      <4> QED
        BY <1>6, <3>2, <4>1, RestsKept
    <3> QED
      BY <3>1, <3>2
  <2> QED
    BY <2>1, <2>2, <2>3
<1>7. CASE (\E n \in Envelopes : MarkSent(n)) \/ Clean \/ UNCHANGED vars
  BY <1>6, <1>7 DEF MarkSent, Clean, vars, world, observed
<1> QED
  BY <1>1, <1>3, <1>4, <1>5, <1>7 DEF Next

LEMMA InitTyped == Init => Typed
<1> SUFFICES ASSUME Init PROVE Typed
  OBVIOUS
<1>1. Timed
  BY IdleType, NothingIn DEF Init, Timed, Dated, Absent, Digests, None
<1>2. Crew /\ Chosen
  BY IdleType, FS_EmptySet, EnvelopeAssumption DEF Init, Crew, Chosen
<1>3. Observed
  BY DEF Init, Observed
<1> QED
  BY <1>1, <1>2, <1>3, InitHolds DEF Typed

LEMMA TypedStep == Typed /\ [Next]_vars => Typed'
BY NextStep, ChosenStep, CrewStep, TimedStep, ObservedStep DEF Typed

LEMMA InitRests == Init => House /\ Promised /\ Rests
<1> SUFFICES ASSUME Init PROVE House /\ Promised /\ Rests
  OBVIOUS
<1>1. run.pc = "idle" /\ DOMAIN run.busy = {} /\ ToSet(run.queue) = {} /\ run.todo = << >>
  BY IdleType DEF Init, Idle
<1>2. << >> \in Seq({})
  BY EmptySeq
<1> QED
  BY <1>1, <1>2 DEF Init, House, Once, Listed, Hands, Promised, Going, Rests

\* After a build of an envelope that ended well, a check of the same options finds
\* nothing stale, until something is touched (build_envelope.py: --check-stale after
\* a build).
THEOREM BuildSettles == Spec => []Settles
<1>1. Rests => Settles
  BY DEF Rests, Settles
<1> QED
  BY <1>1, InitTyped, TypedStep, InitRests, RestsStep, PTL DEF Spec

-----------------------------------------------------------------------------
\* What is compared by times: an artifact is of the inputs as they are, or an input
\* is newer than it, or bears a time of its own.
Kept(a, deps) == \A f \in deps : a.of[f] = time[f] \/ time[f] < 0 \/ a.at < time[f]

TextKept ==
  \A p \in AllPaths : IsText(p[3]) /\ p[4] = "txt" /\ <<p[1], p[2], p[3]>> \notin raced =>
    out[p] = Absent \/ Kept(out[p], TextDeps(p[3]))

\* A copy has the time of what was copied.
CopyKept ==
  \A p \in AllPaths : Kind[p[3]] = "copy" =>
    out[p] = Absent \/ (out[p].of[Own[p[3]]] = out[p].at /\ Kept(out[p], {Own[p[3]]}))

CacheKept ==
  \A s \in Sources : Kind[s[3]] = "redacted" /\ s \notin raced =>
    cache[s[3]] = Absent \/ Kept(cache[s[3]], Uses[s[3]])

DestKept ==
  \A p \in AllPaths : Kind[p[3]] = "redacted" =>
    out[p] = Absent \/ out[p] = cache[p[3]] \/ out[p].at < cache[p[3]].at

TimesKept == TextKept /\ CopyKept /\ CacheKept /\ DestKept

LEMMA PathEntry ==
  ASSUME NEW p \in AllPaths
  PROVE  /\ p[3] \in Entries /\ p = <<p[1], p[2], p[3], p[4]>> /\ p[4] \in Parts(p[3])
         /\ \A n, v, e : p \in Paths(n, v, e) <=> p[1] = n /\ p[2] = Dir(e, v) /\ p[3] = e
<1>1. PICK s \in Sources : p \in Paths(s[1], s[2], s[3])
  BY DEF AllPaths
<1>2. PICK part \in Parts(s[3]) : p = <<s[1], Dir(s[3], s[2]), s[3], part>>
  BY <1>1 DEF Paths
<1> QED
  BY <1>2 DEF Sources, Paths

\* Artifacts that only disappear, or are of other kinds.
LEMMA TimesQuiet ==
  ASSUME TimesKept, UNCHANGED <<time, cache>>,
         \A s : Kind[s[3]] = "redacted" \/ IsText(s[3]) => (s \in raced => s \in raced'),
         \A p \in AllPaths : IsText(p[3]) \/ Kind[p[3]] \in {"copy", "redacted"} =>
           out'[p] = out[p] \/ out'[p] = Absent
  PROVE  TimesKept'
<1>1. \A a, deps : Kept(a, deps) => Kept(a, deps)'
  BY DEF Kept
<1>2. TextKept'
  BY <1>1 DEF TimesKept, TextKept
<1>3. CopyKept'
  BY <1>1 DEF TimesKept, CopyKept
<1>4. CacheKept'
  BY <1>1 DEF TimesKept, CacheKept
<1>5. DestKept'
  BY DEF TimesKept, DestKept
<1> QED
  BY <1>2, <1>3, <1>4, <1>5 DEF TimesKept

\* What a file is now is not older than what was made before, or has a time of its own.
LEMMA TimesChange ==
  ASSUME EInv, Timed, TimesKept, NEW f \in Inputs, NEW t \in Int, Change(f, t),
         f = Defaults \/ t \in {clock, 0 - clock}
  PROVE  TimesKept'
<1>1. /\ UNCHANGED <<out, cache, raced>> /\ time' = [time EXCEPT ![f] = t]
      /\ clock \in Nat /\ clock # 0 /\ time \in [Inputs -> Int]
  BY DEF Change, EInv, Shape, Timed, Dated
<1>2. ASSUME NEW a, NEW deps, Kept(a, deps), a.at \in Int, a.at < clock,
             deps \subseteq Inputs, Defaults \notin deps
      PROVE  Kept(a, deps)'
  <2> SUFFICES ASSUME NEW g \in deps
               PROVE  a.of[g] = time'[g] \/ time'[g] < 0 \/ a.at < time'[g]
    BY DEF Kept
  <2>1. CASE g = f
    <3>1. time'[g] = t /\ t \in {clock, 0 - clock}
      BY <1>1, <1>2, <2>1
    <3> QED
      BY <1>1, <1>2, <3>1
  <2>2. CASE g # f
    BY <1>1, <1>2, <2>2 DEF Kept
  <2> QED
    BY <2>1, <2>2
<1>3. \A p \in AllPaths : /\ p[3] \in Entries /\ out[p].at \in Int /\ out[p].at < clock
  BY PathEntry DEF Timed, Dated
<1>4. \A e \in Entries :
        /\ TextDeps(e) \subseteq Inputs /\ Defaults \notin TextDeps(e)
        /\ {Own[e]} \subseteq Inputs /\ Defaults \notin {Own[e]}
        /\ Uses[e] \subseteq Inputs /\ Defaults \notin Uses[e]
        /\ cache[e].at \in Int /\ cache[e].at < clock
  BY EnvelopeAssumption DEF Inputs, TextDeps, Timed, Dated
<1>5. TextKept'
  <2> SUFFICES ASSUME NEW p \in AllPaths, IsText(p[3]), p[4] = "txt", <<p[1], p[2], p[3]>> \notin raced,
                      out[p] # Absent
               PROVE  Kept(out[p], TextDeps(p[3]))'
    BY <1>1 DEF TextKept
  <2>1. Kept(out[p], TextDeps(p[3]))
    BY DEF TimesKept, TextKept
  <2>2. \A a, deps : a = out[p] /\ deps = TextDeps(p[3]) => Kept(a, deps)'
    BY <1>2, <1>3, <1>4, <2>1
  <2> QED
    BY <1>1, <2>2 DEF TextDeps
<1>6. CopyKept'
  <2> SUFFICES ASSUME NEW p \in AllPaths, Kind[p[3]] = "copy", out[p] # Absent
               PROVE  out[p].of[Own[p[3]]] = out[p].at /\ Kept(out[p], {Own[p[3]]})'
    BY <1>1 DEF CopyKept
  <2>1. out[p].of[Own[p[3]]] = out[p].at /\ Kept(out[p], {Own[p[3]]})
    BY DEF TimesKept, CopyKept
  <2>2. \A a, deps : a = out[p] /\ deps = {Own[p[3]]} => Kept(a, deps)'
    BY <1>2, <1>3, <1>4, <2>1
  <2> QED
    BY <1>1, <2>1, <2>2
<1>7. CacheKept'
  <2> SUFFICES ASSUME NEW s \in Sources, Kind[s[3]] = "redacted", s \notin raced, cache[s[3]] # Absent
               PROVE  Kept(cache[s[3]], Uses[s[3]])'
    BY <1>1 DEF CacheKept
  <2>1. Kept(cache[s[3]], Uses[s[3]]) /\ s[3] \in Entries
    BY DEF TimesKept, CacheKept, Sources
  <2>2. \A a, deps : a = cache[s[3]] /\ deps = Uses[s[3]] => Kept(a, deps)'
    BY <1>2, <1>4, <2>1
  <2> QED
    BY <1>1, <2>2
<1>8. DestKept'
  BY <1>1 DEF TimesKept, DestKept
<1> QED
  BY <1>5, <1>6, <1>7, <1>8 DEF TimesKept

\* A text was made from what its renderer read.
LEMMA TimesFinish ==
  ASSUME EInv, Hands, TimesKept, NEW job \in DOMAIN run.busy, job[2] # "cache", FinishJob(job)
  PROVE  TimesKept'
<1> DEFINE e == job[1]
           read == run.busy[job]
           made == [of |-> read.of, final |-> read.final, variant |-> read.variant,
                    defaults |-> read.defaults, at |-> clock]
           s == <<Env, Dir(e, Here), e>>
<1>1. /\ UNCHANGED <<time, cache>>
      /\ \A p \in AllPaths : p \in Paths(Env, Here, e) \/ out'[p] = out[p]
      /\ \A p \in AllPaths : p \in Paths(Env, Here, e) /\ p[4] \in Written(e, job[2]) => out'[p] = made
      /\ IsText(e) => raced' = IF Outrun(read, TextDeps(e)) THEN raced \cup {s} ELSE raced \ {s}
      /\ ~IsText(e) => raced' = raced
  BY DEF FinishJob, world
<1>2. e \in Entries /\ (IsText(e) \/ IsRendered(e)) /\ (IsText(e) => job[2] = "txt")
  BY DEF EInv, Shape, Jobs, IsJob, IsText, IsRendered, TextKinds, RenderedKinds, Hands
<1>3. made.of = read.of
  OBVIOUS
<1> HIDE DEF made, read, e
<1>4. CASE ~IsText(e)
  <2>1. \A p \in AllPaths : IsText(p[3]) \/ Kind[p[3]] \in {"copy", "redacted"} => out'[p] = out[p]
    BY <1>1, <1>2, <1>4, PathEntry DEF IsText, IsRendered, TextKinds, RenderedKinds
  <2> QED
    BY <1>1, <1>4, <2>1, TimesQuiet
<1>5. CASE IsText(e)
  <2>1. /\ \A p \in AllPaths : p[3] # e => out'[p] = out[p]
        /\ \A a : Kind[a] \in {"copy", "redacted"} => a # e
    BY <1>1, <1>5, PathEntry DEF IsText, TextKinds
  <2>2. \A a, deps : Kept(a, deps) => Kept(a, deps)'
    BY <1>1 DEF Kept
  <2>3. TextKept'
    <3> SUFFICES ASSUME NEW p \in AllPaths, IsText(p[3]), p[4] = "txt",
                        <<p[1], p[2], p[3]>> \notin raced', out'[p] # Absent
                 PROVE  Kept(out[p], TextDeps(p[3]))'
      BY DEF TextKept
    <3>1. CASE p \in Paths(Env, Here, e)
      <4>1. <<p[1], p[2], p[3]>> = s /\ p[3] = e
        BY <3>1, PathEntry
      <4>2. ~Outrun(read, TextDeps(e))
        BY <1>1, <1>5, <4>1
      <4>3. p[4] \in Written(e, job[2])
        BY <1>2, <1>5, <4>1, PathEntry DEF Written
      <4>4. out'[p] = made
        BY <1>1, <3>1, <4>3
      <4> QED
        BY <1>1, <1>3, <4>1, <4>2, <4>4 DEF Kept, Outrun, TextDeps
    <3>2. CASE p \notin Paths(Env, Here, e)
      <4>1. <<p[1], p[2], p[3]>> # s
        BY <3>2, PathEntry
      <4>2. out'[p] = out[p] /\ <<p[1], p[2], p[3]>> \notin raced
        BY <1>1, <1>5, <3>2, <4>1
      <4>3. Kept(out[p], TextDeps(p[3]))
        BY <4>2 DEF TimesKept, TextKept
      <4> QED
        BY <1>1, <4>2, <4>3 DEF Kept, TextDeps
    <3> QED
      BY <3>1, <3>2
  <2>4. CopyKept'
    BY <2>1, <2>2 DEF TimesKept, CopyKept
  <2>5. CacheKept'
    <3>1. \A r \in Sources : Kind[r[3]] = "redacted" /\ r \notin raced' => r \notin raced
      BY <1>1, <1>5, <2>1
    <3> QED
      BY <1>1, <2>2, <3>1 DEF TimesKept, CacheKept
  <2>6. DestKept'
    BY <1>1, <2>1 DEF TimesKept, DestKept
  <2> QED
    BY <2>3, <2>4, <2>5, <2>6 DEF TimesKept
<1> QED
  BY <1>4, <1>5

\* What is copied has the contents and the time of what was there.
LEMMA TimesCopy ==
  ASSUME EInv, TimesKept, NEW e \in Entries, Copy(e)
  PROVE  TimesKept'
<1> DEFINE new == [Absent EXCEPT !.of = [f \in Uses[e] |-> time[f]], !.at = time[Own[e]]]
<1>1. /\ UNCHANGED <<time, cache, raced>> /\ Kind[e] = "copy"
      /\ \A p \in AllPaths : out'[p] = out[p] \/ (p \in Paths(Env, Here, e) /\ out'[p] = new)
  BY DEF Copy, world, observed
<1>2. new.of[Own[e]] = time[Own[e]] /\ new.at = time[Own[e]]
  BY EnvelopeAssumption DEF Absent
<1> HIDE DEF new
<1>3. \A a, deps : Kept(a, deps) => Kept(a, deps)'
  BY <1>1 DEF Kept
<1>4. \A p \in AllPaths : out'[p] = out[p] \/ (p[3] = e /\ out'[p] = new)
  BY <1>1, PathEntry
<1>5. TextKept' /\ DestKept'
  <2>1. ~IsText(e)
    BY <1>1 DEF IsText, TextKinds
  <2>2. \A p \in AllPaths : IsText(p[3]) \/ Kind[p[3]] = "redacted" => out'[p] = out[p]
    BY <1>1, <1>4, <2>1
  <2> QED
    BY <1>1, <1>3, <2>2 DEF TimesKept, TextKept, DestKept
<1>6. CopyKept'
  <2> SUFFICES ASSUME NEW p \in AllPaths, Kind[p[3]] = "copy", out'[p] # Absent
               PROVE  out'[p].of[Own[p[3]]] = out'[p].at /\ Kept(out[p], {Own[p[3]]})'
    BY DEF CopyKept
  <2>1. CASE out'[p] = out[p]
    BY <1>3, <2>1 DEF TimesKept, CopyKept
  <2>2. CASE p[3] = e /\ out'[p] = new
    BY <1>1, <1>2, <2>2 DEF Kept
  <2> QED
    BY <1>4, <2>1, <2>2
<1>7. CacheKept'
  BY <1>1, <1>3 DEF TimesKept, CacheKept
<1> QED
  BY <1>5, <1>6, <1>7 DEF TimesKept

\* A redacted PDF is newer than any copy of the one before.
LEMMA TimesRedact ==
  ASSUME EInv, Timed, TimesKept, NEW e \in Entries, FinishRedaction(e)
  PROVE  TimesKept'
<1> DEFINE read == run.busy[<<e, "cache">>]
           new  == [Absent EXCEPT !.of = [f \in Uses[e] |-> read.of[f]], !.at = clock]
<1>1. /\ UNCHANGED <<time, out>> /\ Kind[e] = "redacted" /\ cache' = [cache EXCEPT ![e] = new]
      /\ raced' = IF Outrun(read, Uses[e]) THEN raced \cup {s \in Sources : s[3] = e}
                  ELSE raced \ {s \in Sources : s[3] = e}
  BY DEF FinishRedaction, world
<1>2. /\ cache'[e] = new /\ \A d \in Entries : d # e => cache'[d] = cache[d]
      /\ \A p \in AllPaths : out[p].at < clock
  BY <1>1 DEF Timed, Dated
<1>3. /\ new.at = clock /\ \A f \in Uses[e] : new.of[f] = read.of[f]
  BY DEF Absent
<1> HIDE DEF new, read
<1>4. \A a, deps : Kept(a, deps) => Kept(a, deps)'
  BY <1>1 DEF Kept
<1>5. TextKept'
  <2>1. ~IsText(e)
    BY <1>1 DEF IsText, TextKinds
  <2>2. \A p : IsText(p[3]) /\ <<p[1], p[2], p[3]>> \notin raced' => <<p[1], p[2], p[3]>> \notin raced
    BY <1>1, <2>1
  <2> QED
    BY <1>1, <1>4, <2>2 DEF TimesKept, TextKept
<1>6. CopyKept'
  BY <1>1, <1>4 DEF TimesKept, CopyKept
<1>7. CacheKept'
  <2> SUFFICES ASSUME NEW s \in Sources, Kind[s[3]] = "redacted", s \notin raced', cache'[s[3]] # Absent
               PROVE  Kept(cache[s[3]], Uses[s[3]])'
    BY DEF CacheKept
  <2>1. CASE s[3] = e
    <3>1. ~Outrun(read, Uses[e])
      BY <1>1, <2>1
    <3> QED
      BY <1>1, <1>2, <1>3, <2>1, <3>1 DEF Kept, Outrun
  <2>2. CASE s[3] # e
    <3>1. s \notin raced /\ cache'[s[3]] = cache[s[3]]
      BY <1>1, <1>2, <2>2 DEF Sources
    <3> QED
      BY <1>4, <3>1 DEF TimesKept, CacheKept
  <2> QED
    BY <2>1, <2>2
<1>8. DestKept'
  <2> SUFFICES ASSUME NEW p \in AllPaths, Kind[p[3]] = "redacted"
               PROVE  out[p] = Absent \/ out[p] = cache'[p[3]] \/ out[p].at < cache'[p[3]].at
    BY <1>1 DEF DestKept
  <2>1. p[3] \in Entries
    BY PathEntry
  <2> QED
    BY <1>2, <1>3, <2>1 DEF TimesKept, DestKept
<1> QED
  BY <1>5, <1>6, <1>7, <1>8 DEF TimesKept

LEMMA TimesCopyRedacted ==
  ASSUME EInv, TimesKept, NEW e \in Entries, Kind[e] = "redacted", CopyRedacted(e)
  PROVE  TimesKept'
<1>1. /\ UNCHANGED <<time, cache, raced>>
      /\ \A p \in AllPaths : out'[p] = out[p] \/ (p[3] = e /\ out'[p] = cache[e])
  BY PathEntry DEF CopyRedacted, world, observed
<1>2. \A a, deps : Kept(a, deps) => Kept(a, deps)'
  BY <1>1 DEF Kept
<1>3. ~IsText(e) /\ Kind[e] # "copy"
  BY DEF IsText, TextKinds
<1>4. TextKept' /\ CopyKept'
  BY <1>1, <1>2, <1>3 DEF TimesKept, TextKept, CopyKept
<1>5. CacheKept'
  BY <1>1, <1>2 DEF TimesKept, CacheKept
<1>6. DestKept'
  BY <1>1 DEF TimesKept, DestKept
<1> QED
  BY <1>4, <1>5, <1>6 DEF TimesKept

LEMMA TimesStep == Typed /\ Hands /\ TimesKept /\ [Next]_vars => TimesKept'
<1> SUFFICES ASSUME Typed, Hands, TimesKept, [Next]_vars PROVE TimesKept'
  OBVIOUS
<1>0. EInv /\ Timed
  BY DEF Typed
<1>1. ASSUME UNCHANGED <<time, cache, raced>>,
             \A p \in AllPaths : out'[p] = out[p] \/ out'[p] = Absent
      PROVE  TimesKept'
  BY <1>1, TimesQuiet
<1>2. ASSUME UNCHANGED <<time, cache, raced, out>> PROVE TimesKept'
  BY <1>1, <1>2
<1>3. CASE Record
  <2>1. run.plan \in Seq(Plans) /\ run.plan # << >> /\ run.ok
    BY <1>0, <1>3 DEF Record, EInv, Shape, Staged, IsRun
  <2>2. Head(run.plan) \in ToSet(run.plan)
    BY <2>1, TailSet
  <2>3. IsRendered(Head(run.plan).entry)
    BY <1>0, <2>1, <2>2 DEF EInv, Planned, PlanStands
  <2>4. /\ UNCHANGED <<time, cache, out>>
        /\ raced \ {<<Env, Here, Head(run.plan).entry>>} \subseteq raced'
    BY <1>3 DEF Record, world
  <2>5. \A s : Kind[s[3]] = "redacted" \/ IsText(s[3]) => (s \in raced => s \in raced')
    BY <2>3, <2>4 DEF IsText, IsRendered, TextKinds, RenderedKinds
  <2> QED
    BY <2>4, <2>5, TimesQuiet
<1>4. ASSUME NEW e \in Entries, CopyRedacted(e) PROVE TimesKept'
  <2>1. <<e, "dest">> \in ToSet(run.queue)
    BY <1>4 DEF CopyRedacted, ToSet
  <2>2. ToSet(run.queue) \subseteq Jobs
    BY <1>0, ToSetIn DEF EInv, Shape, IsRun
  <2>3. Kind[e] = "redacted"
    BY <2>1, <2>2 DEF Jobs, IsJob
  <2> QED
    BY <1>0, <1>4, <2>3, TimesCopyRedacted
<1>5. CASE BuildStep
  <2>1. CASE \E e \in Entries : Copy(e) \/ FinishRedaction(e) \/ CopyRedacted(e)
    BY <1>0, <1>4, <2>1, TimesCopy, TimesRedact
  <2>2. CASE \E job \in DOMAIN run.busy : job[2] # "cache" /\ FinishJob(job)
    BY <1>0, <2>2, TimesFinish
  <2>3. CASE \/ \E e \in Entries : PlanText(e) \/ PlanPdf(e) \/ Redact(e)
             \/ \E job \in DOMAIN run.busy : FailJob(job)
             \/ StartJob \/ Advance \/ NextEnvelope \/ Raise
    <3>1. UNCHANGED <<time, cache, raced, out>>
      BY <2>3 DEF PlanText, PlanPdf, Redact, FailJob, StartJob, Advance, NextEnvelope, Raise, Stop,
         world, observed
    <3> QED
      BY <1>2, <3>1
  <2> QED
    BY <1>3, <1>5, <2>1, <2>2, <2>3 DEF BuildStep
<1>6. CASE \E f \in Inputs : Save(f) \/ Restore(f)
  <2>1. clock \in Int /\ 0 - clock \in Int
    BY <1>0 DEF EInv, Shape
  <2> QED
    BY <1>0, <1>6, <2>1, TimesChange DEF Save, Restore
<1>7. CASE \E t \in Digests : Revert(t)
  <2> PICK t \in Digests : Revert(t)
    BY <1>7
  <2>1. t \in Int /\ Defaults \in Inputs /\ Change(Defaults, t)
    BY <1>0, RevertIs
  <2> QED
    BY <1>0, <2>1, TimesChange
<1>8. CASE \E p \in AllPaths : Delete(p)
  <2>1. PICK p \in AllPaths : Delete(p)
    BY <1>8
  <2>2. UNCHANGED <<time, cache, raced>> /\ out' = [out EXCEPT ![p] = Absent]
    BY <2>1 DEF Delete
  <2> QED
    BY <1>0, <1>1, <2>2 DEF EInv, Shape
<1>9. CASE Clean
  BY <1>1, <1>9 DEF Clean
<1>10. ASSUME ~BuildStep, ~\E f \in Inputs : Save(f) \/ Restore(f), ~\E t \in Digests : Revert(t),
              ~\E p \in AllPaths : Delete(p), ~Clean
       PROVE  TimesKept'
  <2>1. UNCHANGED <<time, cache, raced, out>>
    BY <1>10 DEF Next, Begin, BeginDoc, Kill, Stop, Lose, MarkSent, vars, world, observed
  <2> QED
    BY <1>2, <2>1
<1> QED
  BY <1>5, <1>6, <1>7, <1>8, <1>9, <1>10

LEMMA TimedRight ==
  ASSUME EInv, TimesKept
  PROVE  TimedIsRight
<1> SUFFICES ASSUME NEW n \in Envelopes, NEW o \in Asked, NEW e \in ToSet(Holds[n])
             PROVE  LET windowed == <<n, Dir(e, o.variant), e>> \in raced
                    IN  /\ IsText(e) /\ ~windowed /\ FreshText(n, e) =>
                             Made(out[<<n, "none", e, "txt">>], TextDeps(e))
                        /\ Kind[e] = "copy" /\ FreshCopy(n, e, o) =>
                             \A a \in At(Paths(n, o.variant, e)) : Made(a, Uses[e])
                        /\ Kind[e] = "redacted" /\ FreshRedact(n, e, o) =>
                             /\ \A a \in At(Paths(n, o.variant, e)) : a = cache[e]
                             /\ windowed \/ Made(cache[e], Uses[e])
  BY DEF TimedIsRight
<1> DEFINE s == <<n, o.variant, e>>
<1>1. e \in Entries /\ s \in Sources
  <2>1. e \in Entries
    BY EnvelopeAssumption, ToSetIn
  <2> QED
    BY <2>1 DEF Sources, Dirs
<1>2. Paths(n, o.variant, e) \subseteq AllPaths
  <2>1. Paths(s[1], s[2], s[3]) \subseteq AllPaths
    BY <1>1 DEF AllPaths
  <2> QED
    BY <2>1
<1>3. ASSUME NEW a, NEW deps, Kept(a, deps), ~(\E f \in deps : a.at < time[f]) PROVE Made(a, deps)
  BY <1>3 DEF Kept, Made
<1>4. ASSUME IsText(e), <<n, Dir(e, o.variant), e>> \notin raced, FreshText(n, e)
      PROVE  Made(out[<<n, "none", e, "txt">>], TextDeps(e))
  <2> DEFINE p == <<n, "none", e, "txt">>
  <2>1. p \in AllPaths /\ <<p[1], p[2], p[3]>> \notin raced /\ p[3] = e /\ p[4] = "txt"
    <3>1. "txt" \in Parts(e) /\ Dir(e, o.variant) = "none"
      BY <1>4 DEF Parts, Dir, IsText, TextKinds
    <3> QED
      BY <1>2, <1>4, <3>1 DEF Paths
  <2>2. out[p] # Absent /\ ~(\E f \in TextDeps(e) : out[p].at < time[f])
    BY <1>4 DEF FreshText, Old, Missing, At
  <2> HIDE DEF p
  <2>3. Kept(out[p], TextDeps(e))
    BY <1>4, <2>1, <2>2 DEF TimesKept, TextKept
  <2> QED
    BY <1>3, <2>2, <2>3 DEF p
<1>5. ASSUME Kind[e] = "copy", FreshCopy(n, e, o), NEW a \in At(Paths(n, o.variant, e))
      PROVE  Made(a, Uses[e])
  <2>1. PICK p \in Paths(n, o.variant, e) : a = out[p]
    BY <1>5 DEF At
  <2>2. p \in AllPaths /\ p[3] = e /\ Uses[e] = {Own[e]}
    BY <1>1, <1>2, <1>5, <2>1, EnvelopeAssumption DEF Paths
  <2>3. a # Absent /\ ~(\E f \in Uses[e] : a.at < time[f])
    BY <1>5 DEF FreshCopy, Old, Missing
  <2>4. Kept(a, Uses[e])
    BY <1>5, <2>1, <2>2, <2>3 DEF TimesKept, CopyKept
  <2> QED
    BY <1>3, <2>3, <2>4
<1>6. ASSUME Kind[e] = "redacted", FreshRedact(n, e, o)
      PROVE  /\ \A a \in At(Paths(n, o.variant, e)) : a = cache[e]
             /\ <<n, Dir(e, o.variant), e>> \in raced \/ Made(cache[e], Uses[e])
  <2>1. /\ cache[e] # Absent /\ ~(\E f \in Uses[e] : cache[e].at < time[f])
        /\ \A a \in At(Paths(n, o.variant, e)) : a # Absent /\ ~(a.at < cache[e].at)
    BY <1>6 DEF FreshRedact, Old, DestOld, Missing
  <2>2. ASSUME NEW a \in At(Paths(n, o.variant, e)) PROVE a = cache[e]
    <3>1. PICK p \in Paths(n, o.variant, e) : a = out[p]
      BY <2>2 DEF At
    <3>2. p \in AllPaths /\ p[3] = e
      BY <1>2, <3>1 DEF Paths
    <3> QED
      BY <1>6, <2>1, <2>2, <3>1, <3>2 DEF TimesKept, DestKept
  <2>3. Dir(e, o.variant) = o.variant
    BY <1>6 DEF Dir, IsText, TextKinds
  <2>4. s \notin raced => Kept(cache[e], Uses[e])
    BY <1>1, <1>6, <2>1 DEF TimesKept, CacheKept
  <2> QED
    BY <1>3, <2>1, <2>2, <2>3, <2>4
<1> QED
  BY <1>4, <1>5, <1>6

\* What a build would call up to date is right, for any envelopes, renderers and
\* changes while they run: a rendered source has the options asked for and the
\* inputs as they are (dependency_info, the manifest, render_jobs), a text, a copy
\* and a redacted PDF the inputs as they are (is_stale).  What is left are the windows
\* that OnlyWindows names: a build that did not come to its record, an input that
\* changed under a renderer, and a file restored with an earlier time.
THEOREM RecordedIsRight == Spec => []OnlyWindows
<1>1. Init => Typed /\ House /\ Promised /\ Rests
  BY InitTyped, InitRests
<1>2. Init => TimesKept
  BY DEF Init, TimesKept, TextKept, CopyKept, CacheKept, DestKept, Sources
<1>3. Typed /\ [Next]_vars => Typed'
  BY TypedStep
<1>4. House => Hands
  BY DEF House
<1>5. Typed /\ TimesKept => OnlyWindows
  BY RenderedRight, TimedRight DEF Typed, OnlyWindows
<1> QED
  BY <1>1, <1>2, <1>3, <1>4, <1>5, RestsStep, TimesStep, PTL DEF Spec
=============================================================================
