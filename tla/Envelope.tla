------------------------------ MODULE Envelope ------------------------------
(***************************************************************************)
(* pleading/build_envelope.py: the documents of an envelope are rendered   *)
(* into out/, by planned jobs that run at the same time; what was rendered *)
(* from what and with which options goes into .build_manifest.json, and    *)
(* a later build believes the manifest, or the times of the files.  A      *)
(* redacted PDF is built by redact_pdf.py beside its configuration and     *)
(* copied from there.                                                      *)
(*                                                                         *)
(* Every write has a time of its own, so the time of a file stands for     *)
(* what is in it: a file saved now bears the clock, one restored from      *)
(* elsewhere (cp -p, an unpacked archive) an earlier time of its own,      *)
(* written as a negative number.  Equal times and sizes of different       *)
(* contents are not modelled.  The defaults are compared by a digest of    *)
(* what they say, and may come to say again what they said before.         *)
(***************************************************************************)
EXTENDS Integers, FiniteSetsExt, SequencesExt

CONSTANTS
  Envelopes,   \* names in envelopes.yaml
  Entries,     \* what envelopes are made of
  Holds,       \* of each envelope: its entries, in the order of the file
  Kind,        \* of each entry: a member of Kinds
  Files,       \* the inputs, without the toolchain and the defaults
  Own,         \* of each entry: the file it names
  Uses,        \* of each entry: that file, its exhibits, its form
  Workers,     \* renderers at a time
  Tool,        \* the toolchain's modules, as one input
  Defaults,    \* the front-matter defaults, as one input
  Asked,       \* the options a build is asked for
  MaxEdits,    \* bound: changes of inputs, losses, removals and marks
  MaxRuns,     \* bound: builds
  MaxTroubles  \* bound: failed renders, killed builds, defaults taken back

Kinds    == {"pdf", "docx", "noticed", "txt", "attach", "copy", "redacted"}
Variants == {"none", "public", "sealed"}

ASSUME EnvelopeAssumption ==
  /\ IsFiniteSet(Envelopes) /\ Holds \in [Envelopes -> Seq(Entries)] /\ Kind \in [Entries -> Kinds]
  /\ Own \in [Entries -> Files] /\ Uses \in [Entries -> SUBSET Files]
  /\ \A e \in Entries : Own[e] \in Uses[e] /\ (Kind[e] = "copy" => Uses[e] = {Own[e]})
  /\ Tool \notin Files /\ Defaults \notin Files /\ Tool # Defaults
  /\ Asked \subseteq [final : BOOLEAN, variant : Variants]
  /\ Workers \in Nat \ {0}
  /\ MaxEdits \in Nat /\ MaxRuns \in Nat /\ MaxTroubles \in Nat

VARIABLES
  clock,
  time,      \* of each input: its modification time
  lost,      \* inputs that are not there
  sent,      \* envelopes marked sent
  out,       \* of each path under out/: the artifact there
  cache,     \* of each redacted entry: the artifact redact_pdf.py keeps
  manifest,  \* of each directory: what is recorded of each source
  run,       \* the build that is running
  edits, runs, troubles,
  torn,      \* observed: sources with an output written and not recorded
  raced,     \* observed: sources an input of which changed under their build
  settled,   \* observed: the builds that ended well and nothing changed since
  unseen     \* observed: envelopes marked sent since the build began

world    == <<time, lost, sent, unseen, edits>>
observed == <<torn, raced, settled>>
vars     == <<clock, world, out, cache, manifest, run, runs, troubles, observed>>

Inputs == Files \cup {Tool, Defaults}
Absent == [of |-> << >>, final |-> FALSE, variant |-> "none", defaults |-> 0, at |-> 0]
None   == [of |-> << >>, final |-> FALSE, variant |-> "none", defaults |-> -1]

TextKinds     == {"txt", "attach"}
RenderedKinds == {"pdf", "docx", "noticed"}
SourceKinds   == TextKinds \cup RenderedKinds

IsText(e)     == Kind[e] \in TextKinds
IsRendered(e) == Kind[e] \in RenderedKinds

\* What an entry puts under out/, by the renderer that writes it.
Parts(e) ==
  CASE Kind[e] = "docx" -> {"pdf", "docx"} [] Kind[e] = "noticed" -> {"pdf", "notice"}
    [] Kind[e] = "attach" -> {"txt", "files"} [] OTHER -> {Kind[e]}

Dir(e, variant) == IF IsText(e) THEN "none" ELSE variant

Paths(n, v, e) == {<<n, Dir(e, v), e, p>> : p \in Parts(e)}
Dirs     == {o.variant : o \in Asked}
Sources  == {s \in Envelopes \X Dirs \X Entries : s[3] \in ToSet(Holds[s[1]])}
AllPaths == UNION {Paths(s[1], s[2], s[3]) : s \in Sources}

\* The entries of some kinds, in the order of the file.
Of(n, kinds) ==
  LET places  == {i \in DOMAIN Holds[n] : Kind[Holds[n][i]] \in kinds}
      rank(i) == Cardinality({j \in places : j <= i})
  IN  [k \in 1 .. Cardinality(places) |-> Holds[n][CHOOSE i \in places : rank(i) = k]]

Idle == [pc |-> "idle", targets |-> << >>, opts |-> CHOOSE o \in Asked : TRUE,
         force |-> FALSE, doc |-> FALSE, todo |-> << >>, queue |-> << >>,
         busy |-> << >>, plan |-> << >>, ok |-> TRUE, calm |-> TRUE]

Init ==
  /\ clock = 1 /\ time = [f \in Inputs |-> 0] /\ lost = {} /\ sent = {}
  /\ out = [p \in AllPaths |-> Absent] /\ cache = [e \in Entries |-> Absent]
  /\ manifest = [s \in Sources |-> None]
  /\ run = Idle /\ edits = 0 /\ runs = 0 /\ troubles = 0
  /\ torn = {} /\ raced = {} /\ settled = {} /\ unseen = {}

-----------------------------------------------------------------------------
(* Staleness.                                                              *)

\* dependency_info looks at the source, its exhibits and its form, and
\* raises when one is missing.
SourceDeps(e)  == Uses[e] \cup {Tool}
Inspectable(e) == Uses[e] \cap lost = {}
TextDeps(e)    == {Own[e], Tool}

\* The oldest output is older than the newest dependency: some output than some.
Missing(arts)     == Absent \in arts
Old(arts, deps)   == Missing(arts) \/ \E a \in arts, f \in deps : a.at < time[f]
Raises(arts, deps) == ~Missing(arts) /\ deps \cap lost # {}

At(paths) == {out[p] : p \in paths}

Fingerprint(e) == [f \in SourceDeps(e) |-> time[f]]

RenderOptions(o) == [final |-> o.final, variant |-> o.variant, defaults |-> time[Defaults]]
OptionsOf(entry) == [final |-> entry.final, variant |-> entry.variant,
                     defaults |-> entry.defaults]

\* Mutant: the options recorded are not compared.
ManifestStaleBlind(n, e, o) ==
  LET arts  == At(Paths(n, o.variant, e))
      entry == manifest[<<n, o.variant, e>>]
  IN  \/ Missing(arts)
      \/ entry = None /\ Old(arts, SourceDeps(e))
      \/ entry # None /\ entry.of # Fingerprint(e)

\* The manifest first; the times when it says nothing of the source.
ManifestStale(n, e, o) ==
  LET arts  == At(Paths(n, o.variant, e))
      entry == manifest[<<n, o.variant, e>>]
  IN  \/ Missing(arts)
      \/ entry = None /\ Old(arts, SourceDeps(e))
      \/ entry # None /\ OptionsOf(entry) # RenderOptions(o)
      \/ entry # None /\ entry.of # Fingerprint(e)

DestOld(n, e, o) == Missing({cache[e]}) \/ Missing(At(Paths(n, o.variant, e)))
                    \/ \E a \in At(Paths(n, o.variant, e)) : a.at < cache[e].at

\* --check-stale: is every output there, and made from what is there now?
FreshText(n, e)      == ~Old(At({<<n, "none", e, "txt">>}), TextDeps(e))
FreshRender(n, e, o) == Inspectable(e) /\ ~ManifestStale(n, e, o)
FreshCopy(n, e, o)   == ~Old(At(Paths(n, o.variant, e)), Uses[e])
FreshRedact(n, e, o) == Inspectable(e) /\ ~Old({cache[e]}, Uses[e]) /\ ~DestOld(n, e, o)

CheckStaleness(n, o) ==
  \A e \in ToSet(Holds[n]) :
    /\ IsText(e)     => FreshText(n, e)
    /\ IsRendered(e) => FreshRender(n, e, o)
    /\ Kind[e] = "copy" => FreshCopy(n, e, o)
    /\ Kind[e] = "redacted" => FreshRedact(n, e, o)

-----------------------------------------------------------------------------
(* A build.                                                                *)

\* Mutant: --all builds the sent envelopes too.
TargetsAll(asked, all, force) == SetToSeq(asked)

\* main: --all leaves the sent envelopes out unless it is forced; one
\* envelope that was sent is refused.
Targets(asked, all, force) == SetToSeq(IF all /\ ~force THEN asked \ sent ELSE asked)

Unsettle(n) == {x \in settled : x[1] # n}

Begin(asked, all, o, force) ==
  LET targets == Targets(asked, all, force)
  IN  /\ run.pc = "idle" /\ runs < MaxRuns /\ targets # << >>
      /\ ~all /\ ~force => asked \cap sent = {}
      /\ runs' = runs + 1
      /\ run' = [Idle EXCEPT !.pc = "plan", !.targets = targets, !.opts = o,
                             !.force = force, !.todo = Of(Head(targets), SourceKinds)]
      /\ settled' = Unsettle(Head(targets)) /\ unseen' = {}
      /\ UNCHANGED <<clock, time, lost, sent, edits, out, cache, manifest, troubles, torn, raced>>

\* build_doc_source: one source, of exactly one envelope, that is not text.
Owners(e) == {n \in Envelopes : e \in ToSet(Of(n, SourceKinds))}

BeginDoc(e, o, force) ==
  /\ run.pc = "idle" /\ runs < MaxRuns /\ Own[e] \notin lost
  /\ IsRendered(e) /\ Cardinality(Owners(e)) = 1
  /\ force \/ Owners(e) \cap sent = {}
  /\ runs' = runs + 1
  /\ run' = [Idle EXCEPT !.pc = "plan", !.targets = SetToSeq(Owners(e)), !.opts = o,
                         !.force = force, !.doc = TRUE, !.todo = <<e>>]
  /\ settled' = {x \in settled : x[1] \notin Owners(e)} /\ unseen' = {}
  /\ UNCHANGED <<clock, time, lost, sent, edits, out, cache, manifest, troubles, torn, raced>>

Env  == Head(run.targets)
Here == run.opts.variant

\* What a renderer reads when it starts.
Snapshot(e) == [of |-> [f \in SourceDeps(e) |-> time[f]], final |-> run.opts.final,
                variant |-> Here, defaults |-> time[Defaults], good |-> Inspectable(e)]

\* The renderers at work: one more, one less.
Put(f, j, x) == [k \in DOMAIN f \cup {j} |-> IF k = j THEN x ELSE f[k]]
Drop(f, j)   == [k \in DOMAIN f \ {j} |-> f[k]]

\* A text source is rendered where it stands in the list.
PlanText(e) ==
  LET arts == {out[<<Env, "none", e, "txt">>]}
  IN  /\ run.pc = "plan" /\ run.busy = << >> /\ run.todo # << >>
      /\ e = Head(run.todo) /\ IsText(e)
      /\ IF run.force \/ Kind[e] = "attach" \/ Old(arts, TextDeps(e))
         THEN run' = [run EXCEPT !.todo = Tail(@), !.busy = Put(<< >>, <<e, "txt">>, Snapshot(e))]
         ELSE /\ ~Raises(arts, TextDeps(e))
              /\ run' = [run EXCEPT !.todo = Tail(@)]
      /\ UNCHANGED <<clock, world, out, cache, manifest, runs, troubles, observed>>

\* Mutant: the Word copy is not planned.
JobsOfPdf(e) == <<<<e, "pdf">>>>

\* A source that cannot be inspected is rendered, and recorded with no
\* dependencies.
JobsOf(e) == IF Kind[e] = "docx" THEN <<<<e, "pdf">>, <<e, "docx">>>> ELSE <<<<e, "pdf">>>>

PlanPdf(e) ==
  /\ run.pc = "plan" /\ run.busy = << >> /\ run.todo # << >>
  /\ e = Head(run.todo) /\ IsRendered(e)
  /\ IF ~run.force /\ Inspectable(e) /\ ~ManifestStale(Env, e, run.opts)
     THEN run' = [run EXCEPT !.todo = Tail(@)]
     ELSE run' = [run EXCEPT
            !.todo = Tail(@), !.queue = @ \o JobsOf(e),
            !.plan = Append(@, [entry |-> e, defaults |-> time[Defaults],
                                seen |-> Inspectable(e), late |-> FALSE])]
  /\ UNCHANGED <<clock, world, out, cache, manifest, runs, troubles, observed>>

StartJob ==
  /\ run.pc = "render" /\ run.queue # << >> /\ Cardinality(DOMAIN run.busy) < Workers
  /\ LET job == Head(run.queue)
     IN  run' = [run EXCEPT !.queue = Tail(@), !.busy = Put(@, job, Snapshot(job[1]))]
  /\ UNCHANGED <<clock, world, out, cache, manifest, runs, troubles, observed>>

\* The PDF and its companion notices come from one renderer.
Written(e, job) ==
  CASE job = "docx" -> {"docx"} [] job = "pdf" -> Parts(e) \ {"docx"} [] OTHER -> Parts(e)

\* An input of a renderer has changed since the renderer read it.
Outrun(read, deps) == \E f \in deps : read.of[f] # time[f]

FinishJob(job) ==
  LET e == job[1]  read == run.busy[job]  s == <<Env, Dir(e, Here), e>>
  IN  /\ job \in DOMAIN run.busy /\ read.good
      /\ out' = [p \in AllPaths |->
           IF p \in Paths(Env, Here, e) /\ p[4] \in Written(e, job[2])
           THEN [of |-> read.of, final |-> read.final, variant |-> read.variant,
                 defaults |-> read.defaults, at |-> clock]
           ELSE out[p]]
      /\ clock' = clock + 1
      /\ run' = [run EXCEPT !.busy = Drop(@, job)]
      /\ IF IsText(e)
         THEN /\ raced' = IF Outrun(read, TextDeps(e)) THEN raced \cup {s} ELSE raced \ {s}
              /\ UNCHANGED torn
         ELSE torn' = torn \cup {s} /\ UNCHANGED raced
      /\ UNCHANGED <<world, cache, manifest, runs, troubles, settled>>

FailJob(job) ==
  /\ job \in DOMAIN run.busy
  /\ run.busy[job].good => troubles < MaxTroubles
  /\ troubles' = IF run.busy[job].good THEN troubles + 1 ELSE troubles
  /\ run' = [run EXCEPT !.busy = Drop(@, job), !.ok = FALSE]
  /\ UNCHANGED <<clock, world, out, cache, manifest, runs, observed>>

\* The manifest is written when every render of the envelope went well.
Record ==
  /\ run.pc = "record" /\ run.plan # << >>
  /\ LET p == Head(run.plan)  s == <<Env, Here, p.entry>>
     IN  /\ Inspectable(p.entry) \/ ~p.seen
         /\ manifest' = [manifest EXCEPT ![s] =
              [of |-> IF p.seen THEN Fingerprint(p.entry) ELSE << >>,
               final |-> run.opts.final, variant |-> Here, defaults |-> p.defaults]]
         /\ torn' = torn \ {s}
         /\ raced' = IF p.late THEN raced \cup {s} ELSE raced \ {s}
  /\ run' = [run EXCEPT !.plan = Tail(@)]
  /\ UNCHANGED <<clock, world, out, cache, runs, troubles, settled>>

\* shutil.copy2 keeps the time of what it copies.
Copy(e) ==
  LET paths == Paths(Env, Here, e)
  IN  /\ run.pc = "copy" /\ run.todo # << >> /\ e = Head(run.todo) /\ Kind[e] = "copy"
      /\ IF run.force \/ Old(At(paths), Uses[e])
         THEN /\ Inspectable(e)
              /\ out' = [p \in AllPaths |-> IF p \in paths
                   THEN [Absent EXCEPT !.of = [f \in Uses[e] |-> time[f]], !.at = time[Own[e]]]
                   ELSE out[p]]
         ELSE ~Raises(At(paths), Uses[e]) /\ UNCHANGED out
      /\ run' = [run EXCEPT !.todo = Tail(@)]
      /\ UNCHANGED <<clock, world, cache, manifest, runs, troubles, observed>>

\* redact_pdf.py writes its output when every operation has had an effect.
\* A configuration that is missing is an error of the entry.
Redact(e) ==
  /\ run.pc = "redact" /\ run.busy = << >> /\ run.queue = << >> /\ run.todo # << >>
  /\ e = Head(run.todo) /\ Kind[e] = "redacted"
  /\ IF Own[e] \in lost
     THEN run' = [run EXCEPT !.todo = Tail(@), !.ok = FALSE]
     ELSE /\ ~Raises({cache[e]}, Uses[e])
          /\ IF run.force \/ Old({cache[e]}, Uses[e])
             THEN run' = [run EXCEPT !.todo = Tail(@), !.busy = Put(<< >>, <<e, "cache">>, Snapshot(e))]
             ELSE run' = [run EXCEPT !.todo = Tail(@), !.queue = <<<<e, "dest">>>>]
  /\ UNCHANGED <<clock, world, out, cache, manifest, runs, troubles, observed>>

FinishRedaction(e) ==
  /\ Kind[e] = "redacted" /\ <<e, "cache">> \in DOMAIN run.busy /\ run.busy[<<e, "cache">>].good
  /\ LET places == {s \in Sources : s[3] = e}
     IN  raced' = IF Outrun(run.busy[<<e, "cache">>], Uses[e]) THEN raced \cup places
                  ELSE raced \ places
  /\ cache' = [cache EXCEPT ![e] =
       [Absent EXCEPT !.of = [f \in Uses[e] |-> run.busy[<<e, "cache">>].of[f]], !.at = clock]]
  /\ clock' = clock + 1 /\ settled' = {}
  /\ run' = [run EXCEPT !.busy = << >>, !.queue = <<<<e, "dest">>>>]
  /\ UNCHANGED <<world, out, manifest, runs, troubles, torn>>

CopyRedacted(e) ==
  LET paths == Paths(Env, Here, e)
  IN  /\ run.pc = "redact" /\ run.queue = <<<<e, "dest">>>>
      /\ out' = IF run.force \/ DestOld(Env, e, run.opts)
                THEN [p \in AllPaths |-> IF p \in paths THEN cache[e] ELSE out[p]]
                ELSE out
      /\ run' = [run EXCEPT !.queue = << >>]
      /\ UNCHANGED <<clock, world, cache, manifest, runs, troubles, observed>>

\* From one stage of an envelope to the next, and to the next envelope.
Stage(pc) ==
  CASE pc = "plan"   -> [run EXCEPT !.pc = "render"]
    [] pc = "render" -> [run EXCEPT !.pc = "record", !.plan = IF run.ok THEN @ ELSE << >>]
    [] pc = "record" -> [run EXCEPT !.pc = "copy", !.todo = Of(Env, {"copy"})]
    [] pc = "copy"   -> [run EXCEPT !.pc = "redact", !.todo = Of(Env, {"redacted"})]

Advance ==
  /\ run.pc \in {"plan", "render", "record", "copy"} /\ run.busy = << >>
  /\ run.pc # "plan" => run.queue = << >>
  /\ run.pc \in {"plan", "copy"} => run.todo = << >>
  /\ run.pc = "record" => run.plan = << >> /\ ~run.doc
  /\ run' = Stage(run.pc)
  /\ UNCHANGED <<clock, world, out, cache, manifest, runs, troubles, observed>>

NextEnvelope ==
  /\ \/ run.pc = "redact" /\ run.busy = << >> /\ run.queue = << >> /\ run.todo = << >>
     \/ run.pc = "record" /\ run.plan = << >> /\ run.doc
  /\ IF Len(run.targets) = 1
     THEN run' = Idle
     ELSE LET next == Head(Tail(run.targets))
          IN  run' = [run EXCEPT !.pc = "plan", !.targets = Tail(@), !.ok = TRUE,
                                 !.calm = TRUE, !.todo = Of(next, SourceKinds)]
  /\ LET rest == IF Len(run.targets) = 1 THEN settled ELSE Unsettle(run.targets[2])
     IN  settled' = IF run.ok /\ run.calm /\ ~run.doc
                    THEN rest \cup {<<Env, run.opts>>} ELSE rest
  /\ UNCHANGED <<clock, world, out, cache, manifest, runs, troubles, torn, raced>>

Stop == run' = Idle /\ UNCHANGED <<clock, world, out, cache, manifest, runs, observed>>

\* An input that is missing where nothing catches it ends the program.
Raise ==
  /\ \/ /\ run.pc = "plan" /\ run.todo # << >> /\ run.busy = << >>
        /\ LET e == Head(run.todo)
           IN  /\ Kind[e] = "txt" /\ ~run.force
               /\ Raises({out[<<Env, "none", e, "txt">>]}, TextDeps(e))
     \/ /\ run.pc = "record" /\ run.plan # << >>
        /\ Head(run.plan).seen /\ ~Inspectable(Head(run.plan).entry)
     \/ /\ run.pc = "copy" /\ run.todo # << >>
        /\ ~Inspectable(Head(run.todo))
     \/ /\ run.pc = "redact" /\ run.todo # << >> /\ run.busy = << >> /\ run.queue = << >>
        /\ LET e == Head(run.todo) IN Own[e] \notin lost /\ Raises({cache[e]}, Uses[e])
  /\ Stop /\ UNCHANGED troubles

Kill == run.pc # "idle" /\ troubles < MaxTroubles /\ troubles' = troubles + 1 /\ Stop

-----------------------------------------------------------------------------
(* The folder's owner.                                                     *)

Disturb == edits < MaxEdits /\ edits' = edits + 1 /\ settled' = {}

\* The record has the files as they are when it is written, and the defaults as
\* they were when the source was planned: a source is late when a renderer may have
\* read a file before it changed, or may read the defaults after they did.
Begun(e)    == ToSet(JobsOf(e)) \ ToSet(run.queue) # {}
Unended(e)  == ToSet(JobsOf(e)) \cap (ToSet(run.queue) \cup DOMAIN run.busy) # {}
Late(p, f)  == IF f = Defaults THEN Unended(p.entry) ELSE f \in SourceDeps(p.entry) /\ Begun(p.entry)

Change(f, t) ==
  /\ time' = [time EXCEPT ![f] = t] /\ clock' = clock + 1 /\ lost' = lost \ {f}
  /\ run' = [run EXCEPT !.calm = FALSE, !.plan = [i \in DOMAIN @ |-> LET p == run.plan[i]
       IN  [p EXCEPT !.late = p.late \/ Late(p, f)]]]
  /\ UNCHANGED <<sent, unseen, out, cache, manifest, runs, torn, raced>>

Save(f)    == Disturb /\ Change(f, clock) /\ UNCHANGED troubles
Restore(f) == Disturb /\ f # Defaults /\ Change(f, 0 - clock) /\ UNCHANGED troubles

\* The defaults say again what they said when a source was planned or recorded.
Digests == {manifest[s].defaults : s \in Sources} \cup {p.defaults : p \in ToSet(run.plan)}

Revert(t) ==
  /\ troubles < MaxTroubles /\ troubles' = troubles + 1 /\ settled' = {} /\ UNCHANGED edits
  /\ t \in Digests \ {time[Defaults], None.defaults} /\ Change(Defaults, t)

Lose(f) ==
  /\ Disturb /\ f \in Files \ lost /\ lost' = lost \cup {f}
  /\ run' = [run EXCEPT !.calm = FALSE]
  /\ UNCHANGED <<clock, time, sent, unseen, out, cache, manifest, runs, troubles, torn, raced>>

Delete(p) ==
  /\ Disturb /\ out[p] # Absent /\ out' = [out EXCEPT ![p] = Absent]
  /\ run' = [run EXCEPT !.calm = FALSE]
  /\ UNCHANGED <<clock, time, lost, sent, unseen, cache, manifest, runs, troubles, torn, raced>>

\* envelopes.yaml is read once, when a build begins: a build that is running
\* does not see the mark.
MarkSent(n) ==
  /\ n \notin sent /\ sent' = sent \cup {n}
  /\ unseen' = IF run.pc = "idle" THEN unseen ELSE unseen \cup {n}
  /\ edits < MaxEdits /\ edits' = edits + 1
  /\ UNCHANGED <<clock, time, lost, out, cache, manifest, run, runs, troubles, observed>>

\* What --list-outputs names, and what sc clean --apply removes: the rest.
\* A source that cannot be inspected protects its whole envelope.
Expected(p) ==
  LET n == p[1]  e == p[3]
  IN  \/ p[4] \in {"pdf", "docx", "txt", "copy"}
      \/ p[4] = "notice"
      \/ \E s \in ToSet(Of(n, SourceKinds)) : ~Inspectable(s)

Clean ==
  /\ run.pc = "idle" /\ edits < MaxEdits /\ edits' = edits + 1 /\ settled' = {}
  /\ \E p \in AllPaths : out[p] # Absent /\ ~Expected(p)
  /\ out' = [p \in AllPaths |-> IF Expected(p) THEN out[p] ELSE Absent]
  /\ UNCHANGED <<clock, time, lost, sent, unseen, cache, manifest, run, runs, troubles, torn, raced>>

-----------------------------------------------------------------------------
BuildStep ==
  \/ \E e \in Entries : \/ PlanText(e) \/ PlanPdf(e) \/ Copy(e)
                        \/ Redact(e) \/ FinishRedaction(e) \/ CopyRedacted(e)
  \/ \E job \in DOMAIN run.busy : job[2] # "cache" /\ FinishJob(job)
  \/ \E job \in DOMAIN run.busy : FailJob(job)
  \/ StartJob \/ Record \/ Advance \/ NextEnvelope \/ Raise

Next ==
  \/ \E o \in Asked, force \in BOOLEAN :
       \/ \E n \in Envelopes : Begin({n}, FALSE, o, force)
       \/ Begin(Envelopes, TRUE, o, force)
       \/ \E e \in Entries : BeginDoc(e, o, force)
  \/ BuildStep \/ Kill
  \/ \E f \in Inputs : Save(f) \/ Restore(f)
  \/ \E t \in Digests : Revert(t)
  \/ \E f \in Files : Lose(f)
  \/ \E p \in AllPaths : Delete(p)
  \/ \E n \in Envelopes : MarkSent(n)
  \/ Clean

Spec == Init /\ [][Next]_vars

-----------------------------------------------------------------------------
\* The state is made of inputs, artifacts, records and one build.
TypeOK ==
  /\ clock \in Nat \ {0} /\ time \in [Inputs -> Int]
  /\ lost \subseteq Files /\ sent \subseteq Envelopes /\ unseen \subseteq sent
  /\ DOMAIN out = AllPaths /\ DOMAIN cache = Entries /\ DOMAIN manifest = Sources
  /\ \A f \in Inputs : time[f] < clock
  /\ \A p \in AllPaths : out[p].at < clock
  /\ run.pc \in {"idle", "plan", "render", "record", "copy", "redact"}
  /\ Cardinality(DOMAIN run.busy) <= Workers
  /\ torn \cup raced \subseteq Envelopes \X (Dirs \cup {"none"}) \X Entries
  /\ settled \subseteq Envelopes \X Asked

Right(a, e, o) ==
  /\ a.of = Fingerprint(e) /\ a.final = o.final /\ a.variant = o.variant
  /\ a.defaults = time[Defaults]

\* A source a build would call up to date was rendered with the options this
\* build asks for, from the inputs as they are: unless an output was written
\* by a build that did not record it, or an input changed after the renderer
\* had begun and before the record, or the defaults changed in between.
RenderedIsRight ==
  \A n \in Envelopes, o \in Asked : \A e \in ToSet(Holds[n]) :
    IsRendered(e) /\ <<n, o.variant, e>> \notin torn \cup raced /\ FreshRender(n, e, o) =>
      \A a \in At(Paths(n, o.variant, e)) : Right(a, e, o)

\* What is compared by times only was made from the inputs as they are, but for
\* those restored with a time of their own.
Made(a, deps) == \A f \in deps : a.of[f] = time[f] \/ time[f] < 0

\* A text, a copy and a redacted PDF that a build would call up to date was made from
\* the inputs their times are compared with: unless one changed while it was
\* made.  Of a text this says nothing of its options, nor of files beside it.
TimedIsRight ==
  \A n \in Envelopes, o \in Asked : \A e \in ToSet(Holds[n]) :
    LET windowed == <<n, Dir(e, o.variant), e>> \in raced
    IN  /\ IsText(e) /\ ~windowed /\ FreshText(n, e) =>
             Made(out[<<n, "none", e, "txt">>], TextDeps(e))
        /\ Kind[e] = "copy" /\ FreshCopy(n, e, o) =>
             \A a \in At(Paths(n, o.variant, e)) : Made(a, Uses[e])
        /\ Kind[e] = "redacted" /\ FreshRedact(n, e, o) =>
             /\ \A a \in At(Paths(n, o.variant, e)) : a = cache[e]
             /\ windowed \/ Made(cache[e], Uses[e])

\* Nothing that is called up to date is wrong outside of these windows.
OnlyWindows == RenderedIsRight /\ TimedIsRight

\* No artifact of an envelope that was marked sent when the build began is
\* replaced, in whatever order it builds the envelopes, unless it was forced.
SentStays ==
  [][~run.force => \A p \in AllPaths :
        p[1] \in sent \ unseen => out'[p] \in {out[p], Absent}]_vars

\* pleading_markdown_spec.md:1892-1900: what is marked sent is preserved.  It does not
\* hold of a mark made while a build is running.
SentIsFinal ==
  [][~run.force => \A p \in AllPaths : p[1] \in sent => out'[p] \in {out[p], Absent}]_vars

\* When a build of an envelope ends well, the check passes for the same
\* options, for as long as nothing is touched: rebuilding comes to rest.
Settles == \A x \in settled : CheckStaleness(x[1], x[2])

\* What the comment over the manifest promises (build_envelope.py:240-243): a
\* final build that ends well leaves no draft behind.  It does not hold after
\* a draft build of which another document failed (Stage), and never of a
\* text, whose options nothing records (PlanText).
FinalIsFinal ==
  \A x \in settled : x[2].final =>
    \A e \in ToSet(Of(x[1], SourceKinds)) :
      \A a \in At(Paths(x[1], x[2].variant, e)) : a.final

\* What expected_outputs says ("a false negative destroys work"): sc clean
\* takes nothing a build made.  It does not hold: redacted PDFs and the
\* exhibits copied beside a text are not on its list.
CleanTakesNothing == [][Clean => out' = out]_vars
=============================================================================
