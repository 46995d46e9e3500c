--------------------------- MODULE RemoteSigning ---------------------------
(***************************************************************************)
(* docuseal-client/client.py and proof-client/client.py: a document goes   *)
(* out to be signed (or notarized) by a service, and comes back.  send     *)
(* writes a receipt beside the document, poll walks the receipts, fetches  *)
(* what has completed into the inbox and marks the receipt, and fetch      *)
(* brings one submission into a folder of its user's choice.  Nothing      *)
(* locks the receipts: poll reads one, asks the service, and writes back   *)
(* the whole of what it read.                                              *)
(*                                                                         *)
(* The two clients are separate programs of one shape; a behaviour is that *)
(* of one of them, and "client" says which.                                *)
(***************************************************************************)
EXTENDS Integers, Sequences, FiniteSetsExt, Functions

CONSTANTS
  NPdf,        \* documents, numbered in the order of their paths
  MaxSubs,     \* bound: submissions created
  DocNames,    \* names of documents
  Bundle,      \* what is sent with each document: a sequence of names
  Pollers,     \* runs of poll: the scheduled sync's, and a person's
  MaxCrashes   \* bound: runs killed

Pdfs == 1 .. NPdf
Subs == 1 .. MaxSubs

ASSUME SigningAssumption ==
  /\ NPdf \in Nat \ {0} /\ MaxSubs \in Nat /\ MaxCrashes \in Nat
  /\ Bundle \in [Pdfs -> Seq(DocNames) \ {<< >>}]

VARIABLES
  client,    \* "docuseal" or "proof"
  subs,      \* the submissions at the service, in the order of creation
  receipt,   \* of each document: none, or the submission it names
  sender,    \* a send that awaits the service or writes its receipt
  poll,      \* each poller: where it is, the receipts left, the one it holds
  inbox,     \* files under inbox/<service>/<submission>/: <<sub, name, document>>
  announced, \* documents whose NEW line has reached triage
  folder,    \* files of the folder a fetch goes to, by destination:
             \* <name>_SIGNED (docuseal), or the name the document was sent under (proof)
  fetch,     \* a fetch and what it has still to download
  crashes,   \* runs killed
  lost,      \* history: documents whose NEW line a killed poll had not yet flushed
  spoiled    \* history: files torn by a kill although another poll, or a settled
             \* receipt, already counted on them

told == <<announced, lost, spoiled>>
remoteVars == <<client, subs, receipt, sender, poll, inbox, told, folder, fetch, crashes>>

NoReceipt == [sub |-> 0, completed |-> FALSE, terminal |-> FALSE, torn |-> FALSE]
IdlePoll  == [pc |-> "idle", todo |-> {}, pdf |-> 0, held |-> NoReceipt, next |-> 0,
              out |-> {}]   \* NEW lines it printed, still in its buffer
IdleSend  == [pc |-> "idle", pdf |-> 0, sub |-> 0]
IdleFetch == [pc |-> "idle", sub |-> 0, plan |-> << >>]

Empty == [n \in DocNames |-> "none"]

RemoteInit ==
  /\ client \in {"docuseal", "proof"}
  /\ subs = << >> /\ receipt = [p \in Pdfs |-> NoReceipt]
  /\ sender = IdleSend /\ poll = [k \in Pollers |-> IdlePoll]
  /\ inbox = {} /\ announced = {} /\ lost = {} /\ spoiled = {}
  /\ folder = Empty
  /\ fetch = IdleFetch /\ crashes = 0

-----------------------------------------------------------------------------
\* The service.

\* The signers finish.  A notarized document may lack its URL.
Complete(s) ==
  /\ subs[s].status = "pending"
  /\ \E urls \in SUBSET DOMAIN subs[s].docs :
       /\ client = "docuseal" => urls = DOMAIN subs[s].docs
       /\ subs' = [subs EXCEPT ![s].status = "complete", ![s].urls = urls]
  /\ UNCHANGED <<client, receipt, sender, poll, inbox, told, folder, fetch, crashes>>

\* docuseal: declined or expired; proof: expired, canceled or rejected.
Die(s) ==
  /\ subs[s].status = "pending"
  /\ subs' = [subs EXCEPT ![s].status = "dead"]
  /\ UNCHANGED <<client, receipt, sender, poll, inbox, told, folder, fetch, crashes>>

-----------------------------------------------------------------------------
\* proof sends one document at a time.
Sent(p) == IF client = "proof" THEN << Head(Bundle[p]) >> ELSE Bundle[p]

\* send: the draft, roster and field checks passed, the service creates the
\* submission; the receipt is not written yet.
Create(p) ==
  /\ sender.pc = "idle" /\ Len(subs) < MaxSubs
  /\ subs' = Append(subs, [status |-> "pending", docs |-> Sent(p), urls |-> {}])
  /\ sender' = [pc |-> "save", pdf |-> p, sub |-> Len(subs) + 1]
  /\ UNCHANGED <<client, receipt, poll, inbox, told, folder, fetch, crashes>>

\* The receipt takes the place of an earlier one of the document.
WriteReceipt ==
  /\ sender.pc = "save"
  /\ receipt' = [receipt EXCEPT ![sender.pdf] = [NoReceipt EXCEPT !.sub = sender.sub]]
  /\ sender' = IdleSend
  /\ UNCHANGED <<client, subs, poll, inbox, told, folder, fetch, crashes>>

-----------------------------------------------------------------------------
\* poll.

PollStart(k) ==
  /\ poll[k].pc = "idle"
  /\ poll' = [poll EXCEPT ![k] =
                [IdlePoll EXCEPT !.pc = "walk", !.todo = {p \in Pdfs : receipt[p].sub # 0}]]
  /\ UNCHANGED <<client, subs, receipt, sender, inbox, told, folder, fetch, crashes>>

At(k) == Min(poll[k].todo)

Finished(r) == r.completed \/ r.terminal

\* An unreadable receipt, or one that is settled.
Skip(k) ==
  /\ poll[k].pc = "walk" /\ poll[k].todo # {}
  /\ receipt[At(k)].torn \/ Finished(receipt[At(k)])
  /\ poll' = [poll EXCEPT ![k].todo = @ \ {At(k)}]
  /\ UNCHANGED <<client, subs, receipt, sender, inbox, told, folder, fetch, crashes>>

Read(k) ==
  /\ poll[k].pc = "walk" /\ poll[k].todo # {}
  /\ ~receipt[At(k)].torn /\ ~Finished(receipt[At(k)])
  /\ poll' = [poll EXCEPT ![k].pc = "ask", ![k].pdf = At(k), ![k].held = receipt[At(k)]]
  /\ UNCHANGED <<client, subs, receipt, sender, inbox, told, folder, fetch, crashes>>

Status(k) == subs[poll[k].held.sub].status

\* A dead ceremony: the receipt is never polled again.
Bury(k) ==
  /\ poll[k].pc = "ask" /\ Status(k) = "dead"
  /\ poll' = [poll EXCEPT ![k].pc = "save", ![k].held.terminal = TRUE]
  /\ UNCHANGED <<client, subs, receipt, sender, inbox, told, folder, fetch, crashes>>

\* The end of a run, by itself: its output is flushed to the sync that reads it.
Leave(k) ==
  /\ poll' = [poll EXCEPT ![k] = IdlePoll]
  /\ announced' = announced \cup poll[k].out
  /\ UNCHANGED <<client, subs, receipt, sender, inbox, lost, spoiled, folder, fetch, crashes>>

\* The poll ends at the first submission that is pending.
WaitSlip(k) == poll[k].pc = "ask" /\ Status(k) = "pending" /\ Leave(k)

Wait(k) ==
  /\ poll[k].pc = "ask" /\ Status(k) = "pending"
  /\ poll' = [poll EXCEPT ![k].pc = "save"]
  /\ UNCHANGED <<client, subs, receipt, sender, inbox, told, folder, fetch, crashes>>

Collect(k) ==
  /\ poll[k].pc = "ask" /\ Status(k) = "complete"
  /\ poll' = [poll EXCEPT ![k].pc = "fetch", ![k].next = 1]
  /\ UNCHANGED <<client, subs, receipt, sender, inbox, told, folder, fetch, crashes>>

DocsOf(k) == subs[poll[k].held.sub].docs

\* A file of the inbox is written over whatever has its name.
Put(s, name, i) == {f \in inbox : <<f[1], f[2]>> # <<s, name>>} \cup {<<s, name, i>>}

\* The NEW line of a document is printed to a pipe: it waits in the buffer.
Download(k) ==
  /\ poll[k].pc = "fetch" /\ poll[k].next <= Len(DocsOf(k))
  /\ poll[k].next \in subs[poll[k].held.sub].urls
  /\ inbox' = Put(poll[k].held.sub, DocsOf(k)[poll[k].next], poll[k].next)
  /\ poll' = [poll EXCEPT ![k].next = @ + 1,
                          ![k].out = @ \cup {<<poll[k].held.sub, DocsOf(k)[poll[k].next]>>}]
  /\ UNCHANGED <<client, subs, receipt, sender, told, folder, fetch, crashes>>

\* proof: a document without a URL is passed over.
PassOver(k) ==
  /\ poll[k].pc = "fetch" /\ poll[k].next <= Len(DocsOf(k))
  /\ poll[k].next \notin subs[poll[k].held.sub].urls
  /\ poll' = [poll EXCEPT ![k].next = @ + 1]
  /\ UNCHANGED <<client, subs, receipt, sender, inbox, told, folder, fetch, crashes>>

CollectedSlip(k) == poll[k].pc = "fetch"   \* before the last document

Collected(k) == poll[k].pc = "fetch" /\ poll[k].next > Len(DocsOf(k))

MarkCompleted(k) ==
  /\ Collected(k)
  /\ poll' = [poll EXCEPT ![k].pc = "save", ![k].held.completed = TRUE]
  /\ UNCHANGED <<client, subs, receipt, sender, inbox, told, folder, fetch, crashes>>

\* The receipt as it was read, with what was found, is written back.
SaveReceipt(k) ==
  /\ poll[k].pc = "save"
  /\ receipt' = [receipt EXCEPT ![poll[k].pdf] = poll[k].held]
  /\ poll' = [poll EXCEPT ![k] =
                [IdlePoll EXCEPT !.pc = "walk", !.todo = poll[k].todo \ {poll[k].pdf},
                                 !.out = poll[k].out]]
  /\ UNCHANGED <<client, subs, sender, inbox, told, folder, fetch, crashes>>

PollEnd(k) == poll[k].pc = "walk" /\ poll[k].todo = {} /\ Leave(k)

\* A call of the service fails: the whole poll ends there.
CallFails(k) ==
  /\ \/ poll[k].pc = "ask"
     \/ poll[k].pc = "fetch" /\ poll[k].next \in subs[poll[k].held.sub].urls
  /\ Leave(k)

-----------------------------------------------------------------------------
\* fetch.

\* docuseal: every destination is decided, and must be free, before a download.
Plannable(s, contents) ==
  \/ client = "proof"
  \/ /\ \A i \in DOMAIN subs[s].docs : contents[subs[s].docs[i]] = "none"
     /\ IsInjective(subs[s].docs)

\* Into a folder of any contents; a plan that is refused changes nothing.
FetchPlan(s) ==
  /\ fetch.pc = "idle" /\ subs[s].status = "complete"
  /\ \E contents \in [DocNames -> {"none", "other"}] :
       Plannable(s, contents) /\ folder' = contents
  /\ fetch' = [pc |-> "fetch", sub |-> s,
               plan |-> SelectSeq([i \in DOMAIN subs[s].docs |-> i],
                                  LAMBDA i : i \in subs[s].urls)]
  /\ UNCHANGED <<client, subs, receipt, sender, poll, inbox, told, crashes>>

Target == subs[fetch.sub].docs[Head(fetch.plan)]

FreeSlip == TRUE   \* replaces an existing file

Free == client = "docuseal" => folder[Target] = "none"

\* docuseal creates its files exclusively.
FetchDownload ==
  /\ fetch.pc = "fetch" /\ fetch.plan # << >> /\ Free
  /\ folder' = [folder EXCEPT ![Target] = "signed"]
  /\ fetch' = [fetch EXCEPT !.plan = Tail(@)]
  /\ UNCHANGED <<client, subs, receipt, sender, poll, inbox, told, crashes>>

FetchEnd ==
  /\ fetch.pc = "fetch" /\ (fetch.plan # << >> => ~Free)
  /\ fetch' = IdleFetch /\ folder' = Empty   \* no longer looked at
  /\ UNCHANGED <<client, subs, receipt, sender, poll, inbox, told, crashes>>

\* Someone else puts a file into the folder in the meantime.
PlaceFile(f) ==
  /\ fetch.pc = "fetch" /\ folder[f] = "none" /\ folder' = [folder EXCEPT ![f] = "other"]
  /\ UNCHANGED <<client, subs, receipt, sender, poll, inbox, told, fetch, crashes>>

-----------------------------------------------------------------------------
\* A kill.  The file that was being written is torn: a receipt that no longer
\* parses, or part of a document (0) in the inbox.
KillSend ==
  /\ sender.pc = "save" /\ crashes < MaxCrashes
  /\ crashes' = crashes + 1 /\ sender' = IdleSend
  /\ \/ UNCHANGED receipt
     \/ receipt' = [receipt EXCEPT ![sender.pdf] =
                      [NoReceipt EXCEPT !.sub = sender.sub, !.torn = TRUE]]
  /\ UNCHANGED <<client, subs, poll, inbox, told, folder, fetch>>

CountedOn(k, s) ==
  \/ \E l \in Pollers \ {k} : poll[l].pc \in {"fetch", "save"} /\ poll[l].held.sub = s
  \/ \E p \in Pdfs : receipt[p].sub = s /\ receipt[p].completed

\* Of the lines in the buffer some have been written out.
KillPoll(k) ==
  /\ poll[k].pc # "idle" /\ crashes < MaxCrashes
  /\ crashes' = crashes + 1 /\ poll' = [poll EXCEPT ![k] = IdlePoll]
  /\ \E said \in SUBSET poll[k].out :
       announced' = announced \cup said /\ lost' = lost \cup (poll[k].out \ said)
  /\ \/ UNCHANGED <<receipt, inbox, spoiled>>
     \/ /\ poll[k].pc = "save" /\ UNCHANGED <<inbox, spoiled>>
        /\ receipt' = [receipt EXCEPT ![poll[k].pdf] = [poll[k].held EXCEPT !.torn = TRUE]]
     \/ /\ poll[k].pc = "fetch" /\ poll[k].next \in subs[poll[k].held.sub].urls
        /\ LET s == poll[k].held.sub
               name == DocsOf(k)[poll[k].next]
           IN  /\ inbox' = Put(s, name, 0)
               /\ spoiled' = IF CountedOn(k, s) THEN spoiled \cup {<<s, name>>} ELSE spoiled
        /\ UNCHANGED receipt
  /\ UNCHANGED <<client, subs, sender, folder, fetch>>

-----------------------------------------------------------------------------
Answer(k) == Bury(k) \/ Wait(k) \/ Collect(k)

Poll(k) ==
  \/ PollStart(k) \/ Skip(k) \/ Read(k) \/ Answer(k) \/ Download(k) \/ PassOver(k)
  \/ MarkCompleted(k) \/ SaveReceipt(k) \/ PollEnd(k) \/ CallFails(k) \/ KillPoll(k)

RemoteNext ==
  \/ \E s \in DOMAIN subs : Complete(s) \/ Die(s) \/ FetchPlan(s)
  \/ \E p \in Pdfs : Create(p)
  \/ WriteReceipt \/ KillSend
  \/ \E k \in Pollers : Poll(k)
  \/ FetchDownload \/ FetchEnd
  \/ \E f \in DocNames : PlaceFile(f)

RemoteSpec == RemoteInit /\ [][RemoteNext]_remoteVars

\* The calendar polls again and again, a poll that runs gets on, and a call
\* that is made again and again is answered in the end.
FairSpec ==
  /\ RemoteSpec
  /\ \A k \in Pollers :
       /\ WF_remoteVars(PollStart(k) \/ Skip(k) \/ Read(k) \/ PassOver(k) \/ MarkCompleted(k)
                  \/ SaveReceipt(k) \/ PollEnd(k))
       /\ \A p \in Pdfs :
            /\ SF_remoteVars(poll[k].pdf = p /\ Answer(k))
            /\ \A i \in 1 .. Max({Len(Bundle[q]) : q \in Pdfs}) :
                 SF_remoteVars(poll[k].pdf = p /\ poll[k].next = i /\ Download(k))

-----------------------------------------------------------------------------
\* The records of the programs and the service; a poll in progress holds a
\* receipt that was not settled.
RemoteTypeOK ==
  /\ client \in {"docuseal", "proof"} /\ crashes \in 0 .. MaxCrashes
  /\ \A s \in DOMAIN subs :
       /\ s \in Subs /\ subs[s].docs \in {Sent(p) : p \in Pdfs} /\ subs[s].urls \subseteq DOMAIN subs[s].docs
       /\ subs[s].status \in {"pending", "complete", "dead"}
  /\ \A p \in Pdfs : receipt[p].sub \in {0} \cup DOMAIN subs
  /\ sender.pc \in {"idle", "save"}
  /\ sender.pc = "save" => sender.pdf \in Pdfs /\ sender.sub \in DOMAIN subs
  /\ \A k \in Pollers :
       /\ poll[k].pc \in {"idle", "walk", "ask", "fetch", "save"} /\ poll[k].todo \subseteq Pdfs
       /\ poll[k].pc \in {"ask", "fetch", "save"} =>
            poll[k].pdf \in poll[k].todo /\ poll[k].held.sub \in DOMAIN subs /\ ~poll[k].held.torn
       /\ poll[k].pc \in {"ask", "fetch"} => ~poll[k].held.completed /\ ~poll[k].held.terminal
       /\ poll[k].out \subseteq Subs \X DocNames
  /\ \A f \in inbox : f[1] \in DOMAIN subs /\ f[2] \in DocNames /\ f[3] \in 0 .. Len(subs[f[1]].docs)
  /\ announced \cup lost \cup spoiled \subseteq Subs \X DocNames
  /\ folder \in [DocNames -> {"none", "other", "signed"}]
  /\ fetch.pc \in {"idle", "fetch"}

\* What came back of a submission is in the inbox, whole (of documents of one
\* name, one of them), and its NEW line was given; save what was spoiled,
\* which takes a second poll.
Landed(s, i) ==
  \/ \E j \in DOMAIN subs[s].docs : subs[s].docs[j] = subs[s].docs[i] /\ <<s, subs[s].docs[i], j>> \in inbox
  \/ <<s, subs[s].docs[i]>> \in spoiled

Returned(s, given) == \A i \in subs[s].urls : Landed(s, i) /\ <<s, subs[s].docs[i]>> \in given

\* NEW lines that have reached triage, that a kill lost, or that a poll holds.
Given == announced \cup lost \cup UNION {poll[k].out : k \in Pollers}

\* A settled receipt is never polled again, so it must be true: completed, all
\* that came back is in the inbox, and its NEW lines were given; terminal, the
\* ceremony is dead.
SettledIsTrue ==
  \A p \in Pdfs : LET s == receipt[p].sub IN
    /\ receipt[p].terminal => subs[s].status = "dead"
    /\ receipt[p].completed => subs[s].status = "complete" /\ Returned(s, Given)

\* What the sync promises of its triage, "each run triages what is new": that no
\* document of a completed receipt goes unannounced.  It does not hold: a poll
\* that is killed after it settled one receipt loses the NEW lines in its buffer.
SettledIsAnnounced ==
  \A p \in Pdfs : receipt[p].completed /\ (\A k \in Pollers : poll[k].pc = "idle")
    => Returned(receipt[p].sub, announced)

\* "Fetch never overwrites": whatever else is put into the folder between its
\* check and its downloads.
NeverOverwrites ==
  [][client = "docuseal" /\ fetch.pc = "fetch" /\ fetch'.pc = "fetch" =>
       \A f \in DocNames : folder[f] # "none" => folder'[f] = folder[f]]_remoteVars

\* "The matter learns on the sync schedule": what is complete at the service and
\* has its receipt comes back, whatever calls fail and runs are killed.
EventuallyReturned ==
  \A s \in Subs :
    (s \in DOMAIN subs /\ subs[s].status = "complete"
       /\ \E p \in Pdfs : receipt[p].sub = s /\ ~receipt[p].torn)
    ~> ((s \in DOMAIN subs /\ Returned(s, announced \cup lost)) \/ \A p \in Pdfs : receipt[p].sub = s => receipt[p].torn)
=============================================================================
