--------------------------- MODULE SigningProofs ---------------------------
(***************************************************************************)
(* Theorems about RemoteSigning, for any number of documents, submissions, *)
(* polls side by side, failing calls and kills: a fetch overwrites nothing *)
(* and what a settled receipt says is true.                                *)
(*                                                                         *)
(* Theorems about LocalSign, for any documents made of whole signature     *)
(* blocks, and any number of runs.  The record of a run grows step by      *)
(* step, so the invariant says for each place of a run what its record     *)
(* holds, and that the events of runs to come are still empty.  The last   *)
(* part is about what discover finds on a page, line by line, and about    *)
(* what is drawn on the files.                                             *)
(***************************************************************************)
EXTENDS RemoteSigning, LocalSign, FiniteSetTheorems, WellFoundedInduction, TLAPS

-----------------------------------------------------------------------------
(* RemoteSigning.                                                          *)

SubRecs  == [status : {"pending", "complete", "dead"}, docs : Seq(DocNames), urls : SUBSET Nat]
Receipts == [sub : Nat, completed : BOOLEAN, terminal : BOOLEAN, torn : BOOLEAN]
PollRecs == [pc : {"idle", "walk", "ask", "fetch", "save"}, todo : SUBSET Pdfs, pdf : Nat,
             held : Receipts, next : Nat, out : SUBSET (Subs \X DocNames)]
SendRecs == [pc : {"idle", "save"}, pdf : Nat, sub : Nat]

-----------------------------------------------------------------------------
LEMMA MinIn ==
  ASSUME NEW S \in SUBSET Nat, S # {}
  PROVE  Min(S) \in S
<1> DEFINE R == OpToRel(<, Nat)
<1>1. IsWellFoundedOn(R, Nat)
  BY NatLessThanWellFounded
<1>2. \A x, y \in Nat : x < y => <<x, y>> \in R
  BY DEF OpToRel
<1> HIDE DEF R
<1>3. \E x \in S : \A y \in S : ~ (<<y, x>> \in R)
  BY <1>1, WFMin
<1>4. \E x \in S : \A y \in S : x =< y
  <2>1. PICK x \in S : \A y \in S : ~ (<<y, x>> \in R)
    BY <1>3
  <2>2. ASSUME NEW y \in S PROVE x =< y
    <3>1. x \in Nat /\ y \in Nat /\ ~(y < x)
      BY <1>2, <2>1
    <3> QED
      BY <3>1
  <2> QED
    BY <2>2
<1> QED
  BY <1>4 DEF Min

-----------------------------------------------------------------------------
\* "Fetch never overwrites" (client.py, fetch): no file that is in the folder
\* when the fetch has been planned, or is put there later, changes.
THEOREM FetchIsExclusive == RemoteSpec => NeverOverwrites
<1> DEFINE Keeps == client = "docuseal" /\ fetch.pc = "fetch" /\ fetch'.pc = "fetch" =>
                      \A f \in DocNames : folder[f] # "none" => folder'[f] = folder[f]
<1> DEFINE FInv == folder \in [DocNames -> {"none", "other", "signed"}]
<1>1. RemoteInit => FInv
  BY DEF RemoteInit, Empty
<1>2. FInv /\ [RemoteNext]_remoteVars => FInv' /\ Keeps
  <2> SUFFICES ASSUME FInv, [RemoteNext]_remoteVars PROVE FInv' /\ Keeps
    OBVIOUS
  <2>1. ASSUME NEW s \in DOMAIN subs, FetchPlan(s)
        PROVE  FInv' /\ Keeps
    BY <2>1 DEF FetchPlan
  <2>2. CASE FetchDownload
    BY <2>2 DEF FetchDownload, Free
  <2>3. CASE FetchEnd
    BY <2>3 DEF FetchEnd, IdleFetch, Empty
  <2>4. ASSUME NEW f \in DocNames, PlaceFile(f)
        PROVE  FInv' /\ Keeps
    BY <2>4 DEF PlaceFile
  <2>5. CASE UNCHANGED folder
    BY <2>5
  <2> QED
    BY <2>1, <2>2, <2>3, <2>4, <2>5 DEF RemoteNext, Complete, Die, Create, WriteReceipt, KillSend, Poll,
       PollStart, Skip, Read, Answer, Bury, Wait, Collect, Download, PassOver, MarkCompleted,
       SaveReceipt, PollEnd, CallFails, Leave, KillPoll, remoteVars
<1> QED
  BY <1>1, <1>2, PTL DEF RemoteSpec, NeverOverwrites
-----------------------------------------------------------------------------
\* The records, for any number of polls.  A poll holds a receipt of its walk,
\* which could be read and was not settled.
Proper(r) ==
  /\ r \in PollRecs /\ r.todo \subseteq {p \in Pdfs : receipt[p].sub # 0}
  /\ r.pc \in {"ask", "fetch", "save"} =>
       r.pdf \in r.todo /\ r.held.sub \in DOMAIN subs /\ ~r.held.torn
  /\ r.pc \in {"ask", "fetch"} => ~r.held.completed /\ ~r.held.terminal
  /\ r.pc = "idle" => r.out = {}

Service ==
  /\ client \in {"docuseal", "proof"} /\ crashes \in 0 .. MaxCrashes
  /\ subs \in Seq(SubRecs) /\ Len(subs) =< MaxSubs
  /\ \A s \in DOMAIN subs :
       subs[s].docs \in {Sent(p) : p \in Pdfs} /\ subs[s].urls \subseteq DOMAIN subs[s].docs

Papers ==
  /\ receipt \in [Pdfs -> Receipts] /\ \A p \in Pdfs : receipt[p].sub \in {0} \cup DOMAIN subs
  /\ sender \in SendRecs /\ (sender.pc = "save" => sender.pdf \in Pdfs /\ sender.sub \in DOMAIN subs)

Polls == poll \in [Pollers -> PollRecs] /\ \A k \in Pollers : Proper(poll[k])

Boxes ==
  /\ \A f \in inbox : f[1] \in DOMAIN subs /\ f[2] \in DocNames /\ f[3] \in 0 .. Len(subs[f[1]].docs)
  /\ announced \cup lost \cup spoiled \subseteq Subs \X DocNames

Desk == folder \in [DocNames -> {"none", "other", "signed"}] /\ fetch.pc \in {"idle", "fetch"}

RInv == Service /\ Papers /\ Polls /\ Boxes /\ Desk

LEMMA SentNames ==
  ASSUME NEW p \in Pdfs
  PROVE  Sent(p) \in Seq(DocNames)
<1>1. Bundle[p] \in Seq(DocNames) /\ Bundle[p] # << >>
  BY SigningAssumption
<1>2. Head(Bundle[p]) \in DocNames
  BY <1>1
<1> QED
  BY <1>1, <1>2 DEF Sent

LEMMA RecordsHaveTypes == RInv => RemoteTypeOK
<1> SUFFICES ASSUME RInv PROVE RemoteTypeOK
  OBVIOUS
<1>1. \A s \in DOMAIN subs : s \in Subs /\ subs[s].status \in {"pending", "complete", "dead"}
  <2>1. subs \in Seq(SubRecs) /\ Len(subs) =< MaxSubs /\ MaxSubs \in Nat
    BY SigningAssumption DEF RInv, Service
  <2>2. \A s \in DOMAIN subs : s \in 1 .. MaxSubs /\ subs[s] \in SubRecs
    BY <2>1
  <2> QED
    BY <2>2 DEF Subs, SubRecs
<1>2. \A k \in Pollers :
       /\ poll[k].pc \in {"idle", "walk", "ask", "fetch", "save"} /\ poll[k].todo \subseteq Pdfs
       /\ poll[k].pc \in {"ask", "fetch", "save"} =>
            poll[k].pdf \in poll[k].todo /\ poll[k].held.sub \in DOMAIN subs /\ ~poll[k].held.torn
       /\ poll[k].pc \in {"ask", "fetch"} => ~poll[k].held.completed /\ ~poll[k].held.terminal
       /\ poll[k].out \subseteq Subs \X DocNames
  BY DEF RInv, Polls, Proper, PollRecs
<1> QED
  BY <1>1, <1>2 DEF RInv, Service, Papers, Boxes, Desk, SendRecs, RemoteTypeOK

LEMMA InitRecords == RemoteInit => RInv
<1> SUFFICES ASSUME RemoteInit PROVE RInv
  OBVIOUS
<1>1. Service
  BY SigningAssumption DEF RemoteInit, Service
<1>2. Papers
  BY DEF RemoteInit, Papers, NoReceipt, IdleSend, Receipts, SendRecs
<1>3. Polls
  BY DEF RemoteInit, Polls, Proper, IdlePoll, NoReceipt, Receipts, PollRecs
<1>4. Boxes /\ Desk
  BY DEF RemoteInit, Boxes, Desk, Empty, IdleFetch
<1> QED
  BY <1>1, <1>2, <1>3, <1>4 DEF RInv

\* Submissions are added and settled, receipts come to name one, and what the
\* polls hold stays proper.
LEMMA PollsKept ==
  ASSUME Polls, UNCHANGED poll, DOMAIN subs \subseteq DOMAIN subs',
         \A p \in Pdfs : receipt[p].sub # 0 => receipt'[p].sub # 0
  PROVE  Polls'
<1>1. ASSUME NEW k \in Pollers PROVE Proper(poll[k])'
  <2>1. Proper(poll[k])
    BY DEF Polls
  <2> QED
    BY <2>1 DEF Proper
<1> QED
  BY <1>1 DEF Polls

LEMMA ServiceRecords ==
  ASSUME RInv, NEW s \in DOMAIN subs, Complete(s) \/ Die(s)
  PROVE  RInv'
<1>1. UNCHANGED <<client, receipt, sender, poll, inbox, announced, lost, spoiled, folder, fetch, crashes>>
  BY DEF Complete, Die, told
<1>2. /\ subs \in Seq(SubRecs) /\ subs[s] \in SubRecs
      /\ \A t \in DOMAIN subs : subs[t].urls \subseteq DOMAIN subs[t].docs
  BY DEF RInv, Service
<1>3. PICK r \in SubRecs : subs' = [subs EXCEPT ![s] = r] /\ r.docs = subs[s].docs
                           /\ r.urls \subseteq DOMAIN subs[s].docs
  <2>1. CASE Die(s)
    <3>1. [subs[s] EXCEPT !.status = "dead"] \in SubRecs
      BY <1>2 DEF SubRecs
    <3> QED
      BY <1>2, <2>1, <3>1 DEF Die, SubRecs
  <2>2. CASE Complete(s)
    <3>1. PICK urls \in SUBSET DOMAIN subs[s].docs :
            subs' = [subs EXCEPT ![s] = [subs[s] EXCEPT !.status = "complete", !.urls = urls]]
      BY <2>2 DEF Complete
    <3>2. DOMAIN subs[s].docs \subseteq Nat
      BY <1>2 DEF SubRecs
    <3>3. [subs[s] EXCEPT !.status = "complete", !.urls = urls] \in SubRecs
      BY <1>2, <3>2 DEF SubRecs
    <3> QED
      BY <1>2, <3>1, <3>3 DEF SubRecs
  <2> QED
    BY <2>1, <2>2
<1>4. /\ subs' \in Seq(SubRecs) /\ DOMAIN subs' = DOMAIN subs /\ Len(subs') = Len(subs)
      /\ \A t \in DOMAIN subs : subs'[t].docs = subs[t].docs
                                /\ subs'[t].urls \subseteq DOMAIN subs[t].docs
  BY <1>2, <1>3
<1>5. Service'
  <2>1. \A p \in Pdfs : Sent(p)' = Sent(p)
    BY <1>1 DEF Sent
  <2> QED
    BY <1>1, <1>4, <2>1 DEF RInv, Service
<1>6. Papers' /\ Boxes' /\ Desk'
  BY <1>1, <1>4 DEF RInv, Papers, Boxes, Desk
<1>7. Polls'
  BY <1>1, <1>4, PollsKept DEF RInv
<1> QED
  BY <1>5, <1>6, <1>7 DEF RInv

LEMMA CreateRecords ==
  ASSUME RInv, NEW p \in Pdfs, Create(p)
  PROVE  RInv'
<1>1. /\ UNCHANGED <<client, receipt, poll, inbox, announced, lost, spoiled, folder, fetch, crashes>>
      /\ sender' = [pc |-> "save", pdf |-> p, sub |-> Len(subs) + 1] /\ Len(subs) < MaxSubs
  BY DEF Create, told
<1> DEFINE r == [status |-> "pending", docs |-> Sent(p), urls |-> {}]
<1>2. r \in SubRecs /\ r.docs = Sent(p) /\ r.urls = {}
  BY SentNames DEF SubRecs
<1>3. subs' = Append(subs, r) /\ subs \in Seq(SubRecs)
  BY DEF Create, RInv, Service
<1> HIDE DEF r
<1>4. /\ subs' \in Seq(SubRecs) /\ DOMAIN subs' = DOMAIN subs \cup {Len(subs) + 1}
      /\ Len(subs') = Len(subs) + 1 /\ subs'[Len(subs) + 1] = r
      /\ \A s \in DOMAIN subs : subs'[s] = subs[s]
      /\ Len(subs) + 1 \in Nat
  BY <1>2, <1>3
<1>5. Service'
  <2>1. \A q \in Pdfs : Sent(q)' = Sent(q)
    BY <1>1 DEF Sent
  <2>2. Len(subs) + 1 =< MaxSubs
    BY <1>1, <1>3, SigningAssumption
  <2> QED
    BY <1>1, <1>2, <1>4, <2>1, <2>2 DEF RInv, Service
<1>6. Papers'
  BY <1>1, <1>4 DEF RInv, Papers, SendRecs, Pdfs
<1>7. Boxes' /\ Desk'
  BY <1>1, <1>4 DEF RInv, Boxes, Desk
<1>8. Polls'
  BY <1>1, <1>4, PollsKept DEF RInv
<1> QED
  BY <1>5, <1>6, <1>7, <1>8 DEF RInv

LEMMA ReceiptRecords ==
  ASSUME RInv, WriteReceipt \/ KillSend
  PROVE  RInv'
<1>1. /\ UNCHANGED <<client, subs, poll, inbox, announced, lost, spoiled, folder, fetch>> /\ sender' = IdleSend
      /\ sender.pdf \in Pdfs /\ sender.sub \in DOMAIN subs /\ sender.sub \in Nat
      /\ crashes' \in 0 .. MaxCrashes
  BY SigningAssumption DEF WriteReceipt, KillSend, RInv, Papers, SendRecs, Service, told
<1>2. \/ receipt' = receipt
      \/ \E torn \in BOOLEAN : receipt' = [receipt EXCEPT ![sender.pdf] =
           [sub |-> sender.sub, completed |-> FALSE, terminal |-> FALSE, torn |-> torn]]
  BY Zenon DEF WriteReceipt, KillSend, NoReceipt
<1>3. \A torn \in BOOLEAN :
        [sub |-> sender.sub, completed |-> FALSE, terminal |-> FALSE, torn |-> torn] \in Receipts
  BY <1>1 DEF Receipts
<1>4. 0 \notin DOMAIN subs
  BY DEF RInv, Service
<1>5. /\ receipt' \in [Pdfs -> Receipts]
      /\ \A p \in Pdfs : receipt'[p].sub = receipt[p].sub \/ receipt'[p].sub = sender.sub
  <2>1. ASSUME NEW r \in Receipts, r.sub = sender.sub, receipt' = [receipt EXCEPT ![sender.pdf] = r]
        PROVE  /\ receipt' \in [Pdfs -> Receipts]
               /\ \A p \in Pdfs : receipt'[p].sub = receipt[p].sub \/ receipt'[p].sub = sender.sub
    BY <1>1, <2>1 DEF RInv, Papers
  <2> QED
    BY <1>2, <1>3, <2>1 DEF RInv, Papers
<1>6. Service'
  <2>1. \A q \in Pdfs : Sent(q)' = Sent(q)
    BY <1>1 DEF Sent
  <2> QED
    BY <1>1, <2>1 DEF RInv, Service
<1>7. Papers'
  BY <1>1, <1>5 DEF RInv, Papers, IdleSend, SendRecs
<1>8. Boxes' /\ Desk'
  BY <1>1 DEF RInv, Boxes, Desk
<1>9. Polls'
  BY <1>1, <1>4, <1>5, PollsKept DEF RInv
<1> QED
  BY <1>6, <1>7, <1>8, <1>9 DEF RInv

\* The document that a poll downloads is one of its submission's.
LEMMA NextDocument ==
  ASSUME RInv, NEW k \in Pollers, poll[k].pc = "fetch", NEW s, s = poll[k].held.sub,
         NEW n, n = poll[k].next, n \in subs[s].urls
  PROVE  /\ s \in DOMAIN subs /\ s \in Subs /\ n \in DOMAIN subs[s].docs /\ n \in 0 .. Len(subs[s].docs)
         /\ subs[s].docs[n] \in DocNames /\ DocsOf(k) = subs[s].docs
<1>1. s \in DOMAIN subs /\ subs[s] \in SubRecs /\ n \in DOMAIN subs[s].docs
  <2>1. s \in DOMAIN subs
    BY DEF RInv, Polls, Proper
  <2> QED
    BY <2>1 DEF RInv, Service
<1>2. subs[s].docs \in Seq(DocNames)
  BY <1>1 DEF SubRecs
<1>3. s \in Subs
  <2>1. subs \in Seq(SubRecs) /\ Len(subs) =< MaxSubs /\ MaxSubs \in Nat
    BY SigningAssumption DEF RInv, Service
  <2> QED
    BY <1>1, <2>1 DEF Subs
<1> QED
  BY <1>1, <1>2, <1>3 DEF DocsOf

\* A step of one poll leaves it with a proper record.
LEMMA PollRecord ==
  ASSUME RInv, NEW k \in Pollers, Poll(k)
  PROVE  \E r : poll' = [poll EXCEPT ![k] = r] /\ Proper(r)
<1>1. Proper(poll[k]) /\ poll[k] \in PollRecs /\ poll[k].held \in Receipts
  BY DEF RInv, Polls, PollRecs
<1>2. Proper(IdlePoll)
  BY DEF Proper, IdlePoll, NoReceipt, PollRecs, Receipts
<1>3. CASE PollEnd(k) \/ CallFails(k) \/ KillPoll(k)
  BY <1>2, <1>3 DEF PollEnd, CallFails, Leave, KillPoll
<1>4. CASE PollStart(k)
  <2> DEFINE r == [IdlePoll EXCEPT !.pc = "walk", !.todo = {p \in Pdfs : receipt[p].sub # 0}]
  <2>1. Proper(r)
    BY DEF Proper, IdlePoll, NoReceipt, PollRecs, Receipts
  <2>2. poll' = [poll EXCEPT ![k] = r]
    BY <1>4 DEF PollStart
  <2> QED
    BY <2>1, <2>2
<1>5. CASE SaveReceipt(k)
  <2> DEFINE r == [IdlePoll EXCEPT !.pc = "walk", !.todo = poll[k].todo \ {poll[k].pdf},
                                   !.out = poll[k].out]
  <2>1. Proper(r)
    BY <1>1 DEF Proper, IdlePoll, NoReceipt, PollRecs, Receipts
  <2>2. poll' = [poll EXCEPT ![k] = r]
    BY <1>5 DEF SaveReceipt
  <2> QED
    BY <2>1, <2>2
<1>6. CASE Skip(k)
  <2> DEFINE r == [poll[k] EXCEPT !.todo = @ \ {At(k)}]
  <2>1. Proper(r)
    BY <1>1, <1>6 DEF Proper, Skip, PollRecs
  <2>2. poll' = [poll EXCEPT ![k] = r]
    BY <1>6 DEF Skip
  <2> QED
    BY <2>1, <2>2
<1>7. CASE Read(k)
  <2> DEFINE r == [poll[k] EXCEPT !.pc = "ask", !.pdf = At(k), !.held = receipt[At(k)]]
  <2>1. poll[k].todo \in SUBSET Nat /\ poll[k].todo # {}
    BY <1>1, <1>7 DEF Read, Proper, Pdfs
  <2>2. At(k) \in poll[k].todo /\ At(k) \in Pdfs /\ receipt[At(k)].sub # 0
    BY <1>1, <2>1, MinIn DEF At, Proper
  <2>3. receipt[At(k)] \in Receipts /\ receipt[At(k)].sub \in DOMAIN subs
    BY <2>2 DEF RInv, Papers
  <2>4. Proper(r)
    <3>1. At(k) \in Nat /\ ~receipt[At(k)].torn /\ ~Finished(receipt[At(k)])
      BY <1>7, <2>2 DEF Read, Pdfs
    <3>2. r \in PollRecs
      BY <1>1, <2>3, <3>1 DEF PollRecs
    <3>3. r.pc = "ask" /\ r.pdf = At(k) /\ r.held = receipt[At(k)] /\ r.todo = poll[k].todo
      BY <1>1 DEF PollRecs
    <3> HIDE DEF r
    <3> QED
      BY <1>1, <2>2, <2>3, <3>1, <3>2, <3>3 DEF Proper, Finished
  <2>5. poll' = [poll EXCEPT ![k] = r]
    BY <1>7 DEF Read
  <2> QED
    BY <2>4, <2>5
<1>8. CASE Wait(k)
  <2> DEFINE r == [poll[k] EXCEPT !.pc = "save"]
  <2>1. Proper(r)
    BY <1>1, <1>8 DEF Proper, Wait, PollRecs
  <2>2. poll' = [poll EXCEPT ![k] = r]
    BY <1>8 DEF Wait
  <2> QED
    BY <2>1, <2>2
<1>9. CASE Collect(k)
  <2> DEFINE r == [poll[k] EXCEPT !.pc = "fetch", !.next = 1]
  <2>1. Proper(r)
    BY <1>1, <1>9 DEF Proper, Collect, PollRecs
  <2>2. poll' = [poll EXCEPT ![k] = r]
    BY <1>9 DEF Collect
  <2> QED
    BY <2>1, <2>2
<1>10. CASE PassOver(k)
  <2> DEFINE r == [poll[k] EXCEPT !.next = poll[k].next + 1]
  <2>1. Proper(r)
    BY <1>1 DEF Proper, PollRecs
  <2>2. poll' = [poll EXCEPT ![k] = r]
    BY <1>10 DEF PassOver
  <2> QED
    BY <2>1, <2>2
<1>13. CASE Download(k)
  <2> DEFINE doc == <<poll[k].held.sub, DocsOf(k)[poll[k].next]>>
             r == [poll[k] EXCEPT !.next = poll[k].next + 1, !.out = poll[k].out \cup {doc}]
  <2>1. doc \in Subs \X DocNames
    BY <1>13, NextDocument DEF Download
  <2>2. poll' = [poll EXCEPT ![k] = r]
    BY <1>13 DEF Download
  <2> HIDE DEF doc
  <2>3. Proper(r)
    <3>1. poll[k].pc = "fetch"
      BY <1>13 DEF Download
    <3>2. poll[k].out \cup {doc} \in SUBSET (Subs \X DocNames) /\ poll[k].next + 1 \in Nat
      BY <1>1, <2>1 DEF PollRecs
    <3>3. r \in PollRecs
      BY <1>1, <3>2 DEF PollRecs
    <3>4. r.pc = poll[k].pc /\ r.todo = poll[k].todo /\ r.pdf = poll[k].pdf /\ r.held = poll[k].held
      BY <1>1 DEF PollRecs
    <3> HIDE DEF r
    <3> QED
      BY <1>1, <3>1, <3>3, <3>4 DEF Proper
  <2> QED
    BY <2>2, <2>3
<1>11. CASE Bury(k)
  <2> DEFINE h == [poll[k].held EXCEPT !.terminal = TRUE]
             r == [poll[k] EXCEPT !.pc = "save", !.held = h]
  <2>1. h \in Receipts /\ h.sub = poll[k].held.sub /\ h.torn = poll[k].held.torn
    BY <1>1 DEF Receipts
  <2>2. poll' = [poll EXCEPT ![k] = r]
    BY <1>11 DEF Bury
  <2> HIDE DEF h
  <2>3. Proper(r)
    BY <1>1, <1>11, <2>1 DEF Proper, Bury, PollRecs
  <2> QED
    BY <2>2, <2>3
<1>12. CASE MarkCompleted(k)
  <2> DEFINE h == [poll[k].held EXCEPT !.completed = TRUE]
             r == [poll[k] EXCEPT !.pc = "save", !.held = h]
  <2>1. h \in Receipts /\ h.sub = poll[k].held.sub /\ h.torn = poll[k].held.torn
    BY <1>1 DEF Receipts
  <2>2. poll' = [poll EXCEPT ![k] = r]
    BY <1>12 DEF MarkCompleted
  <2> HIDE DEF h
  <2>3. Proper(r)
    BY <1>1, <1>12, <2>1 DEF Proper, MarkCompleted, Collected, PollRecs
  <2> QED
    BY <2>2, <2>3
<1> QED
  BY <1>3, <1>4, <1>5, <1>6, <1>7, <1>8, <1>9, <1>10, <1>11, <1>12, <1>13 DEF Poll, Answer

\* What a poll puts into the inbox is of the submission it asked about, and what
\* it says or loses was in its buffer.
LEMMA PollFiles ==
  ASSUME RInv, NEW k \in Pollers, Poll(k)
  PROVE  Boxes'
<1>1. subs' = subs
  BY DEF Poll, PollStart, Skip, Read, Answer, Bury, Wait, Collect, Download, PassOver,
     MarkCompleted, SaveReceipt, PollEnd, CallFails, Leave, KillPoll
<1>2. announced' \cup lost' \subseteq announced \cup lost \cup poll[k].out
  <2>1. CASE KillPoll(k)
    BY <2>1 DEF KillPoll
  <2>2. CASE PollEnd(k) \/ CallFails(k)
    BY <2>2 DEF PollEnd, CallFails, Leave
  <2> QED
    BY <2>1, <2>2 DEF Poll, PollStart, Skip, Read, Answer, Bury, Wait, Collect, Download, PassOver,
       MarkCompleted, SaveReceipt, told
<1>3. announced' \cup lost' \subseteq Subs \X DocNames
  <2>1. poll[k].out \subseteq Subs \X DocNames
    BY DEF RInv, Polls, PollRecs
  <2> QED
    BY <1>2, <2>1 DEF RInv, Boxes
<1>4. CASE UNCHANGED <<inbox, spoiled>>
  BY <1>1, <1>3, <1>4 DEF RInv, Boxes
<1>5. ASSUME NEW i \in {0, poll[k].next}, poll[k].pc = "fetch",
             poll[k].next \in subs[poll[k].held.sub].urls,
             inbox' = Put(poll[k].held.sub, DocsOf(k)[poll[k].next], i),
             spoiled' \subseteq spoiled \cup {<<poll[k].held.sub, DocsOf(k)[poll[k].next]>>}
      PROVE  Boxes'
  <2>1. PICK s : s = poll[k].held.sub
    OBVIOUS
  <2>2. PICK n : n = poll[k].next
    OBVIOUS
  <2>3. /\ s \in DOMAIN subs /\ s \in Subs /\ i \in 0 .. Len(subs[s].docs)
        /\ subs[s].docs[n] \in DocNames /\ DocsOf(k) = subs[s].docs
    <3>1. n \in subs[s].urls
      BY <1>5, <2>1, <2>2
    <3>2. subs \in Seq(SubRecs)
      BY DEF RInv, Service
    <3>3. s \in DOMAIN subs /\ n \in 0 .. Len(subs[s].docs)
      BY <1>5, <2>1, <2>2, <3>1, NextDocument
    <3>4. subs[s].docs \in Seq(DocNames)
      <4>1. subs[s] \in SubRecs
        BY <3>2, <3>3
      <4> QED
        BY <4>1 DEF SubRecs
    <3>5. 0 \in 0 .. Len(subs[s].docs)
      BY <3>4
    <3> QED
      BY <1>5, <2>1, <2>2, <3>1, <3>3, <3>5, NextDocument
  <2>4. /\ inbox' \subseteq inbox \cup {<<s, subs[s].docs[n], i>>}
        /\ spoiled' \subseteq spoiled \cup {<<s, subs[s].docs[n]>>}
    BY <1>5, <2>1, <2>2, <2>3 DEF Put
  <2>5. \A f \in inbox : f[1] \in DOMAIN subs /\ f[2] \in DocNames /\ f[3] \in 0 .. Len(subs[f[1]].docs)
    BY DEF RInv, Boxes
  <2>6. \A f \in inbox' : f[1] \in DOMAIN subs /\ f[2] \in DocNames /\ f[3] \in 0 .. Len(subs[f[1]].docs)
    <3> TAKE f \in inbox'
    <3>1. f \in inbox \/ f = <<s, subs[s].docs[n], i>>
      BY <2>4
    <3>2. CASE f = <<s, subs[s].docs[n], i>>
      <4>1. f[1] = s /\ f[2] = subs[s].docs[n] /\ f[3] = i
        BY <3>2
      <4> QED
        BY <2>3, <4>1
    <3> QED
      BY <2>5, <3>1, <3>2
  <2>7. spoiled' \subseteq Subs \X DocNames
    BY <2>3, <2>4 DEF RInv, Boxes
  <2> QED
    BY <1>1, <1>3, <2>6, <2>7 DEF Boxes
<1>6. CASE Download(k)
  <2>1. spoiled' = spoiled
    BY <1>6 DEF Download, told
  <2> QED
    BY <1>5, <1>6, <2>1 DEF Download
<1>7. CASE KillPoll(k)
  BY <1>4, <1>5, <1>7 DEF KillPoll
<1> QED
  BY <1>4, <1>6, <1>7 DEF Poll, PollStart, Skip, Read, Answer, Bury, Wait, Collect, PassOver,
     MarkCompleted, SaveReceipt, PollEnd, CallFails, Leave, told

LEMMA PollRecordsStep ==
  ASSUME RInv, NEW k \in Pollers, Poll(k)
  PROVE  RInv'
<1>1. UNCHANGED <<client, subs, sender, folder, fetch>>
  BY DEF Poll, PollStart, Skip, Read, Answer, Bury, Wait, Collect, Download, PassOver,
     MarkCompleted, SaveReceipt, PollEnd, CallFails, Leave, KillPoll
<1>2. crashes' \in 0 .. MaxCrashes
  <2>1. crashes \in 0 .. MaxCrashes /\ MaxCrashes \in Nat
    BY SigningAssumption DEF RInv, Service
  <2>2. CASE KillPoll(k)
    BY <2>1, <2>2 DEF KillPoll
  <2> QED
    BY <2>1, <2>2 DEF Poll, PollStart, Skip, Read, Answer, Bury, Wait, Collect, Download, PassOver,
       MarkCompleted, SaveReceipt, PollEnd, CallFails, Leave, told
<1> DEFINE Named ==
      /\ receipt' \in [Pdfs -> Receipts] /\ \A p \in Pdfs : receipt'[p].sub \in {0} \cup DOMAIN subs
      /\ \A p \in Pdfs : receipt[p].sub # 0 => receipt'[p].sub # 0
<1>3. Named
  <2>1. CASE UNCHANGED receipt
    BY <2>1 DEF RInv, Papers
  <2>2. ASSUME poll[k].pc = "save", NEW r \in Receipts, r.sub = poll[k].held.sub,
               receipt' = [receipt EXCEPT ![poll[k].pdf] = r]
        PROVE  Named
    <3>1. Proper(poll[k]) /\ 0 \notin DOMAIN subs
      BY DEF RInv, Polls, Service
    <3> QED
      BY <2>2, <3>1 DEF RInv, Papers, Proper
  <2>3. poll[k].held \in Receipts
    BY DEF RInv, Polls, PollRecs
  <2>4. CASE SaveReceipt(k)
    <3>1. poll[k].pc = "save" /\ receipt' = [receipt EXCEPT ![poll[k].pdf] = poll[k].held]
      BY <2>4 DEF SaveReceipt
    <3> HIDE DEF Named
    <3> QED
      BY <2>2, <2>3, <3>1
  <2>5. CASE KillPoll(k)
    <3> DEFINE h == [poll[k].held EXCEPT !.torn = TRUE]
    <3>1. h \in Receipts /\ h.sub = poll[k].held.sub
      BY <2>3 DEF Receipts
    <3>2. \/ UNCHANGED receipt
          \/ poll[k].pc = "save" /\ receipt' = [receipt EXCEPT ![poll[k].pdf] = h]
      BY <2>5 DEF KillPoll
    <3> HIDE DEF h, Named
    <3> QED
      BY <2>1, <2>2, <3>1, <3>2
  <2> QED
    BY <2>1, <2>4, <2>5 DEF Poll, PollStart, Skip, Read, Answer, Bury, Wait, Collect, Download,
       PassOver, MarkCompleted, PollEnd, CallFails, Leave
<1>4. Service'
  <2>1. \A q \in Pdfs : Sent(q)' = Sent(q)
    BY <1>1 DEF Sent
  <2> QED
    BY <1>1, <1>2, <2>1 DEF RInv, Service
<1>5. Papers' /\ Desk'
  BY <1>1, <1>3 DEF RInv, Papers, Desk
<1>6. Polls'
  <2>1. PICK r : poll' = [poll EXCEPT ![k] = r] /\ Proper(r)
    BY PollRecord
  <2>2. \A q : Proper(q) => q \in PollRecs /\ q.todo \subseteq {p \in Pdfs : receipt'[p].sub # 0}
    BY <1>3 DEF Proper
  <2>3. ASSUME NEW l \in Pollers PROVE Proper(poll[l])' /\ poll'[l] \in PollRecs
    <3>1. Proper(poll'[l])
      BY <2>1 DEF RInv, Polls
    <3> QED
      BY <1>1, <2>2, <3>1 DEF Proper
  <2>4. poll' \in [Pollers -> PollRecs]
    BY <2>1, <2>2 DEF RInv, Polls
  <2> QED
    BY <2>3, <2>4 DEF Polls
<1> QED
  BY <1>4, <1>5, <1>6, PollFiles DEF RInv

LEMMA DeskStep ==
  ASSUME RInv, \/ \E s \in DOMAIN subs : FetchPlan(s)
               \/ FetchDownload \/ FetchEnd
               \/ \E f \in DocNames : PlaceFile(f)
  PROVE  RInv'
<1>1. UNCHANGED <<client, subs, receipt, sender, poll, inbox, announced, lost, spoiled, crashes>>
  BY DEF FetchPlan, FetchDownload, FetchEnd, PlaceFile, told
<1>2. Service'
  <2>1. \A q \in Pdfs : Sent(q)' = Sent(q)
    BY <1>1 DEF Sent
  <2> QED
    BY <1>1, <2>1 DEF RInv, Service
<1>3. Papers' /\ Boxes'
  BY <1>1 DEF RInv, Papers, Boxes
<1>4. Polls'
  BY <1>1, PollsKept DEF RInv
<1>5. Desk'
  <2>1. folder \in [DocNames -> {"none", "other", "signed"}] /\ fetch.pc \in {"idle", "fetch"}
    BY DEF RInv, Desk
  <2>2. ASSUME NEW s \in DOMAIN subs, FetchPlan(s)
        PROVE  Desk'
    BY <2>1, <2>2 DEF FetchPlan, Desk
  <2>3. CASE FetchDownload
    <3>1. fetch'.pc = fetch.pc
      BY <2>3 DEF FetchDownload
    <3> QED
      BY <2>1, <2>3, <3>1 DEF FetchDownload, Desk
  <2>4. CASE FetchEnd
    BY <2>4 DEF FetchEnd, IdleFetch, Empty, Desk
  <2>5. ASSUME NEW f \in DocNames, PlaceFile(f)
        PROVE  Desk'
    BY <2>1, <2>5 DEF PlaceFile, Desk
  <2> QED
    BY <2>2, <2>3, <2>4, <2>5
<1> QED
  BY <1>2, <1>3, <1>4, <1>5 DEF RInv

LEMMA RecordsStep == RInv /\ [RemoteNext]_remoteVars => RInv'
<1> SUFFICES ASSUME RInv, [RemoteNext]_remoteVars PROVE RInv'
  OBVIOUS
<1>1. CASE UNCHANGED remoteVars
  <2>1. Service'
    <3>1. \A q \in Pdfs : Sent(q)' = Sent(q)
      BY <1>1 DEF Sent, remoteVars
    <3> QED
      BY <1>1, <3>1 DEF RInv, Service, remoteVars
  <2>2. Papers' /\ Boxes' /\ Desk'
    BY <1>1 DEF RInv, Papers, Boxes, Desk, remoteVars, told
  <2>3. Polls'
    BY <1>1, PollsKept DEF RInv, remoteVars
  <2> QED
    BY <2>1, <2>2, <2>3 DEF RInv
<1> QED
  BY <1>1, ServiceRecords, CreateRecords, ReceiptRecords, PollRecordsStep, DeskStep DEF RemoteNext

\* The records keep their shape, and a poll holds a receipt of its walk, whole
\* and unsettled: with any number of polls, sends and fetches side by side.
THEOREM RemoteTypeCorrect == RemoteSpec => []RemoteTypeOK
  BY RecordsStep, InitRecords, RecordsHaveTypes, PTL DEF RemoteSpec

-----------------------------------------------------------------------------
-----------------------------------------------------------------------------
\* The document was put into the inbox, and its NEW line was given.
Here(s, i) == Landed(s, i) /\ <<s, subs[s].docs[i]>> \in Given

\* What a receipt says is true.
Honest(r) ==
  /\ r.terminal => r.sub \in DOMAIN subs /\ subs[r.sub].status = "dead"
  /\ r.completed => /\ r.sub \in DOMAIN subs /\ subs[r.sub].status = "complete"
                    /\ \A i \in subs[r.sub].urls : Here(r.sub, i)

\* How far a poll has come with the receipt that it holds.
Walked(r) ==
  /\ r.pc = "fetch" => /\ subs[r.held.sub].status = "complete"
                       /\ \A i \in subs[r.held.sub].urls : i < r.next => Here(r.held.sub, i)
  /\ r.pc = "save" => Honest(r.held)

SInv == RInv /\ (\A p \in Pdfs : Honest(receipt[p])) /\ (\A k \in Pollers : Walked(poll[k]))

\* What is settled at the service stays so, and no NEW line is taken back.
Grows ==
  /\ \A s \in DOMAIN subs :
       s \in DOMAIN subs' /\ (subs[s].status # "pending" => subs'[s] = subs[s])
  /\ Given \subseteq Given'

\* No file of the submission is torn, or the tear is put down to a kill.
Safe(s) == \A i \in subs[s].urls : Landed(s, i) => Landed(s, i)'

LEMMA HonestStays ==
  ASSUME Grows, NEW r, Honest(r), r.completed => Safe(r.sub)
  PROVE  Honest(r)'
<1>1. CASE r.completed
  <2>1. r.sub \in DOMAIN subs /\ subs[r.sub].status = "complete" /\ \A i \in subs[r.sub].urls : Here(r.sub, i)
    BY <1>1 DEF Honest
  <2>2. r.sub \in DOMAIN subs' /\ subs'[r.sub] = subs[r.sub] /\ Given \subseteq Given'
    BY <2>1 DEF Grows
  <2>3. \A i \in subs[r.sub].urls : Here(r.sub, i)'
    BY <1>1, <2>1, <2>2 DEF Here, Safe
  <2>4. ~r.terminal
    BY <2>1 DEF Honest
  <2> QED
    BY <2>1, <2>2, <2>3, <2>4 DEF Honest
<1>2. CASE ~r.completed
  BY <1>2 DEF Honest, Grows
<1> QED
  BY <1>1, <1>2

\* A poll that does nothing comes no less far.
LEMMA WalkedStays ==
  ASSUME Grows, NEW r, Proper(r), Walked(r),
         r.pc = "fetch" \/ (r.pc = "save" /\ r.held.completed) => Safe(r.held.sub)
  PROVE  Walked(r)'
<1>1. CASE r.pc = "fetch"
  <2>1. r.held.sub \in DOMAIN subs /\ subs[r.held.sub].status = "complete"
    BY <1>1 DEF Proper, Walked
  <2>2. subs'[r.held.sub] = subs[r.held.sub] /\ Given \subseteq Given'
    BY <2>1 DEF Grows
  <2>3. \A i \in subs[r.held.sub].urls : i < r.next => Here(r.held.sub, i)'
    BY <1>1, <2>2 DEF Walked, Here, Safe
  <2> QED
    BY <1>1, <2>1, <2>2, <2>3 DEF Walked
<1>2. CASE r.pc = "save"
  <2>1. Honest(r.held)'
    BY <1>2, HonestStays DEF Walked
  <2> QED
    BY <1>2, <2>1 DEF Walked
<1> QED
  BY <1>1, <1>2 DEF Walked

\* Nothing of the polls and the inbox changes: what was given, and is there, stays.
LEMMA NothingTaken ==
  ASSUME RInv, UNCHANGED <<poll, inbox, announced, lost, spoiled>>,
         \A s \in DOMAIN subs : s \in DOMAIN subs' /\ subs'[s].docs = subs[s].docs
                                /\ (subs[s].status # "pending" => subs'[s] = subs[s])
  PROVE  Grows /\ \A s \in DOMAIN subs : Safe(s)
<1>1. Given' = Given
  BY DEF Given
<1> QED
  BY <1>1 DEF Grows, Safe, Landed

\* The service, a send and a fetch write no inbox, and settle no receipt.
LEMMA OthersStep ==
  ASSUME SInv, RInv', UNCHANGED <<poll, inbox, announced, lost, spoiled>>,
         \A s \in DOMAIN subs : s \in DOMAIN subs' /\ subs'[s].docs = subs[s].docs
                                /\ (subs[s].status # "pending" => subs'[s] = subs[s]),
         \A p \in Pdfs : receipt'[p] = receipt[p] \/ (~receipt'[p].completed /\ ~receipt'[p].terminal)
  PROVE  SInv'
<1>1. Grows /\ \A s \in DOMAIN subs : Safe(s)
  BY NothingTaken DEF SInv
<1>2. ASSUME NEW p \in Pdfs PROVE Honest(receipt[p])'
  <2>1. CASE receipt'[p] = receipt[p]
    <3> DEFINE r == receipt[p]
    <3>1. Honest(r) /\ (r.completed => Safe(r.sub))
      BY <1>1 DEF SInv, Honest
    <3>2. PICK q : q = r
      OBVIOUS
    <3>3. Honest(q)'
      BY <1>1, <3>1, <3>2, HonestStays
    <3> QED
      BY <2>1, <3>2, <3>3 DEF Honest
  <2>2. CASE ~receipt'[p].completed /\ ~receipt'[p].terminal
    BY <2>2 DEF Honest
  <2> QED
    BY <2>1, <2>2
<1>3. ASSUME NEW k \in Pollers PROVE Walked(poll[k])'
  <2>1. Walked(poll[k]) /\ Proper(poll[k])
    BY DEF SInv, RInv, Polls
  <2>2. PICK q : q = poll[k]
    OBVIOUS
  <2>3. q.pc = "fetch" \/ q.pc = "save" => q.held.sub \in DOMAIN subs
    BY <2>1, <2>2 DEF Proper
  <2>4. Walked(q)'
    BY <1>1, <2>1, <2>2, <2>3, WalkedStays
  <2> QED
    BY <2>2, <2>4 DEF Walked, Honest
<1> QED
  BY <1>2, <1>3 DEF SInv

\* The lines a poll has printed stay in its buffer until they are flushed or lost.
LEMMA PollGrows ==
  ASSUME RInv, NEW k \in Pollers, Poll(k)
  PROVE  Grows /\ subs' = subs /\ poll' = [poll EXCEPT ![k] = poll'[k]]
<1>1. subs' = subs /\ \E r : poll' = [poll EXCEPT ![k] = r]
  BY PollRecord DEF Poll, PollStart, Skip, Read, Answer, Bury, Wait, Collect, Download, PassOver,
     MarkCompleted, SaveReceipt, PollEnd, CallFails, Leave, KillPoll
<1>2. poll \in [Pollers -> PollRecs] /\ poll[k] \in PollRecs /\ (poll[k].pc = "idle" => poll[k].out = {})
  BY DEF RInv, Polls, Proper
<1>3. announced \cup lost \cup poll[k].out \subseteq announced' \cup lost' \cup poll'[k].out
  <2>1. CASE PollStart(k)
    BY <1>2, <2>1 DEF PollStart, told
  <2>2. CASE PollEnd(k) \/ CallFails(k)
    BY <2>2 DEF PollEnd, CallFails, Leave
  <2>3. CASE KillPoll(k)
    BY <2>3 DEF KillPoll
  <2>4. CASE SaveReceipt(k)
    <3> DEFINE r == [IdlePoll EXCEPT !.pc = "walk", !.todo = poll[k].todo \ {poll[k].pdf},
                                     !.out = poll[k].out]
    <3>1. poll' = [poll EXCEPT ![k] = r] /\ UNCHANGED <<announced, lost>>
      BY <2>4 DEF SaveReceipt, told
    <3>2. r.out = poll[k].out
      BY DEF IdlePoll
    <3> HIDE DEF r
    <3> QED
      BY <1>2, <3>1, <3>2
  <2>5. CASE Download(k)
    <3> DEFINE doc == <<poll[k].held.sub, DocsOf(k)[poll[k].next]>>
               r == [poll[k] EXCEPT !.next = poll[k].next + 1, !.out = poll[k].out \cup {doc}]
    <3>1. poll' = [poll EXCEPT ![k] = r] /\ UNCHANGED <<announced, lost>>
      BY <2>5 DEF Download, told
    <3>2. r.out = poll[k].out \cup {doc}
      BY <1>2 DEF PollRecs
    <3> HIDE DEF r
    <3> QED
      BY <1>2, <3>1, <3>2
  <2>6. CASE Skip(k) \/ Read(k) \/ Answer(k) \/ PassOver(k) \/ MarkCompleted(k)
    <3>1. UNCHANGED <<announced, lost>>
      BY <2>6 DEF Skip, Read, Answer, Bury, Wait, Collect, PassOver, MarkCompleted, told
    <3>2. poll'[k].out = poll[k].out
      BY <1>2, <2>6 DEF Skip, Read, Answer, Bury, Wait, Collect, PassOver, MarkCompleted, PollRecs
    <3> QED
      BY <3>1, <3>2
  <2> QED
    BY <2>1, <2>2, <2>3, <2>4, <2>5, <2>6 DEF Poll
<1>4. Given \subseteq Given'
  <2> SUFFICES ASSUME NEW d \in Given PROVE d \in Given'
    OBVIOUS
  <2>1. CASE d \in announced \cup lost \cup poll[k].out
    BY <1>3, <2>1 DEF Given
  <2>2. ASSUME NEW l \in Pollers, l # k, d \in poll[l].out
        PROVE  d \in Given'
    <3>1. poll'[l] = poll[l]
      BY <1>1, <1>2, <2>2
    <3> QED
      BY <2>2, <3>1 DEF Given
  <2> QED
    BY <2>1, <2>2 DEF Given
<1> QED
  BY <1>1, <1>2, <1>4 DEF Grows

\* A step of one poll, by what it leaves whole and what it writes.
LEMMA PollKeeps ==
  ASSUME SInv, RInv', NEW k \in Pollers, Poll(k),
         \A p \in Pdfs : receipt[p].completed => Safe(receipt[p].sub),
         \A l \in Pollers : l # k /\ poll[l].pc \in {"fetch", "save"} => Safe(poll[l].held.sub),
         Walked(poll[k])',
         \A p \in Pdfs : receipt'[p] # receipt[p] => Honest(receipt[p])'
  PROVE  SInv'
<1>1. Grows /\ subs' = subs /\ poll' = [poll EXCEPT ![k] = poll'[k]] /\ poll \in [Pollers -> PollRecs]
  BY PollGrows DEF SInv, RInv, Polls
<1>2. ASSUME NEW p \in Pdfs PROVE Honest(receipt[p])'
  <2>1. CASE receipt'[p] = receipt[p]
    <3>1. PICK q : q = receipt[p]
      OBVIOUS
    <3>2. Honest(q)'
      BY <1>1, <3>1, HonestStays DEF SInv
    <3> QED
      BY <2>1, <3>1, <3>2 DEF Honest
  <2> QED
    BY <2>1
<1>3. ASSUME NEW l \in Pollers, l # k PROVE Walked(poll[l])'
  <2>1. PICK q : q = poll[l]
    OBVIOUS
  <2>2. Walked(q) /\ Proper(q)
    BY <2>1 DEF SInv, RInv, Polls
  <2>3. Walked(q)'
    BY <1>1, <1>3, <2>1, <2>2, WalkedStays
  <2>4. poll'[l] = q
    BY <1>1, <1>3, <2>1
  <2> QED
    BY <2>3, <2>4 DEF Walked, Honest
<1> QED
  BY <1>2, <1>3 DEF SInv

\* A file is put into the inbox: no other is touched.
LEMMA PutKeeps ==
  ASSUME NEW s, NEW name, NEW j, inbox' = Put(s, name, j), subs' = subs, spoiled \subseteq spoiled'
  PROVE  \A t, i : Landed(t, i) /\ <<t, subs[t].docs[i]>> # <<s, name>> => Landed(t, i)'
<1>1. \A t, n, i : <<t, n, i>> \in inbox /\ <<t, n>> # <<s, name>> => <<t, n, i>> \in inbox'
  BY DEF Put
<1> QED
  BY <1>1 DEF Landed

LEMMA DownloadStep ==
  ASSUME SInv, RInv', NEW k \in Pollers, Download(k)
  PROVE  SInv'
<1> SUFFICES ASSUME NEW s, s = poll[k].held.sub, NEW n, n = poll[k].next PROVE SInv'
  OBVIOUS
<1>1. /\ UNCHANGED <<subs, receipt, spoiled>> /\ poll[k].pc = "fetch" /\ n \in subs[s].urls
      /\ inbox' = Put(s, subs[s].docs[n], n)
      /\ poll' = [poll EXCEPT ![k] = [poll[k] EXCEPT !.next = n + 1,
                                      !.out = poll[k].out \cup {<<s, subs[s].docs[n]>>}]]
  BY DEF Download, DocsOf, told
<1>2. /\ n \in DOMAIN subs[s].docs /\ n \in Nat /\ poll[k] \in PollRecs /\ poll \in [Pollers -> PollRecs]
      /\ subs[s].urls \subseteq Nat
  <2>1. /\ poll \in [Pollers -> PollRecs] /\ subs \in Seq(SubRecs) /\ s \in DOMAIN subs
        /\ n \in DOMAIN subs[s].docs
    BY <1>1, NextDocument DEF SInv, RInv, Polls, Service
  <2>2. poll[k] \in PollRecs /\ subs[s] \in SubRecs
    BY <2>1
  <2> QED
    BY <2>1, <2>2 DEF PollRecs, SubRecs
<1>3. \A t, i : Landed(t, i) => Landed(t, i)'
  <2>1. \A t, i : Landed(t, i) /\ <<t, subs[t].docs[i]>> # <<s, subs[s].docs[n]>> => Landed(t, i)'
    BY <1>1, PutKeeps
  <2>2. \A t, i : <<t, subs[t].docs[i]>> = <<s, subs[s].docs[n]>> => Landed(t, i)'
    <3>1. <<s, subs[s].docs[n], n>> \in inbox'
      BY <1>1 DEF Put
    <3> QED
      BY <1>1, <1>2, <3>1 DEF Landed
  <2> QED
    BY <2>1, <2>2
<1>4. \A t : Safe(t)
  BY <1>3 DEF Safe
<1>5. Walked(poll[k])'
  <2>1. /\ poll'[k].pc = "fetch" /\ poll'[k].held.sub = s /\ poll'[k].next = n + 1
        /\ <<s, subs[s].docs[n]>> \in poll'[k].out
    BY <1>1, <1>2 DEF PollRecs
  <2>2. Grows /\ Walked(poll[k])
    BY PollGrows DEF SInv, Poll
  <2>3. ASSUME NEW i \in subs[s].urls, i < n + 1 PROVE Here(s, i)'
    <3>1. CASE i < n
      BY <1>1, <1>3, <2>2, <3>1 DEF Walked, Here, Grows
    <3>2. CASE i = n
      <4>1. Landed(s, n)'
        BY <1>1, <1>2 DEF Landed, Put
      <4> QED
        BY <1>1, <2>1, <3>2, <4>1 DEF Here, Given
    <3> QED
      BY <1>2, <2>3, <3>1, <3>2
  <2>4. subs[s].status = "complete"
    BY <1>1, <2>2 DEF Walked
  <2> QED
    BY <1>1, <2>1, <2>3, <2>4 DEF Walked
<1>6. Poll(k)
  BY DEF Poll
<1> QED
  BY <1>1, <1>4, <1>5, <1>6, PollKeeps

\* A poll that goes on, and writes at most its receipt.
LEMMA WalkStep ==
  ASSUME SInv, RInv', NEW k \in Pollers,
         \/ PollStart(k) \/ Skip(k) \/ Read(k) \/ Answer(k) \/ PassOver(k) \/ MarkCompleted(k)
         \/ SaveReceipt(k) \/ PollEnd(k) \/ CallFails(k)
  PROVE  SInv'
<1>1. UNCHANGED <<subs, inbox, spoiled>> /\ Poll(k)
  BY DEF PollStart, Skip, Read, Answer, Bury, Wait, Collect, PassOver, MarkCompleted, SaveReceipt,
     PollEnd, CallFails, Leave, told, Poll
<1>2. \A t : Safe(t)
  BY <1>1 DEF Safe, Landed
<1>3. Grows
  BY <1>1, PollGrows DEF SInv
<1>4. /\ poll \in [Pollers -> PollRecs] /\ poll[k] \in PollRecs /\ poll[k].held \in Receipts
      /\ Walked(poll[k]) /\ Proper(poll[k])
  BY DEF SInv, RInv, Polls, PollRecs
<1>5. \A t, i : Here(t, i) => Here(t, i)'
  BY <1>1, <1>3 DEF Here, Landed, Grows
<1>6. Walked(poll[k])'
  <2>1. CASE PollStart(k) \/ Skip(k) \/ Read(k) \/ PollEnd(k) \/ CallFails(k)
    <3>1. poll'[k].pc \in {"idle", "walk", "ask"}
      <4>1. PollStart(k) => poll'[k].pc = "walk"
        BY <1>4 DEF PollStart, IdlePoll
      <4>2. Skip(k) => poll'[k].pc = "walk"
        BY <1>4 DEF Skip, PollRecs
      <4>3. Read(k) => poll'[k].pc = "ask"
        BY <1>4 DEF Read, PollRecs
      <4>4. PollEnd(k) \/ CallFails(k) => poll'[k].pc = "idle"
        BY <1>4 DEF PollEnd, CallFails, Leave, IdlePoll
      <4> QED
        BY <2>1, <4>1, <4>2, <4>3, <4>4
    <3> QED
      BY <3>1 DEF Walked
  <2>2. CASE SaveReceipt(k)
    <3>1. poll'[k].pc = "walk"
      BY <1>4, <2>2 DEF SaveReceipt, IdlePoll
    <3> QED
      BY <3>1 DEF Walked
  <2>3. CASE Bury(k)
    <3>1. /\ poll'[k].pc = "save" /\ poll'[k].held.terminal /\ poll'[k].held.sub = poll[k].held.sub
          /\ poll'[k].held.completed = poll[k].held.completed /\ ~poll[k].held.completed
          /\ subs[poll[k].held.sub].status = "dead" /\ poll[k].held.sub \in DOMAIN subs
      BY <1>4, <2>3 DEF Bury, Status, Proper, PollRecs, Receipts
    <3> QED
      BY <1>1, <3>1 DEF Walked, Honest
  <2>4. CASE Wait(k)
    <3>1. /\ poll'[k].pc = "save" /\ poll'[k].held = poll[k].held
          /\ ~poll[k].held.completed /\ ~poll[k].held.terminal
      BY <1>4, <2>4 DEF Wait, Proper, PollRecs
    <3> QED
      BY <3>1 DEF Walked, Honest
  <2>5. CASE Collect(k)
    <3>1. /\ poll'[k].pc = "fetch" /\ poll'[k].held = poll[k].held /\ poll'[k].next = 1
          /\ subs[poll[k].held.sub].status = "complete" /\ poll[k].held.sub \in DOMAIN subs
      BY <1>4, <2>5 DEF Collect, Status, Proper, PollRecs
    <3>2. /\ subs[poll[k].held.sub].urls \subseteq DOMAIN subs[poll[k].held.sub].docs
          /\ subs[poll[k].held.sub] \in SubRecs
      BY <3>1 DEF SInv, RInv, Service
    <3>3. \A i \in subs[poll[k].held.sub].urls : ~(i < 1)
      BY <3>2 DEF SubRecs
    <3> QED
      BY <1>1, <3>1, <3>3 DEF Walked
  <2>6. CASE PassOver(k)
    <3>1. /\ poll'[k].pc = "fetch" /\ poll'[k].held = poll[k].held /\ poll'[k].next = poll[k].next + 1
          /\ poll[k].pc = "fetch" /\ poll[k].next \notin subs[poll[k].held.sub].urls
          /\ poll[k].held.sub \in DOMAIN subs /\ poll[k].next \in Nat
      BY <1>4, <2>6 DEF PassOver, Proper, PollRecs
    <3>2. subs[poll[k].held.sub] \in SubRecs
      BY <3>1 DEF SInv, RInv, Service
    <3>3. \A i \in subs[poll[k].held.sub].urls : i < poll[k].next + 1 => i < poll[k].next
      BY <3>1, <3>2 DEF SubRecs
    <3> QED
      BY <1>1, <1>4, <1>5, <3>1, <3>3 DEF Walked
  <2>7. CASE MarkCompleted(k)
    <3>1. /\ poll'[k].pc = "save" /\ poll'[k].held.completed /\ poll'[k].held.sub = poll[k].held.sub
          /\ poll'[k].held.terminal = poll[k].held.terminal /\ ~poll[k].held.terminal
          /\ poll[k].held.sub \in DOMAIN subs /\ poll[k].next \in Nat
          /\ poll[k].pc = "fetch" /\ poll[k].next > Len(DocsOf(k))
      BY <1>4, <2>7 DEF MarkCompleted, Collected, Proper, PollRecs, Receipts
    <3>2. \A i \in subs[poll[k].held.sub].urls : i < poll[k].next
      <4>1. /\ subs[poll[k].held.sub].urls \subseteq DOMAIN subs[poll[k].held.sub].docs
            /\ subs[poll[k].held.sub] \in SubRecs
        BY <3>1 DEF SInv, RInv, Service
      <4>2. subs[poll[k].held.sub].docs \in Seq(DocNames)
        BY <4>1 DEF SubRecs
      <4> QED
        BY <3>1, <4>1, <4>2 DEF DocsOf
    <3> QED
      BY <1>1, <1>4, <1>5, <3>1, <3>2 DEF Walked, Honest
  <2> QED
    BY <2>1, <2>2, <2>3, <2>4, <2>5, <2>6, <2>7 DEF Answer
<1>7. ASSUME NEW p \in Pdfs, receipt'[p] # receipt[p] PROVE Honest(receipt[p])'
  <2>1. SaveReceipt(k)
    BY <1>7 DEF PollStart, Skip, Read, Answer, Bury, Wait, Collect, PassOver, MarkCompleted,
       PollEnd, CallFails, Leave
  <2>2. poll[k].pc = "save" /\ receipt'[p] = poll[k].held
    BY <1>7, <2>1 DEF SaveReceipt, SInv, RInv, Papers
  <2>3. PICK r : r = poll[k].held
    OBVIOUS
  <2>4. Honest(r)'
    BY <1>2, <1>3, <1>4, <2>2, <2>3, HonestStays DEF Walked
  <2> QED
    BY <2>2, <2>3, <2>4 DEF Honest
<1> QED
  BY <1>1, <1>2, <1>6, <1>7, PollKeeps

\* A kill tears the receipt that was being written, or a file of the inbox.
LEMMA KillStep ==
  ASSUME SInv, RInv', NEW k \in Pollers, KillPoll(k)
  PROVE  SInv'
<1> SUFFICES ASSUME NEW s, s = poll[k].held.sub PROVE SInv'
  OBVIOUS
<1>1. subs' = subs /\ Poll(k) /\ poll' = [poll EXCEPT ![k] = IdlePoll] /\ spoiled \subseteq spoiled'
  BY DEF KillPoll, Poll
<1>2. poll \in [Pollers -> PollRecs] /\ poll[k].held \in Receipts /\ Walked(poll[k])
  BY DEF SInv, RInv, Polls, PollRecs
<1>3. Walked(poll[k])'
  BY <1>1, <1>2 DEF Walked, IdlePoll
<1>4. ASSUME NEW t, t # s \/ CountedOn(k, s) PROVE Safe(t)
  <2>1. CASE UNCHANGED inbox
    BY <1>1, <2>1 DEF Safe, Landed
  <2>2. CASE ~UNCHANGED inbox
    <3>1. PICK name : /\ inbox' = Put(s, name, 0)
                      /\ spoiled' = IF CountedOn(k, s) THEN spoiled \cup {<<s, name>>} ELSE spoiled
      BY <2>2 DEF KillPoll
    <3>2. \A i : Landed(t, i) /\ <<t, subs[t].docs[i]>> # <<s, name>> => Landed(t, i)'
      BY <1>1, <3>1, PutKeeps
    <3>3. \A i : <<t, subs[t].docs[i]>> = <<s, name>> => Landed(t, i)'
      BY <1>1, <1>4, <3>1 DEF Landed
    <3> QED
      BY <3>2, <3>3 DEF Safe
  <2> QED
    BY <2>1, <2>2
<1>5. ASSUME NEW p \in Pdfs, receipt[p].completed PROVE Safe(receipt[p].sub)
  BY <1>4, <1>5 DEF CountedOn
<1>6. ASSUME NEW l \in Pollers, l # k, poll[l].pc \in {"fetch", "save"} PROVE Safe(poll[l].held.sub)
  BY <1>4, <1>6 DEF CountedOn
<1>7. ASSUME NEW p \in Pdfs, receipt'[p] # receipt[p] PROVE Honest(receipt[p])'
  <2> DEFINE r == [poll[k].held EXCEPT !.torn = TRUE]
  <2>1. /\ poll[k].pc = "save" /\ UNCHANGED inbox
        /\ receipt' = [receipt EXCEPT ![poll[k].pdf] = [poll[k].held EXCEPT !.torn = TRUE]]
    BY <1>7 DEF KillPoll
  <2>2. receipt'[p] = r
    BY <1>7, <2>1 DEF SInv, RInv, Papers
  <2>3. r.sub = s /\ r.completed = poll[k].held.completed /\ r.terminal = poll[k].held.terminal
    BY <1>2 DEF Receipts
  <2>4. PICK h : h = poll[k].held
    OBVIOUS
  <2>5. Honest(h)'
    <3>1. Safe(s)
      BY <1>1, <2>1 DEF Safe, Landed
    <3>2. Grows
      BY <1>1, PollGrows DEF SInv
    <3> QED
      BY <1>2, <2>1, <2>4, <3>1, <3>2, HonestStays DEF Walked
  <2> HIDE DEF r
  <2> QED
    BY <2>2, <2>3, <2>4, <2>5 DEF Honest
<1> QED
  BY <1>1, <1>3, <1>5, <1>6, <1>7, PollKeeps

LEMMA InitSettled == RemoteInit => SInv
<1> SUFFICES ASSUME RemoteInit PROVE SInv
  OBVIOUS
<1>1. \A p \in Pdfs : Honest(receipt[p])
  BY DEF RemoteInit, NoReceipt, Honest
<1>2. \A k \in Pollers : Walked(poll[k])
  BY DEF RemoteInit, IdlePoll, Walked
<1> QED
  BY <1>1, <1>2, InitRecords DEF SInv

LEMMA SettledStep == SInv /\ RInv' /\ [RemoteNext]_remoteVars => SInv'
<1> SUFFICES ASSUME SInv, RInv', [RemoteNext]_remoteVars PROVE SInv'
  OBVIOUS
<1>1. ASSUME NEW k \in Pollers, Poll(k)
      PROVE  SInv'
  BY <1>1, WalkStep, DownloadStep, KillStep DEF Poll
<1>2. ASSUME NEW s \in DOMAIN subs, Complete(s) \/ Die(s)
      PROVE  SInv'
  <2>1. UNCHANGED <<receipt, poll, inbox, announced, lost, spoiled>>
    BY <1>2 DEF Complete, Die, told
  <2>2. subs \in Seq(SubRecs) /\ subs[s] \in SubRecs
    BY DEF SInv, RInv, Service
  <2>3. subs[s].status = "pending"
    BY <1>2 DEF Complete, Die
  <2>4. PICK r : subs' = [subs EXCEPT ![s] = r] /\ r.docs = subs[s].docs
    <3>1. CASE Die(s)
      <4> DEFINE r == [subs[s] EXCEPT !.status = "dead"]
      <4>1. subs' = [subs EXCEPT ![s] = r]
        BY <3>1 DEF Die
      <4>2. r.docs = subs[s].docs
        BY <2>2 DEF SubRecs
      <4> HIDE DEF r
      <4> QED
        BY <4>1, <4>2
    <3>2. CASE Complete(s)
      <4>1. PICK urls : subs' = [subs EXCEPT ![s] = [subs[s] EXCEPT !.status = "complete", !.urls = urls]]
        BY <3>2 DEF Complete
      <4> DEFINE r == [subs[s] EXCEPT !.status = "complete", !.urls = urls]
      <4>2. subs' = [subs EXCEPT ![s] = r]
        BY <4>1
      <4>3. r.docs = subs[s].docs
        BY <2>2 DEF SubRecs
      <4> HIDE DEF r
      <4> QED
        BY <4>2, <4>3
    <3> QED
      BY <1>2, <3>1, <3>2
  <2> QED
    BY <2>1, <2>2, <2>3, <2>4, OthersStep
<1>3. ASSUME NEW p \in Pdfs, Create(p)
      PROVE  SInv'
  <2>1. UNCHANGED <<receipt, poll, inbox, announced, lost, spoiled>>
    BY <1>3 DEF Create, told
  <2>2. \A s \in DOMAIN subs : s \in DOMAIN subs' /\ subs'[s] = subs[s]
    <3>1. subs \in Seq(SubRecs) /\ \E r : subs' = Append(subs, r)
      BY <1>3 DEF SInv, RInv, Service, Create
    <3>2. PICK r : subs' = Append(subs, r)
      BY <3>1
    <3> QED
      BY <3>1, <3>2
  <2> QED
    BY <2>1, <2>2, OthersStep
<1>4. CASE WriteReceipt \/ KillSend
  <2>1. UNCHANGED <<subs, poll, inbox, announced, lost, spoiled>>
    BY <1>4 DEF WriteReceipt, KillSend, told
  <2>2. \A p \in Pdfs : receipt'[p] = receipt[p] \/ (~receipt'[p].completed /\ ~receipt'[p].terminal)
    <3>1. receipt \in [Pdfs -> Receipts]
      BY DEF SInv, RInv, Papers
    <3>2. \/ receipt' = receipt
          \/ \E torn \in BOOLEAN : receipt' = [receipt EXCEPT ![sender.pdf] =
               [sub |-> sender.sub, completed |-> FALSE, terminal |-> FALSE, torn |-> torn]]
      BY <1>4, Zenon DEF WriteReceipt, KillSend, NoReceipt
    <3>3. \A r : ~r.completed /\ ~r.terminal /\ receipt' = [receipt EXCEPT ![sender.pdf] = r] =>
            \A p \in Pdfs : receipt'[p] = receipt[p] \/ (~receipt'[p].completed /\ ~receipt'[p].terminal)
      BY <3>1
    <3>4. \A torn : LET r == [sub |-> sender.sub, completed |-> FALSE, terminal |-> FALSE, torn |-> torn]
                    IN  ~r.completed /\ ~r.terminal
      OBVIOUS
    <3> QED
      BY <3>2, <3>3, <3>4
  <2> QED
    BY <2>1, <2>2, OthersStep
<1>5. ASSUME UNCHANGED <<subs, receipt, poll, inbox, told>>
      PROVE  SInv'
  BY <1>5, OthersStep DEF told
<1>6. ASSUME NEW s \in DOMAIN subs, FetchPlan(s)
      PROVE  SInv'
  BY <1>5, <1>6 DEF FetchPlan
<1>7. ASSUME NEW f \in DocNames, PlaceFile(f)
      PROVE  SInv'
  BY <1>5, <1>7 DEF PlaceFile
<1>8. CASE FetchDownload \/ FetchEnd \/ UNCHANGED remoteVars
  BY <1>5, <1>8 DEF FetchDownload, FetchEnd, remoteVars
<1> QED
  BY <1>1, <1>2, <1>3, <1>4, <1>6, <1>7, <1>8 DEF RemoteNext

\* A settled receipt is never polled again, and it is true: of a completed one
\* every document that came back is in the inbox, whole, or was spoiled by a kill
\* when another poll or a receipt already counted on it, and its NEW line has
\* reached triage, waits in a poll's buffer, or was lost with a kill; a terminal
\* one is of a dead ceremony.  Whatever calls fail, whenever a run is killed, and
\* however many polls, sends and fetches run side by side.
THEOREM SettledReceiptsAreTrue == RemoteSpec => []SettledIsTrue
<1>1. SInv => SettledIsTrue
  BY DEF SInv, Honest, Here, SettledIsTrue, Returned
<1>2. SInv /\ [RemoteNext]_remoteVars => SInv'
  BY RecordsStep, SettledStep DEF SInv
<1> QED
  BY <1>1, <1>2, InitSettled, PTL DEF RemoteSpec

-----------------------------------------------------------------------------
(* LocalSign.                                                              *)

IsFile(f) ==
  /\ f = [doc |-> f.doc, drawn |-> f.drawn, stamps |-> f.stamps]
  /\ f.stamps \in Seq(Nat)

IsRecord(r) ==
  r = [retained |-> r.retained, statement |-> r.statement,
       signature |-> r.signature, meta |-> r.meta]

Shapes ==
  /\ runs \in Nat /\ kills \in Nat
  /\ files = [p \in Paths |-> files[p]] /\ \A p \in Paths : IsFile(files[p])
  /\ records = [e \in Events |-> records[e]] /\ \A e \in Events : IsRecord(records[e])
  /\ run = [pc |-> run.pc, made |-> run.made, out |-> run.out, event |-> run.event]
  /\ IsFile(run.made) /\ stray \subseteq Paths
  /\ run.pc \in {"idle", "save", "print", "retain", "statement", "clearsign", "meta"}
  /\ run.pc # "idle" => run.out \in Paths /\ run.event \in Events /\ run.event[2] = runs

Bears(f, n) == f.stamps # << >> /\ Last(f.stamps) = n

\* What a run in progress has put into its event directory.
Progress ==
  LET r == records[run.event] IN
  /\ run.pc # "idle" => r.meta = NoFile
  /\ run.pc = "save" => Bears(run.made, runs)
  /\ run.pc \in {"print", "retain"} => files[run.out] = NoFile \/ Bears(files[run.out], runs)
  /\ run.pc \in {"statement", "clearsign", "meta"} =>
       Bears(r.retained, runs) /\ (files[run.out] = NoFile \/ files[run.out] = r.retained)
  /\ run.pc \in {"clearsign", "meta"} => r.statement = r.retained
  /\ run.pc = "meta" => r.signature = r.retained

Ahead == \A e \in Events : e[2] > runs => records[e] = NoRecord

Attested(p) == \E e \in Events : records[e].meta # NoFile /\ records[e].retained = files[p]

\* The artifact that the run has saved.
Saved(p) == run.pc \notin {"idle", "save"} /\ p = run.out

Kept ==
  \A p \in Paths : files[p].stamps # << >> => Attested(p) \/ Saved(p) \/ p \in stray

IInv == Shapes /\ Progress /\ Ahead /\ AttestedWhole /\ Kept

LEMMA InitInv == Init => IInv
<1> SUFFICES ASSUME Init PROVE IInv
  OBVIOUS
<1>1. \A d : IsFile(Built(d)) /\ Built(d).stamps = << >>
  BY DEF IsFile, Built
<1>2. IsFile(NoFile) /\ NoFile.stamps = << >>
  BY DEF IsFile, NoFile
<1>3. \A p \in Paths : IsFile(files[p]) /\ files[p].stamps = << >>
  BY <1>1, <1>2 DEF Init
<1>4. \A e \in Events : records[e] = NoRecord
  BY DEF Init
<1>5. IsRecord(NoRecord) /\ NoRecord.meta = NoFile
  BY DEF IsRecord, NoRecord
<1>6. Shapes
  BY <1>2, <1>3, <1>4, <1>5 DEF Init, Shapes, Idle
<1>7. run.pc = "idle"
  BY DEF Init, Idle
<1>. QED
  BY <1>3, <1>4, <1>5, <1>6, <1>7 DEF IInv, Progress, Ahead, AttestedWhole, Kept

LEMMA EmptyIs == IsFile(NoFile) /\ NoFile.stamps = << >> /\ Idle.made = NoFile /\ Idle.pc = "idle"
  BY DEF NoFile, IsFile, Idle

\* What Apply makes of a file.
LEMMA SignedFile ==
  ASSUME NEW f, IsFile(f), NEW marks, NEW n \in Nat
  PROVE  LET g == [doc |-> f.doc, drawn |-> f.drawn \cup marks, stamps |-> Append(f.stamps, n)]
         IN  IsFile(g) /\ Bears(g, n)
<1> DEFINE s == Append(f.stamps, n)
<1>1. s \in Seq(Nat) /\ s # << >> /\ s[Len(s)] = n
  BY DEF IsFile
<1> HIDE DEF s
<1>2. IsFile([doc |-> f.doc, drawn |-> f.drawn \cup marks, stamps |-> s])
  BY <1>1 DEF IsFile
<1>3. Bears([doc |-> f.doc, drawn |-> f.drawn \cup marks, stamps |-> s], n)
  BY <1>1 DEF Bears, Last
<1>. QED BY <1>2, <1>3 DEF s

LEMMA ApplyInv ==
  ASSUME IInv, NEW in \in Paths, NEW out \in Paths, NEW wanted, Apply(in, out, wanted)
  PROVE  IInv'
<1> DEFINE mine == Mine(Discover(pages[files[in].doc]), wanted)
           new == [doc |-> files[in].doc, drawn |-> files[in].drawn \cup Drawn(mine, wanted),
                   stamps |-> Append(files[in].stamps, runs + 1)]
           ev == Event(out[1], runs + 1)
<1>1. /\ run.pc = "idle" /\ runs < MaxRuns /\ files' = files
      /\ runs' = runs + 1 /\ records' = records /\ kills' = kills /\ stray' = stray
      /\ run' = [pc |-> "save", out |-> out, event |-> ev, made |-> new]
  BY DEF Apply
<1>2. IsFile(new) /\ Bears(new, runs + 1)
  <2>1. IsFile(files[in]) /\ runs + 1 \in Nat
    BY DEF IInv, Shapes
  <2>. QED BY ONLY <2>1, SignedFile
<1> HIDE DEF new, mine
<1>3. ev \in Events /\ ev[2] = runs + 1
  BY <1>1, LocalAssumption DEF Event, Events, Paths, IInv, Shapes
<1> HIDE DEF ev
<1>4. Shapes'
  BY <1>1, <1>2, <1>3 DEF IInv, Shapes
<1>5. records[ev] = NoRecord /\ NoRecord.meta = NoFile
  BY <1>3 DEF IInv, Shapes, Ahead, NoRecord
<1>6. Progress'
  BY <1>1, <1>2, <1>5 DEF Progress, IInv, Shapes
<1>7. Ahead' /\ AttestedWhole'
  <2>1. \A e \in Events : e[2] \in Int
    BY DEF Events
  <2>2. Ahead'
    BY <1>1, <2>1 DEF Ahead, IInv, Shapes
  <2>3. AttestedWhole'
    BY <1>1 DEF AttestedWhole, IInv
  <2>. QED BY <2>2, <2>3
<1>8. Kept'
  BY <1>1 DEF Kept, Attested, Saved, IInv
<1>. QED BY <1>4, <1>6, <1>7, <1>8 DEF IInv

\* The artifact is saved, and the run reports what it left blank.
LEMMA SaveInv == IInv /\ (Save \/ Report) => IInv'
<1> SUFFICES ASSUME IInv, Save \/ Report PROVE IInv'
  OBVIOUS
<1>1. /\ run.pc # "idle" /\ run.out \in Paths /\ run.event \in Events /\ run.event[2] = runs
      /\ records' = records /\ runs' = runs /\ kills' = kills
  BY DEF Save, Report, IInv, Shapes
<1>2. CASE Save
  <2>1. /\ run.pc = "save" /\ files' = [files EXCEPT ![run.out] = run.made]
        /\ run' = [run EXCEPT !.pc = "print"] /\ stray' = stray \ {run.out}
    BY <1>2 DEF Save
  <2>2. /\ run'.pc = "print" /\ run'.out = run.out /\ run'.event = run.event /\ run'.made = run.made
        /\ files'[run.out] = run.made /\ \A p \in Paths : p # run.out => files'[p] = files[p]
    BY <1>1, <2>1 DEF IInv, Shapes
  <2>3. Shapes'
    BY <1>1, <2>1, <2>2 DEF IInv, Shapes
  <2>4. Progress'
    BY <1>1, <2>1, <2>2 DEF IInv, Progress
  <2>5. Kept'
    BY <1>1, <2>1, <2>2 DEF IInv, Kept, Attested, Saved
  <2>. QED BY <1>1, <2>3, <2>4, <2>5 DEF IInv, Ahead, AttestedWhole
<1>3. CASE Report
  <2>1. /\ run.pc = "print" /\ files' = files /\ run' = [run EXCEPT !.pc = "retain"] /\ stray' = stray
    BY <1>3 DEF Report
  <2>2. run'.pc = "retain" /\ run'.out = run.out /\ run'.event = run.event /\ run'.made = run.made
    BY <2>1 DEF IInv, Shapes
  <2>3. Shapes'
    BY <1>1, <2>1, <2>2 DEF IInv, Shapes
  <2>4. Progress'
    BY <1>1, <2>1, <2>2 DEF IInv, Progress
  <2>5. Kept'
    BY <1>1, <2>1, <2>2 DEF IInv, Kept, Attested, Saved
  <2>. QED BY <1>1, <2>3, <2>4, <2>5 DEF IInv, Ahead, AttestedWhole
<1>. QED BY <1>2, <1>3

\* What the steps of audit.write do to the record of the run.
LEMMA RecordStep ==
  ASSUME IInv, run.pc # "idle", NEW r, IsRecord(r),
         records' = [records EXCEPT ![run.event] = r], files' = files,
         runs' = runs, kills' = kills, stray' = stray, run.pc \notin {"idle", "save"},
         run' = [run EXCEPT !.pc = run'.pc], run'.pc \in {"statement", "clearsign", "meta"},
         r.meta = NoFile, Progress'
  PROVE  IInv'
<1>1. run.event \in Events /\ records'[run.event] = r
         /\ \A e \in Events : e # run.event => records'[e] = records[e]
  BY DEF IInv, Shapes
<1>2. run'.out = run.out /\ run'.event = run.event /\ run'.made = run.made
  BY DEF IInv, Shapes
<1>3. Shapes'
  BY <1>1, <1>2 DEF IInv, Shapes
<1>4. Ahead' /\ AttestedWhole'
  BY <1>1 DEF IInv, Shapes, Ahead, AttestedWhole
<1>5. Kept'
  <2>1. \A p \in Paths : Attested(p) => Attested(p)'
    BY <1>1 DEF Attested, IInv, Progress
  <2>. QED BY <2>1, <1>2 DEF Kept, Saved, IInv
<1>. QED BY <1>3, <1>4, <1>5 DEF IInv

LEMMA WriteInv == IInv /\ (Retain \/ WriteStatement \/ Clearsign) => IInv'
<1> SUFFICES ASSUME IInv, Retain \/ WriteStatement \/ Clearsign PROVE IInv'
  OBVIOUS
<1> DEFINE old == records[run.event]
<1>1. run.pc # "idle" /\ run.out \in Paths /\ run.event \in Events /\ IsRecord(old)
        /\ old.meta = NoFile
  BY DEF Retain, WriteStatement, Clearsign, IInv, Shapes, Progress
<1>2. CASE Retain
  <2> DEFINE r == [old EXCEPT !.retained = files[run.out]]
  <2>1. /\ run.pc = "retain" /\ files[run.out] # NoFile
        /\ records' = [records EXCEPT ![run.event] = r]
        /\ run' = [run EXCEPT !.pc = "statement"] /\ files' = files /\ runs' = runs /\ kills' = kills /\ stray' = stray
    BY <1>1, <1>2 DEF Retain, IInv, Shapes
  <2>2. IsRecord(r) /\ r.meta = NoFile /\ r.retained = files[run.out]
    BY <1>1 DEF IsRecord
  <2> HIDE DEF r
  <2>3. run'.pc = "statement" /\ run'.event = run.event /\ run'.out = run.out
    BY <2>1 DEF IInv, Shapes
  <2>4. Progress'
    BY <1>1, <2>1, <2>2, <2>3 DEF Progress, IInv, Shapes
  <2>. QED BY <1>1, <2>1, <2>2, <2>3, <2>4, RecordStep
<1>3. CASE WriteStatement
  <2> DEFINE r == [old EXCEPT !.statement = Digest]
  <2>1. /\ run.pc = "statement"
        /\ records' = [records EXCEPT ![run.event] = r]
        /\ run' = [run EXCEPT !.pc = "clearsign"] /\ files' = files /\ runs' = runs /\ kills' = kills /\ stray' = stray
    BY <1>1, <1>3 DEF WriteStatement, IInv, Shapes
  <2>2. IsRecord(r) /\ r.meta = NoFile /\ r.retained = old.retained /\ r.statement = old.retained
    BY <1>1 DEF IsRecord, Digest
  <2> HIDE DEF r
  <2>3. run'.pc = "clearsign" /\ run'.event = run.event /\ run'.out = run.out
    BY <2>1 DEF IInv, Shapes
  <2>4. Progress'
    BY <1>1, <2>1, <2>2, <2>3 DEF Progress, IInv, Shapes
  <2>. QED BY <1>1, <2>1, <2>2, <2>3, <2>4, RecordStep
<1>4. CASE Clearsign
  <2> DEFINE r == [old EXCEPT !.signature = old.statement]
  <2>1. /\ run.pc = "clearsign"
        /\ records' = [records EXCEPT ![run.event] = r]
        /\ run' = [run EXCEPT !.pc = "meta"] /\ files' = files /\ runs' = runs /\ kills' = kills /\ stray' = stray
    BY <1>1, <1>4 DEF Clearsign, IInv, Shapes
  <2>2. /\ IsRecord(r) /\ r.meta = NoFile /\ r.retained = old.retained
        /\ r.statement = old.statement /\ r.signature = old.statement
    BY <1>1 DEF IsRecord
  <2> HIDE DEF r
  <2>3. run'.pc = "meta" /\ run'.event = run.event /\ run'.out = run.out
    BY <2>1 DEF IInv, Shapes
  <2>4. Progress'
    BY <1>1, <2>1, <2>2, <2>3 DEF Progress, IInv, Shapes
  <2>. QED BY <1>1, <2>1, <2>2, <2>3, <2>4, RecordStep
<1>. QED BY <1>2, <1>3, <1>4

LEMMA MetaInv == IInv /\ WriteMeta => IInv'
<1> SUFFICES ASSUME IInv, WriteMeta PROVE IInv'
  OBVIOUS
<1> DEFINE old == records[run.event]
           r == [old EXCEPT !.meta = old.retained]
<1>1. /\ run.pc = "meta" /\ run.out \in Paths /\ run.event \in Events /\ IsRecord(old)
      /\ records' = [records EXCEPT ![run.event] = r] /\ run' = Idle
      /\ files' = files /\ runs' = runs /\ kills' = kills /\ stray' = stray /\ run.event[2] = runs
  BY DEF WriteMeta, IInv, Shapes
<1>2. /\ IsRecord(r) /\ r.retained = old.retained /\ r.meta = old.retained
      /\ r.statement = old.retained /\ r.signature = old.retained
      /\ Bears(old.retained, runs) /\ (files[run.out] = NoFile \/ files[run.out] = old.retained)
  BY <1>1 DEF IsRecord, IInv, Progress
<1> HIDE DEF r
<1>3. records'[run.event] = r /\ \A e \in Events : e # run.event => records'[e] = records[e]
  BY <1>1 DEF IInv, Shapes
<1>4. Shapes' /\ run'.pc = "idle"
  BY <1>1, <1>2, <1>3, EmptyIs DEF IInv, Shapes, Idle
<1>5. Progress' /\ Ahead'
  BY <1>1, <1>3, <1>4 DEF Progress, Ahead, IInv, Shapes
<1>6. AttestedWhole'
  BY <1>1, <1>2, <1>3 DEF AttestedWhole, IInv, Bears
<1>7. Kept'
  <2>1. NoFile.stamps = << >> /\ old.retained # NoFile
    BY <1>2 DEF NoFile, Bears
  <2>2. \A p \in Paths : Attested(p) => Attested(p)'
    BY <1>1, <1>3 DEF Attested, IInv, Progress
  <2>3. ASSUME NEW p \in Paths, p = run.out, files[p].stamps # << >> PROVE Attested(p)'
    BY <1>1, <1>2, <1>3, <2>1, <2>3 DEF Attested
  <2>. QED BY <1>1, <2>2, <2>3 DEF Kept, Saved, IInv
<1>. QED BY <1>4, <1>5, <1>6, <1>7 DEF IInv

\* A run ends without a record: what it saved is gone, or counted as stray.
LEMMA EndInv ==
  ASSUME IInv, run.pc # "idle", run' = Idle, runs' = runs, kills' \in Nat,
         files' \in {files, [files EXCEPT ![run.out] = NoFile]},
         records' \in {records, [records EXCEPT ![run.event] = NoRecord]},
         stray' \in {stray, stray \cup {run.out}},
         run.pc = "save" \/ run.out \in stray' \/ files' = [files EXCEPT ![run.out] = NoFile]
  PROVE  IInv'
<1>1. /\ run.out \in Paths /\ run.event \in Events /\ run.event[2] = runs
      /\ records[run.event].meta = NoFile
  BY DEF IInv, Shapes, Progress
<1>2. IsRecord(NoRecord) /\ NoRecord.meta = NoFile
  BY DEF IsRecord, NoRecord
<1>3. /\ \A e \in Events : e # run.event => records'[e] = records[e]
      /\ records'[run.event].meta = NoFile
      /\ records' = [e \in Events |-> records'[e]] /\ \A e \in Events : IsRecord(records'[e])
  BY <1>1, <1>2 DEF IInv, Shapes
<1>4. /\ files' = [p \in Paths |-> files'[p]] /\ \A p \in Paths : IsFile(files'[p])
      /\ \A p \in Paths : files'[p] = files[p] \/ (p = run.out /\ files'[p] = NoFile)
  BY <1>1, EmptyIs DEF IInv, Shapes
<1>5. Shapes' /\ run'.pc = "idle"
  BY <1>1, <1>3, <1>4, EmptyIs DEF IInv, Shapes, Idle
<1>6. Progress' /\ Ahead' /\ AttestedWhole'
  BY <1>1, <1>3, <1>5 DEF Progress, Ahead, AttestedWhole, IInv, Shapes
<1>7. Kept'
  <2>1. \A p \in Paths : files'[p] = files[p] /\ Attested(p) => Attested(p)'
    BY <1>1, <1>3 DEF Attested
  <2>2. ASSUME NEW p \in Paths, files'[p].stamps # << >> PROVE Attested(p)' \/ p \in stray'
    <3>1. files'[p] = files[p]
      BY <1>4, <2>2, EmptyIs
    <3>2. Attested(p) \/ Saved(p) \/ p \in stray
      BY <2>2, <3>1 DEF IInv, Kept
    <3>3. Saved(p) => p \in stray'
      <4>1. run.pc # "save" /\ files' = [files EXCEPT ![run.out] = NoFile] /\ p = run.out => files'[p] = NoFile
        BY <1>1 DEF IInv, Shapes
      <4>. QED BY <2>2, <4>1, EmptyIs DEF Saved
    <3>. QED BY <2>1, <3>1, <3>2, <3>3
  <2>. QED BY <2>2 DEF Kept
<1>. QED BY <1>5, <1>6, <1>7 DEF IInv

LEMMA FailInv ==
  IInv /\ (SaveFails \/ ReportFails \/ ClearsignFails \/ Fail \/ Kill) => IInv'
<1> SUFFICES ASSUME IInv, SaveFails \/ ReportFails \/ ClearsignFails \/ Fail \/ Kill PROVE IInv'
  OBVIOUS
<1>1. kills \in Nat /\ kills + 1 \in Nat
  BY DEF IInv, Shapes
<1>2. CASE SaveFails
  BY <1>1, <1>2, EndInv DEF SaveFails
<1>3. CASE ReportFails
  BY <1>1, <1>3, EndInv DEF ReportFails
<1>4. CASE ClearsignFails
  BY <1>1, <1>4, EndInv DEF ClearsignFails
<1>5. CASE Fail
  BY <1>1, <1>5, EndInv DEF Fail
<1>6. CASE Kill
  BY <1>1, <1>6, EndInv DEF Kill
<1>. QED BY <1>2, <1>3, <1>4, <1>5, <1>6

LEMMA WithdrawInv == ASSUME IInv, NEW p \in Paths, Withdraw(p) PROVE IInv'
<1>1. /\ files' = [files EXCEPT ![p] = NoFile]
      /\ records' = records /\ run' = run /\ runs' = runs /\ kills' = kills /\ stray' = stray
  BY DEF Withdraw
<1>2. IsFile(NoFile) /\ NoFile.stamps = << >>
  BY DEF NoFile, IsFile
<1>3. files'[p] = NoFile /\ \A q \in Paths : q # p => files'[q] = files[q]
  BY <1>1 DEF IInv, Shapes
<1>4. Shapes'
  BY <1>1, <1>2, <1>3 DEF IInv, Shapes
<1>5. Progress'
  BY <1>1, <1>3 DEF Progress, IInv, Shapes
<1>6. Ahead' /\ AttestedWhole'
  BY <1>1 DEF IInv, Ahead, AttestedWhole
<1>7. Kept'
  BY <1>1, <1>2, <1>3 DEF Kept, Attested, Saved, IInv
<1>. QED BY <1>4, <1>5, <1>6, <1>7 DEF IInv

LEMMA StepInv == IInv /\ [Next]_vars => IInv'
<1> SUFFICES ASSUME IInv, [Next]_vars PROVE IInv'
  OBVIOUS
<1>1. ASSUME NEW in \in Paths, NEW out \in Paths, NEW wanted, Apply(in, out, wanted) PROVE IInv'
  BY <1>1, ApplyInv
<1>2. CASE Retain \/ WriteStatement \/ Clearsign
  BY <1>2, WriteInv
<1>3. CASE WriteMeta
  BY <1>3, MetaInv
<1>4. CASE SaveFails \/ ReportFails \/ ClearsignFails \/ Fail \/ Kill
  BY <1>4, FailInv
<1>5. CASE Save \/ Report
  BY <1>5, SaveInv
<1>6. ASSUME NEW p \in Paths, Withdraw(p) PROVE IInv'
  BY <1>6, WithdrawInv
<1>7. CASE UNCHANGED vars
  BY <1>7 DEF vars, IInv, Shapes, Progress, Ahead, AttestedWhole, Kept, Attested, Saved
<1>. QED BY <1>1, <1>2, <1>3, <1>4, <1>5, <1>6, <1>7 DEF Next

LEMMA Invariant == Spec => []IInv
<1>. QED BY InitInv, StepInv, PTL DEF Spec

\* An attestation with its attestation.json is whole: retained bytes, statement,
\* gpg's signature and attestation.json are of one file, which bears its reference.
THEOREM Attestations == Spec => []AttestedWhole
<1>1. IInv => AttestedWhole
  BY DEF IInv
<1>. QED BY <1>1, Invariant, PTL

\* Whatever step fails, in the save or in the attestation, no signed artifact is
\* left without its record: one that has none was left by a run that was killed or
\* interrupted, or that could not print, and has not been replaced since.
THEOREM FailuresLeaveNone == Spec => []NoOrphan
<1>1. IInv => NoOrphan
  BY DEF IInv, Kept, Saved, NoOrphan, Orphan, Attested
<1>. QED BY <1>1, Invariant, PTL

\* A finished attestation is never changed, whatever is signed afterwards.
THEOREM AttestationsStay == Spec => RecordsStay
<1>1. IInv /\ [Next]_vars =>
        [\A e \in Events : records[e].meta # NoFile => records'[e] = records[e]]_vars
  <2> SUFFICES ASSUME IInv, Next, NEW e \in Events, records[e].meta # NoFile
               PROVE  records'[e] = records[e]
    OBVIOUS
  <2>1. run.pc # "idle" => e # run.event
    BY DEF IInv, Progress
  <2>2. ASSUME Retain \/ WriteStatement \/ Clearsign \/ ClearsignFails \/ WriteMeta
        PROVE  records'[e] = records[e]
    BY <2>1, <2>2 DEF Retain, WriteStatement, Clearsign, ClearsignFails, WriteMeta, IInv, Shapes
  <2>3. ASSUME NEW in \in Paths, NEW out \in Paths, NEW wanted, Apply(in, out, wanted)
        PROVE  records'[e] = records[e]
    BY <2>3 DEF Apply
  <2>4. ASSUME NEW p \in Paths, Withdraw(p) PROVE records'[e] = records[e]
    BY <2>4 DEF Withdraw
  <2>. QED BY <2>2, <2>3, <2>4 DEF Next, Save, SaveFails, Report, ReportFails, Fail, Kill
<1>. QED BY <1>1, Invariant, PTL DEF Spec, RecordsStay

-----------------------------------------------------------------------------
\* Types: of the files, and of the records.
FileOK(f) ==
  /\ f = NoFile \/ f.doc \in Docs
  /\ Range(f.stamps) \subseteq 1 .. runs
  /\ f.drawn # {} <=> f.stamps # << >>

RunOK ==
  /\ runs \in 0 .. MaxRuns /\ kills \in 0 .. MaxKills
  /\ run.pc # "idle" => /\ run.out \in Docs \X {"staging", "filed"} /\ run.event \in Events
                        /\ run.event[2] = runs

FilesOK   == FileOK(run.made) /\ \A p \in Paths : FileOK(files[p])
RecordsOK ==
  \A e \in Events : FileOK(records[e].retained)
                    /\ (records[e].retained = NoFile => records[e] = NoRecord)

LEMMA TypesAre == IInv => (TypeOK <=> RunOK /\ FilesOK /\ RecordsOK)
BY DEF IInv, Shapes, TypeOK, RunOK, FilesOK, RecordsOK, FileOK, Contents

LEMMA EmptyFile == FileOK(NoFile) /\ NoRecord.retained = NoFile
<1>1. Range(<< >>) = {}
  BY DEF Range
<1>. QED BY <1>1 DEF FileOK, NoFile, NoRecord

LEMMA ApplyTypes ==
  ASSUME IInv, RunOK, FilesOK, RecordsOK,
         NEW in \in Paths, NEW out \in Paths, NEW wanted, Apply(in, out, wanted)
  PROVE  RunOK' /\ FilesOK' /\ RecordsOK'
<1> DEFINE mine == Mine(Discover(pages[files[in].doc]), wanted)
           old  == files[in]
           new  == [doc |-> old.doc, drawn |-> old.drawn \cup Drawn(mine, wanted),
                    stamps |-> Append(old.stamps, runs + 1)]
<1>1. /\ runs < MaxRuns /\ files' = files /\ old # NoFile
      /\ runs' = runs + 1 /\ records' = records /\ kills' = kills /\ out[2] # "out"
      /\ run' = [pc |-> "save", out |-> out, event |-> Event(out[1], runs + 1), made |-> new]
      /\ \E s \in mine : s.slot.role = "mark"
  BY DEF Apply
<1>2. RunOK'
  BY <1>1, LocalAssumption DEF RunOK, Event, Events, Paths
<1>3. \A f : FileOK(f) => FileOK(f)'
  BY <1>1 DEF FileOK, RunOK
<1>4. RecordsOK'
  BY <1>1, <1>3 DEF RecordsOK
<1>5. PICK g : g = new
  OBVIOUS
<1>6. FileOK(g)'
  <2>1. Drawn(mine, wanted) # {}
    BY <1>1 DEF Drawn, Written
  <2>2. FileOK(old) /\ IsFile(old) /\ runs + 1 \in Nat
    BY DEF FilesOK, IInv, Shapes
  <2>3. /\ Append(old.stamps, runs + 1) # << >>
        /\ \A i \in DOMAIN Append(old.stamps, runs + 1) :
             \/ Append(old.stamps, runs + 1)[i] = runs + 1
             \/ i \in DOMAIN old.stamps /\ Append(old.stamps, runs + 1)[i] = old.stamps[i]
    BY <2>2 DEF IsFile
  <2>4. Range(Append(old.stamps, runs + 1)) \subseteq Range(old.stamps) \cup {runs + 1}
    BY <2>3 DEF Range
  <2>5. Range(Append(old.stamps, runs + 1)) \subseteq 1 .. runs'
    BY <1>1, <2>2, <2>4 DEF FileOK, RunOK
  <2>6. /\ g.doc = old.doc /\ g.drawn = old.drawn \cup Drawn(mine, wanted)
        /\ g.stamps = Append(old.stamps, runs + 1)
    BY <1>5
  <2>7. old.doc \in Docs
    BY <1>1, <2>2 DEF FileOK
  <2>8. Range(g.stamps) \subseteq 1 .. runs' /\ g.drawn # {} /\ g.stamps # << >> /\ g.doc \in Docs
    BY <2>1, <2>3, <2>5, <2>6, <2>7
  <2>. QED BY <2>8 DEF FileOK
<1>7. FilesOK'
  <2>1. run'.made = g
    BY <1>1, <1>5
  <2>. QED BY <1>1, <1>3, <1>6, <2>1 DEF FilesOK
<1>. QED BY <1>2, <1>4, <1>7

\* The save, the steps of audit.write, and the failures: a file is moved or goes.
LEMMA WriteTypes ==
  ASSUME IInv, RunOK, FilesOK, RecordsOK,
         \/ Save \/ SaveFails \/ Report \/ ReportFails
         \/ Retain \/ WriteStatement \/ Clearsign \/ ClearsignFails \/ WriteMeta \/ Fail
  PROVE  RunOK' /\ FilesOK' /\ RecordsOK'
<1> DEFINE old == records[run.event]
<1>1. /\ run.pc # "idle" /\ run.out \in Paths /\ run.event \in Events
      /\ UNCHANGED <<runs, kills>>
      /\ run' = Idle \/ \E pc : run' = [run EXCEPT !.pc = pc]
      /\ \/ files' = files \/ files' = [files EXCEPT ![run.out] = NoFile]
         \/ files' = [files EXCEPT ![run.out] = run.made]
  BY DEF Save, SaveFails, Report, ReportFails, Retain, WriteStatement, Clearsign, ClearsignFails, WriteMeta, Fail, IInv, Shapes
<1>2. RunOK'
  BY <1>1 DEF RunOK, Idle, IInv, Shapes
<1>3. \A f : FileOK(f) <=> FileOK(f)'
  BY <1>1 DEF FileOK
<1>4. FilesOK'
  <2>1. \A p \in Paths : files'[p] = files[p] \/ files'[p] = NoFile \/ files'[p] = run.made
    BY <1>1 DEF IInv, Shapes
  <2>2. run'.made = run.made \/ run'.made = NoFile
    BY <1>1, EmptyIs DEF IInv, Shapes
  <2>. QED BY <1>3, <2>1, <2>2, EmptyFile DEF FilesOK
<1>5. /\ old = [retained |-> old.retained, statement |-> old.statement,
                signature |-> old.signature, meta |-> old.meta]
      /\ FileOK(old.retained)
      /\ run.pc \in {"statement", "clearsign", "meta"} => old.retained # NoFile
  BY <1>1, EmptyFile DEF IInv, Shapes, IsRecord, Progress, Bears, RecordsOK, NoFile
<1>6. \/ UNCHANGED records
      \/ \E r : /\ records' = [records EXCEPT ![run.event] = r]
                /\ FileOK(r.retained) /\ (r.retained = NoFile => r = NoRecord)
  <2>1. CASE Retain
    <3>1. /\ records' = [records EXCEPT ![run.event] = [old EXCEPT !.retained = files[run.out]]]
          /\ files[run.out] # NoFile
      BY <2>1 DEF Retain, IInv, Shapes
    <3>2. FileOK(files[run.out])
      BY <1>1 DEF FilesOK
    <3>3. [old EXCEPT !.retained = files[run.out]].retained = files[run.out]
      BY <1>5
    <3>. QED BY <3>1, <3>2, <3>3
  <2>2. CASE WriteStatement \/ Clearsign \/ WriteMeta
    <3>1. PICK r : /\ records' = [records EXCEPT ![run.event] = r]
                   /\ \/ r = [old EXCEPT !.statement = Digest]
                      \/ r = [old EXCEPT !.signature = old.statement]
                      \/ r = [old EXCEPT !.meta = old.retained]
      BY <2>2 DEF WriteStatement, Clearsign, WriteMeta, IInv, Shapes
    <3>2. r.retained = old.retained
      BY <1>5, <3>1
    <3>3. run.pc \in {"statement", "clearsign", "meta"}
      BY <2>2 DEF WriteStatement, Clearsign, WriteMeta
    <3>. QED BY <1>5, <3>1, <3>2, <3>3
  <2>3. CASE ClearsignFails
    BY <2>3, EmptyFile DEF ClearsignFails
  <2>4. CASE Fail
    BY <2>4 DEF Fail
  <2>5. CASE Save \/ SaveFails \/ Report \/ ReportFails
    BY <2>5 DEF Save, SaveFails, Report, ReportFails
  <2>. QED BY <2>1, <2>2, <2>3, <2>4, <2>5
<1>7. RecordsOK'
  BY <1>1, <1>3, <1>6 DEF RecordsOK, IInv, Shapes
<1>. QED BY <1>2, <1>4, <1>7

\* The state has the types TypeOK gives: a file that bears marks bears the
\* references of the runs that drew them, and a record without a retained
\* copy is empty.
THEOREM TypeCorrect == Spec => []TypeOK
<1> DEFINE T == RunOK /\ FilesOK /\ RecordsOK
<1>1. Init => T
  <2> SUFFICES ASSUME Init PROVE T
    OBVIOUS
  <2>1. \A d \in Docs : FileOK(Built(d))
    <3>1. Range(<< >>) = {}
      BY DEF Range
    <3>. QED BY <3>1 DEF FileOK, Built
  <2>2. FilesOK
    BY <2>1, EmptyFile, EmptyIs DEF Init, FilesOK, Paths
  <2>3. RecordsOK
    BY EmptyFile DEF Init, RecordsOK
  <2>4. RunOK
    BY LocalAssumption DEF Init, RunOK, Idle
  <2>. QED BY <2>2, <2>3, <2>4
<1>2. IInv /\ T /\ [Next]_vars => T'
  <2> SUFFICES ASSUME IInv, T, [Next]_vars PROVE T'
    OBVIOUS
  <2>1. ASSUME NEW in \in Paths, NEW out \in Paths, NEW wanted, Apply(in, out, wanted) PROVE T'
    BY <2>1, ApplyTypes
  <2>2. CASE \/ Save \/ SaveFails \/ Report \/ ReportFails
             \/ Retain \/ WriteStatement \/ Clearsign \/ ClearsignFails \/ WriteMeta \/ Fail
    BY <2>2, WriteTypes
  <2>3. CASE Kill
    <3>1. /\ UNCHANGED <<records, runs>> /\ run' = Idle /\ kills' = kills + 1 /\ kills < MaxKills
          /\ files' = files \/ files' = [files EXCEPT ![run.out] = NoFile]
      BY <2>3 DEF Kill
    <3>2. \A p \in Paths : files'[p] = files[p] \/ files'[p] = NoFile
      BY <3>1 DEF IInv, Shapes
    <3>3. \A f : FileOK(f) <=> FileOK(f)'
      BY <3>1 DEF FileOK
    <3>4. FilesOK' /\ RecordsOK'
      BY <3>1, <3>2, <3>3, EmptyFile, EmptyIs DEF FilesOK, RecordsOK
    <3>. QED BY <3>1, <3>4, LocalAssumption, EmptyIs DEF RunOK
  <2>4. ASSUME NEW p \in Paths, Withdraw(p) PROVE T'
    <3>1. UNCHANGED <<records, run, runs, kills>> /\ files' = [files EXCEPT ![p] = NoFile]
      BY <2>4 DEF Withdraw
    <3>2. FilesOK'
      BY <3>1, EmptyFile DEF FilesOK, FileOK, IInv, Shapes
    <3>. QED BY <3>1, <3>2 DEF RunOK, RecordsOK, FileOK
  <2>5. CASE UNCHANGED vars
    BY <2>5 DEF vars, RunOK, FilesOK, RecordsOK, FileOK
  <2>. QED BY <2>1, <2>2, <2>3, <2>4, <2>5 DEF Next
<1>. QED BY <1>1, <1>2, Invariant, TypesAre, PTL DEF Spec

-----------------------------------------------------------------------------
\* A set of naturals that is not empty has a least element.
LEMMA LeastIn ==
  ASSUME NEW S \in SUBSET Nat, S # {}
  PROVE  \E x \in S : \A y \in S : x <= y
<1> DEFINE R == OpToRel(<, Nat)
<1>1. IsWellFoundedOn(R, Nat)
  BY NatLessThanWellFounded
<1>2. \A x, y \in Nat : x < y => <<x, y>> \in R
  BY DEF OpToRel
<1> HIDE DEF R
<1>3. PICK x \in S : \A y \in S : ~ (<<y, x>> \in R)
  BY <1>1, WFMin
<1>4. \A y \in S : x <= y
  <2>1. \A y \in S : x \in Nat /\ y \in Nat /\ ~(y < x)
    BY <1>2, <1>3
  <2> QED
    BY <2>1
<1> QED
  BY <1>4

\* The least element is the one Min chooses.
LEMMA MinIs ==
  ASSUME NEW S \in SUBSET Int, NEW m \in S, \A y \in S : m <= y
  PROVE  Min(S) = m
<1>1. Min(S) \in S /\ \A y \in S : Min(S) <= y
  BY DEF Min
<1>2. Min(S) <= m /\ m <= Min(S) /\ m \in Int /\ Min(S) \in Int
  BY <1>1
<1> QED
  BY <1>1, <1>2

\* The testimonium of md_pleading's wills: its blanks, and its two lines.
Whereof == <<"ordinal", "month", "year", "place">>

Start(cut) == SubSeq(Whereof, 1, cut)
Rest(cut)  == SubSeq(Whereof, cut + 1, 4)

First(cut, o)  == Line("whereof", Start(cut), "prose", o)
Second(cut, o) == Line("other", Rest(cut), "prose", o)
Recital        == Line("whereof", << >>, "prose", Nobody)

\* What is right above a signature rule, but for the lines of a clause of two.
Above(o) == {Line("dated", <<"date">>, "prose", o), Line("other", << >>, "prose", o),
             Line("executed", <<"ordinal", "month">>, "prose", o), Line("executed", << >>, "prose", o)}

\* A line without blanks that is nobody's.
Plain(line) == line.kind = "other" /\ line.wants = << >> /\ line.of = Nobody

\* A line of a page with signature rules, and those of its block that follow it.
Placed(lines, i) ==
  \/ Plain(lines[i])
  \/ lines[i] = Recital
  \/ \E o \in Names \cup Titles :
       \/ lines[i] = Rule(o) /\ i + 1 \in DOMAIN lines /\ lines[i + 1] = Text(o)
       \/ lines[i] \in Above(o) /\ i + 1 \in DOMAIN lines /\ lines[i + 1] = Rule(o)
       \/ \E cut \in 0 .. 4 :
            /\ lines[i] = First(cut, o) /\ i + 1 \in DOMAIN lines /\ lines[i + 1] = Second(cut, o)
            /\ i + 2 \in DOMAIN lines /\ lines[i + 2] = Rule(o)
       \/ \E cut \in 0 .. 4 :
            /\ i - 1 \in DOMAIN lines /\ lines[i - 1] = First(cut, o) /\ lines[i] = Second(cut, o)
            /\ i + 1 \in DOMAIN lines /\ lines[i + 1] = Rule(o)

\* Line i is line j of a block that begins at line s.
Within(lines, built, i, b, s, j) ==
  /\ s \in DOMAIN lines /\ j \in DOMAIN Emit(b, built) /\ i = s + j - 1
  /\ \A k \in DOMAIN Emit(b, built) :
       s + k - 1 \in DOMAIN lines /\ lines[s + k - 1] = Emit(b, built)[k]

\* A block has one line to four.
LEMMA EmitLen ==
  ASSUME NEW b \in SignBlocks, NEW built \in Builds
  PROVE  DOMAIN Emit(b, built) = 1 .. Len(Emit(b, built)) /\ Len(Emit(b, built)) \in 1 .. 4
<1>1. b.style \in Styles
  BY DEF SignBlocks
<1>2. CASE b.style = "dated"
  BY <1>2 DEF Emit
<1>3. CASE b.style = "decl"
  BY <1>3 DEF Emit
<1>4. CASE b.style = "whereof"
  BY <1>4 DEF Emit
<1>5. CASE b.style = "letter"
  BY <1>5 DEF Emit
<1>6. CASE b.style = "judge"
  BY <1>6 DEF Emit
<1>7. CASE b.style = "prose"
  BY <1>7 DEF Emit
<1>8. CASE b.style = "recital"
  BY <1>8 DEF Emit
<1> QED
  BY <1>1, <1>2, <1>3, <1>4, <1>5, <1>6, <1>7, <1>8 DEF Styles

\* Each line is in a block.
LEMMA InBlock ==
  ASSUME NEW lines, NEW built \in Builds, Printed(lines, built), NEW i \in DOMAIN lines
  PROVE  \E b, s, j : b \in SignBlocks /\ Within(lines, built, i, b, s, j)
<1>1. /\ lines \in Seq({lines[k] : k \in DOMAIN lines}) /\ Len(lines) \in Nat
      /\ DOMAIN lines = 1 .. Len(lines) /\ lines # << >>
  BY DEF Printed
<1>2. PICK starts \in SUBSET DOMAIN lines :
        /\ 1 \in starts
        /\ \A s \in starts : \E b \in SignBlocks :
             /\ s + Len(Emit(b, built)) \in starts \cup {Len(lines) + 1}
             /\ \A j \in DOMAIN Emit(b, built) : lines[s + j - 1] = Emit(b, built)[j]
  BY <1>1 DEF Printed
<1> DEFINE D == {n \in Nat : i - n \in starts}
<1>3. D \in SUBSET Nat /\ D # {}
  <2>1. i - 1 \in Nat /\ i - (i - 1) = 1
    BY <1>1
  <2> QED
    BY <1>2, <2>1
<1>4. PICK n \in D : \A m \in D : n <= m
  BY <1>3, LeastIn
<1> DEFINE s == i - n
<1>5. s \in starts /\ s \in DOMAIN lines /\ s \in Nat /\ s <= i
  BY <1>1, <1>4
<1>6. \A t \in starts : t <= i => t <= s
  <2> SUFFICES ASSUME NEW t \in starts, t <= i PROVE t <= s
    OBVIOUS
  <2>1. i - t \in D
    BY <1>1, <1>2
  <2> QED
    BY <1>1, <1>4, <2>1
<1>7. PICK b \in SignBlocks :
        /\ s + Len(Emit(b, built)) \in starts \cup {Len(lines) + 1}
        /\ \A j \in DOMAIN Emit(b, built) : lines[s + j - 1] = Emit(b, built)[j]
  BY <1>2, <1>5
<1>8. DOMAIN Emit(b, built) = 1 .. Len(Emit(b, built)) /\ Len(Emit(b, built)) \in 1 .. 4
  BY EmitLen
<1> HIDE DEF s, D
<1>9. i < s + Len(Emit(b, built))
  <2>1. \A len \in 1 .. 4 : s + len \in starts \cup {Len(lines) + 1} => i < s + len
    BY <1>1, <1>5, <1>6
  <2> QED
    BY <1>7, <1>8, <2>1
<1>10. s + Len(Emit(b, built)) <= Len(lines) + 1
  BY <1>1, <1>2, <1>7, <1>8
<1>11. i - s + 1 \in DOMAIN Emit(b, built) /\ i = s + (i - s + 1) - 1
  BY <1>1, <1>5, <1>8, <1>9
<1>12. \A k \in DOMAIN Emit(b, built) : s + k - 1 \in DOMAIN lines
  BY <1>1, <1>5, <1>8, <1>10
<1>13. Within(lines, built, i, b, s, i - s + 1)
  BY <1>5, <1>7, <1>11, <1>12 DEF Within
<1> QED
  BY <1>13

\* A page that is built with signatures in script has no rule.
LEMMA NoRules ==
  ASSUME NEW lines, Printed(lines, "signed"), NEW i \in DOMAIN lines
  PROVE  ~IsRule(lines, i)
<1>1. PICK b, s, j : b \in SignBlocks /\ Within(lines, "signed", i, b, s, j)
  BY InBlock DEF Builds
<1>2. b.style \in Styles
  BY <1>1 DEF SignBlocks
<1>3. \A k \in DOMAIN Emit(b, "signed") : Emit(b, "signed")[k].kind # "rule"
  BY <1>2 DEF Styles, Emit, SignatureLine, Dated, Text, Line, Blank
<1> QED
  BY <1>1, <1>3 DEF IsRule, Within

\* Every line of a page with rules is one of those Placed lists.
LEMMA LinesPlaced ==
  ASSUME NEW lines, NEW built \in {"plain", "dated"}, Printed(lines, built), NEW i \in DOMAIN lines
  PROVE  Placed(lines, i)
<1>1. PICK b, s, j : b \in SignBlocks /\ Within(lines, built, i, b, s, j)
  BY InBlock DEF Builds
<1>2. b.style \in Styles /\ b.name \in Names \cup Titles /\ b.cut \in 0 .. 4 /\ s \in Nat /\ i \in Nat /\ j \in Nat
  <2>1. DOMAIN lines = 1 .. Len(lines) /\ Len(lines) \in Nat
    BY DEF Printed
  <2>2. s \in DOMAIN lines /\ j \in DOMAIN Emit(b, built)
    BY <1>1 DEF Within
  <2>3. DOMAIN Emit(b, built) = 1 .. Len(Emit(b, built)) /\ Len(Emit(b, built)) \in 1 .. 4
    BY <1>1, EmitLen DEF Builds
  <2> QED
    BY <1>1, <2>1, <2>2, <2>3 DEF SignBlocks
<1>3. SignatureLine(b.name, built) = Rule(b.name)
  BY DEF SignatureLine
<1> DEFINE text == Emit(b, built)  o == b.name
<1>4. j \in DOMAIN text /\ lines[i] = text[j]
      /\ \A k \in DOMAIN text : i + k - j \in DOMAIN lines /\ lines[i + k - j] = text[k]
  <2>1. j \in DOMAIN text /\ i = s + j - 1
        /\ \A k \in DOMAIN text : s + k - 1 \in DOMAIN lines /\ lines[s + k - 1] = text[k]
    BY <1>1 DEF Within
  <2>2. DOMAIN text \subseteq Nat
    BY <1>1, EmitLen DEF Builds
  <2> HIDE DEF text
  <2>3. \A k \in DOMAIN text : i + k - j = s + k - 1
    BY <1>2, <2>1, <2>2
  <2> QED
    BY <2>1, <2>3
<1>5. \A w : Plain(Text(w))
  BY DEF Plain, Text, Line
<1>6. CASE b.style = "dated"
  <2>1. text = << Dated(Blank(<<"date">>, built), o), Rule(o), Text(o), Text("prose") >>
    BY <1>3, <1>6 DEF Emit
  <2>2. Dated(Blank(<<"date">>, built), o) \in Above(o)
    BY DEF Dated, Blank, Above
  <2> HIDE DEF text, o
  <2>3. j \in 1 .. 4
    BY <1>4, <2>1
  <2> QED
    BY <1>2, <1>4, <1>5, <2>1, <2>2, <2>3 DEF Placed, o
<1>7. CASE b.style = "decl"
  <2>1. text = << Line("executed", Blank(<<"ordinal", "month">>, built), "prose", o), Rule(o), Text(o) >>
    BY <1>3, <1>7 DEF Emit
  <2>2. Line("executed", Blank(<<"ordinal", "month">>, built), "prose", o) \in Above(o)
    BY DEF Dated, Blank, Above
  <2> HIDE DEF text, o
  <2>3. j \in 1 .. 3
    BY <1>4, <2>1
  <2> QED
    BY <1>2, <1>4, <1>5, <2>1, <2>2, <2>3 DEF Placed, o
<1>8. CASE b.style = "whereof"
  <2>1. text = << First(b.cut, o), Second(b.cut, o), Rule(o), Text(o) >>
    BY <1>3, <1>8 DEF Emit, First, Second, Start, Rest, Whereof
  <2> HIDE DEF text, o
  <2>3. j \in 1 .. 4
    BY <1>4, <2>1
  <2> QED
    BY <1>2, <1>4, <1>5, <2>1, <2>3 DEF Placed, o
<1>9. CASE b.style = "letter"
  <2>1. text = << Text("prose"), Rule(o), Text(o) >>
    BY <1>3, <1>9 DEF Emit
  <2> HIDE DEF text, o
  <2>3. j \in 1 .. 3
    BY <1>4, <2>1
  <2> QED
    BY <1>2, <1>4, <1>5, <2>1, <2>3 DEF Placed, o
<1>10. CASE b.style = "judge"
  <2>1. text = << Dated(<<"date">>, o), Rule(o), Text(o) >>
    BY <1>3, <1>10 DEF Emit
  <2>2. Dated(<<"date">>, o) \in Above(o)
    BY DEF Dated, Blank, Above
  <2> HIDE DEF text, o
  <2>3. j \in 1 .. 3
    BY <1>4, <2>1
  <2> QED
    BY <1>2, <1>4, <1>5, <2>1, <2>2, <2>3 DEF Placed, o
<1>11. CASE b.style = "prose"
  <2>1. text = << Text("prose") >>
    BY <1>3, <1>11 DEF Emit
  <2> HIDE DEF text, o
  <2>3. j \in 1 .. 1
    BY <1>4, <2>1
  <2> QED
    BY <1>2, <1>4, <1>5, <2>1, <2>3 DEF Placed, o
<1>12. CASE b.style = "recital"
  <2>1. text = << Recital >>
    BY <1>3, <1>12 DEF Emit, Recital
  <2> HIDE DEF text, o
  <2>3. j \in 1 .. 1
    BY <1>4, <2>1
  <2> QED
    BY <1>2, <1>4, <1>5, <2>1, <2>3 DEF Placed, o
<1> QED
  BY <1>2, <1>6, <1>7, <1>8, <1>9, <1>10, <1>11, <1>12 DEF Styles

\* Where the scan goes on.
After(lines, i) == IF Clause(lines[i]) # << >> THEN Stop(lines, i) ELSE i + 1

\* A clause ends after its line, and at the next rule at the latest.
LEMMA StopIn ==
  ASSUME NEW lines, DOMAIN lines = 1 .. Len(lines), Len(lines) \in Nat, NEW i \in DOMAIN lines
  PROVE  /\ Stop(lines, i) \in i + 1 .. Len(lines) + 1
         /\ \A j \in i + 1 .. Len(lines) + 1 :
              \/ j = Len(lines) + 1
              \/ IsRule(lines, j)
              \/ Cardinality(Blanks(lines, i, j)) >= Len(Clause(lines[i]))
              => Stop(lines, i) <= j
         /\ \/ Stop(lines, i) = Len(lines) + 1
            \/ IsRule(lines, Stop(lines, i))
            \/ Cardinality(Blanks(lines, i, Stop(lines, i))) >= Len(Clause(lines[i]))
<1> DEFINE S == {j \in i + 1 .. Len(lines) + 1 :
                   \/ j = Len(lines) + 1
                   \/ IsRule(lines, j)
                   \/ Cardinality(Blanks(lines, i, j)) >= Len(Clause(lines[i]))}
<1>1. S \in SUBSET Nat /\ S # {} /\ S \in SUBSET Int
  <2>1. Len(lines) + 1 \in S
    OBVIOUS
  <2> QED
    BY <2>1
<1>2. PICK m \in S : \A j \in S : m <= j
  BY <1>1, LeastIn
<1>3. Min(S) = m
  BY <1>1, <1>2, MinIs
<1>4. Stop(lines, i) = m
  BY <1>3 DEF Stop
<1> QED
  BY <1>2, <1>4

\* The scan is what its definition says.
LEMMA ScanIs ==
  ASSUME NEW lines, DOMAIN lines = 1 .. Len(lines), Len(lines) \in Nat
  PROVE  Scan(lines) = [i \in 1 .. Len(lines) + 1 |->
           IF i > Len(lines) THEN {} ELSE {i} \cup Scan(lines)[After(lines, i)]]
<1> DEFINE L == Len(lines)
           Closed(T) == \A x \in T : After(lines, x) <= L => After(lines, x) \in T
           Reach(i) == {k \in 1 .. L : \A T \in SUBSET (1 .. L) : i \in T /\ Closed(T) => k \in T}
           g == [i \in 1 .. L + 1 |-> IF i > L THEN {} ELSE Reach(i)]
<1>1. \A i \in 1 .. L : After(lines, i) \in i + 1 .. L + 1
  BY StopIn DEF After
<1>2. ASSUME NEW i \in 1 .. L PROVE i \in Reach(i) /\ Closed(Reach(i)) /\ Reach(i) \in SUBSET (1 .. L)
  <2>1. Closed(Reach(i))
    <3> SUFFICES ASSUME NEW x \in Reach(i), After(lines, x) <= L PROVE After(lines, x) \in Reach(i)
      OBVIOUS
    <3>1. After(lines, x) \in 1 .. L
      BY <1>1
    <3> QED
      BY <3>1
  <2> QED
    BY <2>1
<1>3. ASSUME NEW i \in 1 .. L PROVE Reach(i) = {i} \cup g[After(lines, i)]
  <2> DEFINE a == After(lines, i)  U == {i} \cup g[a]
  <2>1. a \in 1 .. L + 1
    BY <1>1
  <2> HIDE DEF a
  <2>2. CASE a > L
    <3>1. g[a] = {}
      BY <2>1, <2>2
    <3>2. Closed({i}) /\ {i} \in SUBSET (1 .. L)
      <4>1. ~(a <= L)
        BY <2>1, <2>2
      <4> QED
        BY <4>1 DEF a
    <3>3. \A k \in Reach(i) : k \in {i}
      BY <3>2
    <3>4. i \in Reach(i)
      BY <1>2
    <3> QED
      <4> HIDE DEF g, Reach
      <4> QED
        BY <3>1, <3>3, <3>4 DEF a
  <2>3. CASE a <= L
    <3>1. a \in 1 .. L /\ g[a] = Reach(a)
      BY <2>1, <2>3
    <3> DEFINE V == Reach(a)
    <3>2. a \in V /\ Closed(V) /\ V \in SUBSET (1 .. L)
      BY <1>2, <3>1
    <3>3. ASSUME NEW k \in Reach(i) PROVE k \in {i} \cup V
      <4>1. Closed({i} \cup V) /\ {i} \cup V \in SUBSET (1 .. L)
        <5> HIDE DEF V
        <5> QED
          BY <3>2 DEF a
      <4> HIDE DEF V
      <4> QED
        BY <3>3, <4>1
    <3>4. ASSUME NEW k \in V PROVE k \in Reach(i)
      <4>1. k \in 1 .. L
        BY <3>2
      <4>2. ASSUME NEW T \in SUBSET (1 .. L), i \in T, Closed(T) PROVE k \in T
        <5>1. a \in T
          BY <2>3, <4>2 DEF a
        <5> QED
          BY <3>4, <4>2, <5>1
      <4> QED
        BY <4>1, <4>2
    <3>5. i \in Reach(i)
      BY <1>2
    <3> QED
      <4> HIDE DEF V, g, Reach
      <4>1. g[a] = V
        BY <3>1 DEF V
      <4> QED
        BY <3>3, <3>4, <3>5, <4>1 DEF a
  <2> QED
    BY <2>1, <2>2, <2>3 DEF a
<1>4. g = [i \in 1 .. L + 1 |-> IF i > L THEN {} ELSE {i} \cup g[After(lines, i)]]
  <2> DEFINE h == [i \in 1 .. L + 1 |-> IF i > L THEN {} ELSE {i} \cup g[After(lines, i)]]
  <2>1. \A i \in 1 .. L + 1 : g[i] = h[i]
    <3> SUFFICES ASSUME NEW i \in 1 .. L + 1 PROVE g[i] = h[i]
      OBVIOUS
    <3>1. CASE i > L
      BY <3>1
    <3>2. CASE ~(i > L)
      <4>1. i \in 1 .. L
        BY <3>2
      <4>2. g[i] = Reach(i)
        BY <3>2
      <4>3. h[i] = {i} \cup g[After(lines, i)]
        BY <3>2
      <4> HIDE DEF g, h, Reach
      <4> QED
        BY <1>3, <4>1, <4>2, <4>3
    <3> QED
      BY <3>1, <3>2
  <2>2. DOMAIN g = 1 .. L + 1 /\ DOMAIN h = 1 .. L + 1 /\ g = [i \in DOMAIN g |-> g[i]]
        /\ h = [i \in DOMAIN h |-> h[i]]
    OBVIOUS
  <2> HIDE DEF g, h
  <2>3. g = h
    BY <2>1, <2>2
  <2> QED
    BY <2>3 DEF h
<1>5. \E f : f = [i \in 1 .. L + 1 |-> IF i > L THEN {} ELSE {i} \cup f[After(lines, i)]]
  <2> HIDE DEF g
  <2> QED
    BY <1>4
<1> DEFINE Is(f) == f = [i \in 1 .. L + 1 |-> IF i > L THEN {} ELSE {i} \cup f[After(lines, i)]]
<1>6. Scan(lines) = CHOOSE f : Is(f)
  BY Zenon DEF Scan, After
<1>7. Is(CHOOSE f : Is(f))
  <2>1. \E f : Is(f)
    BY <1>5
  <2> HIDE DEF Is
  <2> QED
    BY <2>1
<1>8. Is(Scan(lines))
  <2> HIDE DEF Is
  <2> QED
    BY <1>6, <1>7
<1> QED
  BY <1>8

\* A page that is printed with its rules.
Ruled(lines) == \E built \in {"plain", "dated"} : Printed(lines, built)

\* A page with rules is a sequence of such lines.
LEMMA RuledLines ==
  ASSUME NEW lines, Ruled(lines)
  PROVE  /\ DOMAIN lines = 1 .. Len(lines) /\ Len(lines) \in Nat
         /\ \A i \in DOMAIN lines : Placed(lines, i)
<1>1. PICK built \in {"plain", "dated"} : Printed(lines, built)
  BY DEF Ruled
<1>2. DOMAIN lines = 1 .. Len(lines) /\ Len(lines) \in Nat
  BY <1>1 DEF Printed
<1> QED
  BY <1>1, <1>2, LinesPlaced

\* What tells the lines of a block apart, and whose block they are in.
LEMMA Kinds ==
  ASSUME NEW o
  PROVE  /\ Rule(o).kind = "rule" /\ Rule(o).of = o /\ Rule(o).wants = <<"mark">>
         /\ Text(o).kind = "other" /\ Text(o).wants = << >> /\ Text(o).words = o
         /\ \A l \in Above(o) : l.kind \in {"dated", "other", "executed"} /\ l.of = o
         /\ \A cut : /\ First(cut, o).kind = "whereof" /\ First(cut, o).of = o
                    /\ Second(cut, o).kind = "other" /\ Second(cut, o).of = o
                    /\ First(cut, o).wants = Start(cut)
                    /\ Second(cut, o).wants = Rest(cut)
<1>2. \A l \in Above(o) : l.kind \in {"dated", "other", "executed"} /\ l.of = o
  BY DEF Above, Line
<1>3. \A cut : /\ First(cut, o).kind = "whereof" /\ First(cut, o).of = o
              /\ First(cut, o).wants = Start(cut)
  BY DEF First, Line
<1>4. \A cut : /\ Second(cut, o).kind = "other" /\ Second(cut, o).of = o
              /\ Second(cut, o).wants = Rest(cut)
  BY DEF Second, Line
<1>5. /\ Rule(o).kind = "rule" /\ Rule(o).of = o /\ Rule(o).wants = <<"mark">>
      /\ Text(o).kind = "other" /\ Text(o).wants = << >> /\ Text(o).words = o
  BY DEF Rule, Text, Line
<1> QED
  BY <1>2, <1>3, <1>4, <1>5

\* From line i the next rule is that of o, at r.
NextRule(lines, i, r, o) ==
  /\ r \in DOMAIN lines /\ i <= r /\ lines[r] = Rule(o)
  /\ \A k \in i .. r - 1 : ~IsRule(lines, k)

\* A blank goes to the name below the next rule.
LEMMA OwnerIs ==
  ASSUME NEW lines, Ruled(lines), NEW i \in DOMAIN lines, NEW r, NEW o, NextRule(lines, i, r, o)
  PROVE  Owner(lines, i) = o /\ o \in Names \cup Titles
<1>1. /\ DOMAIN lines = 1 .. Len(lines) /\ Len(lines) \in Nat /\ r \in DOMAIN lines /\ i <= r
      /\ lines[r] = Rule(o) /\ \A k \in i .. r - 1 : ~IsRule(lines, k)
  BY RuledLines DEF NextRule
<1>2. o \in Names \cup Titles /\ r + 1 \in DOMAIN lines /\ lines[r + 1] = Text(o)
  <2>1. Placed(lines, r)
    BY <1>1, RuledLines
  <2>2. lines[r].kind = "rule" /\ lines[r].of = o
    BY <1>1, Kinds
  <2>3. ~Plain(lines[r]) /\ lines[r] # Recital
    BY <2>2 DEF Plain, Recital, Line
  <2>4. PICK p \in Names \cup Titles :
          \/ lines[r] = Rule(p) /\ r + 1 \in DOMAIN lines /\ lines[r + 1] = Text(p)
          \/ lines[r] \in Above(p)
          \/ \E cut \in 0 .. 4 : lines[r] = First(cut, p) \/ lines[r] = Second(cut, p)
    BY <2>1, <2>3 DEF Placed
  <2>5. lines[r] = Rule(p) /\ r + 1 \in DOMAIN lines /\ lines[r + 1] = Text(p)
    BY <2>2, <2>4, Kinds
  <2> QED
    BY <2>2, <2>5, Kinds
<1>3. Min({k \in i .. Len(lines) : IsRule(lines, k)}) = r
  <2> DEFINE S == {k \in i .. Len(lines) : IsRule(lines, k)}
  <2>1. r \in S
    BY <1>1 DEF IsRule, Rule, Line
  <2>2. \A k \in S : r <= k
    BY <1>1
  <2>3. S \in SUBSET Int
    BY <1>1
  <2> HIDE DEF S
  <2>4. Min(S) = r
    BY <2>1, <2>2, <2>3, MinIs
  <2> QED
    BY <2>4 DEF S
<1>4. OwnerBelow(lines, r) = o
  <2> DEFINE top == Min({r + 3, Len(lines)})
             below == {k \in r + 1 .. top : ~IsRule(lines, k)}
  <2>1. top \in Int /\ r + 1 <= top
    <3> DEFINE T == {r + 3, Len(lines)}
    <3>1. T \in SUBSET Int /\ r + 3 \in T /\ Len(lines) \in T
      BY <1>1
    <3>2. \E m \in T : (\A y \in T : m <= y) /\ r + 1 <= m
      <4>1. r + 3 <= Len(lines) \/ Len(lines) <= r + 3
        BY <1>1
      <4>2. r + 1 <= r + 3 /\ r + 1 <= Len(lines) /\ r + 3 <= r + 3 /\ Len(lines) <= Len(lines)
        BY <1>1, <1>2
      <4> QED
        BY <4>1, <4>2
    <3> HIDE DEF T
    <3>3. Min(T) \in T /\ r + 1 <= Min(T)
      BY <3>1, <3>2, MinIs
    <3> QED
      BY <3>1, <3>3 DEF T
  <2> HIDE DEF top
  <2>2. r + 1 \in below
    <3>1. r + 1 \in r + 1 .. top
      BY <1>1, <2>1
    <3> QED
      BY <1>2, <3>1, Kinds DEF IsRule
  <2>3. Min(below) = r + 1
    <3>1. below \in SUBSET Int /\ \A y \in below : r + 1 <= y
      BY <1>1, <2>1
    <3> HIDE DEF below
    <3> QED
      BY <2>2, <3>1, MinIs
  <2>4. OwnerBelow(lines, r) = IF below = {} \/ lines[Min(below)].wants # << >> THEN Nobody ELSE lines[Min(below)].words
    BY DEF OwnerBelow, top
  <2> QED
    BY <1>2, <2>2, <2>3, <2>4 DEF Text, Line
<1> QED
  BY <1>1, <1>2, <1>3, <1>4 DEF Owner, IsRule, Rule, Line

\* What has blanks, and a clause, is above its own rule or is the rule.
LEMMA RuleOf ==
  ASSUME NEW lines, Ruled(lines), NEW i \in DOMAIN lines, lines[i].wants # << >>
  PROVE  \E r : NextRule(lines, i, r, lines[i].of)
<1>1. DOMAIN lines = 1 .. Len(lines) /\ Len(lines) \in Nat /\ Placed(lines, i)
  BY RuledLines
<1>2. ~Plain(lines[i]) /\ lines[i] # Recital
  BY DEF Plain, Recital, Line
<1>3. PICK o \in Names \cup Titles :
       \/ lines[i] = Rule(o) /\ i + 1 \in DOMAIN lines /\ lines[i + 1] = Text(o)
       \/ lines[i] \in Above(o) /\ i + 1 \in DOMAIN lines /\ lines[i + 1] = Rule(o)
       \/ \E cut \in 0 .. 4 :
            /\ lines[i] = First(cut, o) /\ i + 1 \in DOMAIN lines /\ lines[i + 1] = Second(cut, o)
            /\ i + 2 \in DOMAIN lines /\ lines[i + 2] = Rule(o)
       \/ \E cut \in 0 .. 4 :
            /\ i - 1 \in DOMAIN lines /\ lines[i - 1] = First(cut, o) /\ lines[i] = Second(cut, o)
            /\ i + 1 \in DOMAIN lines /\ lines[i + 1] = Rule(o)
  BY <1>1, <1>2 DEF Placed
<1>4. CASE lines[i] = Rule(o)
  <2>1. NextRule(lines, i, i, lines[i].of)
    BY <1>1, <1>4 DEF NextRule, Rule, Line
  <2> QED
    BY <2>1
<1>5. ASSUME i + 1 \in DOMAIN lines, lines[i + 1] = Rule(o), lines[i].kind # "rule", lines[i].of = o
      PROVE  NextRule(lines, i, i + 1, lines[i].of)
  BY <1>1, <1>5 DEF NextRule, IsRule
<1>6. CASE lines[i] \in Above(o) /\ i + 1 \in DOMAIN lines /\ lines[i + 1] = Rule(o)
  BY <1>5, <1>6 DEF Above, Line
<1>7. CASE \E cut \in 0 .. 4 :
            /\ i - 1 \in DOMAIN lines /\ lines[i - 1] = First(cut, o) /\ lines[i] = Second(cut, o)
            /\ i + 1 \in DOMAIN lines /\ lines[i + 1] = Rule(o)
  BY <1>5, <1>7 DEF Second, Line
<1>8. CASE \E cut \in 0 .. 4 :
            /\ lines[i] = First(cut, o) /\ i + 1 \in DOMAIN lines /\ lines[i + 1] = Second(cut, o)
            /\ i + 2 \in DOMAIN lines /\ lines[i + 2] = Rule(o)
  <2>1. /\ lines[i].kind # "rule" /\ lines[i].of = o /\ lines[i + 1].kind # "rule"
        /\ i + 2 \in DOMAIN lines /\ lines[i + 2] = Rule(o)
    BY <1>8 DEF First, Second, Line
  <2>2. NextRule(lines, i, i + 2, lines[i].of)
    <3>1. \A k \in i .. (i + 2) - 1 : k = i \/ k = i + 1
      BY <1>1
    <3> QED
      BY <1>1, <2>1, <3>1 DEF NextRule, IsRule
  <2> QED
    BY <2>2
<1> QED
  BY <1>3, <1>4, <1>6, <1>7, <1>8

\* What has blanks is read as the block's it is in.
LEMMA BlankOwner ==
  ASSUME NEW lines, Ruled(lines), NEW i \in DOMAIN lines, lines[i].wants # << >>
  PROVE  Owner(lines, i) = lines[i].of /\ lines[i].of \in Names \cup Titles
  BY RuleOf, OwnerIs

\* The blanks a clause takes in are above the same rule.
LEMMA ClauseOwner ==
  ASSUME NEW lines, Ruled(lines), NEW i \in DOMAIN lines, Clause(lines[i]) # << >>,
         NEW b \in Blanks(lines, i, Stop(lines, i))
  PROVE  /\ b[1] \in DOMAIN lines /\ b[2] \in DOMAIN lines[b[1]].wants /\ b = <<b[1], b[2]>>
         /\ Owner(lines, i) = lines[b[1]].of /\ lines[b[1]].of \in Names \cup Titles
<1>1. DOMAIN lines = 1 .. Len(lines) /\ Len(lines) \in Nat
  BY RuledLines
<1>2. PICK k \in i .. Stop(lines, i) - 1 : b \in {k} \X DOMAIN lines[k].wants
  BY DEF Blanks
<1>3. b[1] = k /\ b[2] \in DOMAIN lines[k].wants /\ b = <<b[1], b[2]>>
  BY <1>2
<1>4. Stop(lines, i) \in i + 1 .. Len(lines) + 1
      /\ \A j \in i + 1 .. Len(lines) + 1 : IsRule(lines, j) => Stop(lines, i) <= j
  BY <1>1, StopIn
<1>5. k \in DOMAIN lines /\ i <= k /\ k < Stop(lines, i)
  BY <1>1, <1>4
<1>6. lines[k].wants # << >>
  <2>1. DOMAIN << >> = {}
    OBVIOUS
  <2> QED
    BY <1>3, <2>1
<1>7. PICK r : NextRule(lines, k, r, lines[k].of)
  BY <1>5, <1>6, RuleOf
<1>8. ~IsRule(lines, i)
  BY DEF IsRule, Clause
<1>9. NextRule(lines, i, r, lines[k].of)
  <2>1. /\ r \in DOMAIN lines /\ k <= r /\ lines[r] = Rule(lines[k].of)
        /\ \A j \in k .. r - 1 : ~IsRule(lines, j)
    BY <1>7 DEF NextRule
  <2>2. \A j \in i .. r - 1 : j = i \/ (j \in i + 1 .. Len(lines) + 1 /\ j < Stop(lines, i)) \/ j \in k .. r - 1
    BY <1>1, <1>4, <1>5, <2>1
  <2>3. \A j \in i + 1 .. Len(lines) + 1 : j < Stop(lines, i) => ~IsRule(lines, j)
    <3>1. \A j \in i + 1 .. Len(lines) + 1 : Stop(lines, i) <= j => ~(j < Stop(lines, i))
      BY <1>1, <1>4
    <3> QED
      BY <1>4, <3>1
  <2>4. i <= r
    BY <1>1, <1>5, <2>1
  <2> QED
    BY <1>8, <2>1, <2>2, <2>3, <2>4 DEF NextRule
<1> QED
  BY <1>3, <1>5, <1>9, OwnerIs

\* Blanks are told by line and place.
LEMMA RowCount ==
  ASSUME NEW k, NEW n \in Nat
  PROVE  IsFiniteSet({k} \X (1 .. n)) /\ Cardinality({k} \X (1 .. n)) = n
<1>1. IsFiniteSet({k}) /\ Cardinality({k}) = 1
  BY FS_Singleton
<1>2. IsFiniteSet(1 .. n) /\ Cardinality(1 .. n) = n
  <2>1. IsFiniteSet(1 .. n) /\ Cardinality(1 .. n) = IF 1 > n THEN 0 ELSE n - 1 + 1
    BY FS_Interval
  <2> QED
    BY <2>1
<1> DEFINE S == {k}  T == 1 .. n
<1> HIDE DEF S, T
<1>3. Cardinality(S \X T) = Cardinality(S) * Cardinality(T) /\ IsFiniteSet(S \X T)
  BY <1>1, <1>2, FS_Product DEF S, T
<1>4. Cardinality(S \X T) = n
  BY <1>1, <1>2, <1>3 DEF S, T
<1> QED
  BY <1>3, <1>4 DEF S, T

\* The blanks of two lines are counted one line after the other.
LEMMA TwoRows ==
  ASSUME NEW i \in Nat, NEW m \in Nat, NEW n \in Nat
  PROVE  LET two == ({i} \X (1 .. m)) \cup ({i + 1} \X (1 .. n)) IN
         IsFiniteSet(two) /\ Cardinality(two) = m + n
<1> DEFINE A == {i} \X (1 .. m)  B == {i + 1} \X (1 .. n)
<1>1. IsFiniteSet(A) /\ Cardinality(A) = m /\ IsFiniteSet(B) /\ Cardinality(B) = n
  BY RowCount
<1>2. A \cap B = {}
  <2>1. i # i + 1
    OBVIOUS
  <2> QED
    BY <2>1
<1> HIDE DEF A, B
<1>3. IsFiniteSet(A \cup B) /\ Cardinality(A \cup B) = m + n - Cardinality({})
  BY <1>1, <1>2, FS_Union
<1>4. Cardinality({}) = 0
  BY FS_EmptySet
<1> QED
  BY <1>3, <1>4 DEF A, B

\* Over two lines, the blanks of the first come first.
LEMMA RankIs ==
  ASSUME NEW i \in Nat, NEW m \in Nat, NEW n \in Nat, NEW blanks,
         blanks = ({i} \X (1 .. m)) \cup ({i + 1} \X (1 .. n))
  PROVE  /\ \A q \in 1 .. m : Rank(blanks, <<i, q>>) = q
         /\ \A q \in 1 .. n : Rank(blanks, <<i + 1, q>>) = m + q
<1>1. ASSUME NEW q \in 1 .. m PROVE Rank(blanks, <<i, q>>) = q
  <2> DEFINE low == {c \in blanks : c[1] < i \/ (c[1] = i /\ c[2] <= q)}
  <2>1. low = {i} \X (1 .. q)
    <3>1. ASSUME NEW c \in low PROVE c \in {i} \X (1 .. q)
      <4>1. c \in {i} \X (1 .. m) \/ c \in {i + 1} \X (1 .. n)
        OBVIOUS
      <4>2. CASE c \in {i + 1} \X (1 .. n)
        BY <4>2
      <4>3. CASE c \in {i} \X (1 .. m)
        BY <4>3
      <4> QED
        BY <4>1, <4>2, <4>3
    <3>2. ASSUME NEW c \in {i} \X (1 .. q) PROVE c \in low
      <4>1. c \in {i} \X (1 .. m) /\ c[1] = i /\ c[2] <= q
        OBVIOUS
      <4> QED
        BY <4>1
    <3> QED
      BY <3>1, <3>2
  <2>2. Rank(blanks, <<i, q>>) = Cardinality(low)
    BY DEF Rank
  <2>3. q \in Nat
    OBVIOUS
  <2>4. Cardinality({i} \X (1 .. q)) = q
    BY <2>3, RowCount
  <2> HIDE DEF low
  <2> QED
    BY <2>1, <2>2, <2>4
<1>2. ASSUME NEW q \in 1 .. n PROVE Rank(blanks, <<i + 1, q>>) = m + q
  <2> DEFINE low == {c \in blanks : c[1] < i + 1 \/ (c[1] = i + 1 /\ c[2] <= q)}
  <2>1. low = ({i} \X (1 .. m)) \cup ({i + 1} \X (1 .. q))
    <3>1. ASSUME NEW c \in low PROVE c \in ({i} \X (1 .. m)) \cup ({i + 1} \X (1 .. q))
      <4>1. c \in {i} \X (1 .. m) \/ c \in {i + 1} \X (1 .. n)
        OBVIOUS
      <4>2. CASE c \in {i + 1} \X (1 .. n)
        BY <4>2
      <4>3. CASE c \in {i} \X (1 .. m)
        BY <4>3
      <4> QED
        BY <4>1, <4>2, <4>3
    <3>2. ASSUME NEW c \in {i} \X (1 .. m) PROVE c \in low
      OBVIOUS
    <3>3. ASSUME NEW c \in {i + 1} \X (1 .. q) PROVE c \in low
      <4>1. c \in {i + 1} \X (1 .. n) /\ c[1] = i + 1 /\ c[2] <= q
        OBVIOUS
      <4> QED
        BY <4>1
    <3> QED
      BY <3>1, <3>2, <3>3
  <2>2. Rank(blanks, <<i + 1, q>>) = Cardinality(low)
    BY DEF Rank
  <2>3. q \in Nat
    OBVIOUS
  <2>4. Cardinality(({i} \X (1 .. m)) \cup ({i + 1} \X (1 .. q))) = m + q
    BY <2>3, TwoRows
  <2> HIDE DEF low
  <2> QED
    BY <2>1, <2>2, <2>4
<1> QED
  BY <1>1, <1>2

\* The four blanks of a testimonium, split after cut of them.
LEMMA WhereofIs ==
  ASSUME NEW cut \in 0 .. 4
  PROVE  /\ Len(Start(cut)) = cut /\ DOMAIN Start(cut) = 1 .. cut
         /\ \A q \in 1 .. cut : Start(cut)[q] = Whereof[q]
         /\ DOMAIN Rest(cut) = 1 .. 4 - cut
         /\ \A q \in 1 .. 4 - cut : Rest(cut)[q] = Whereof[cut + q]
  BY DEF Whereof, Start, Rest

\* No line of the page recites the clause of a signature in prose.
NoRecital(lines) == \A i \in DOMAIN lines : lines[i] # Recital

\* What discover can tell of its two lines.
LEMMA TwoLines ==
  ASSUME NEW o, NEW cut
  PROVE  /\ First(cut, o).kind = "whereof" /\ First(cut, o).wants = Start(cut)
         /\ Second(cut, o).kind = "other" /\ Second(cut, o).wants = Rest(cut)
  BY DEF First, Second, Line

\* A clause of two lines begins here.
Long(line) == \E o : \E cut \in 0 .. 3 : line = First(cut, o)

\* A declaration's clause is one line, and the rule is below it.
LEMMA ExecutedAt ==
  ASSUME NEW lines, Ruled(lines), NEW i \in DOMAIN lines, lines[i].kind = "executed"
  PROVE  /\ i + 1 \in DOMAIN lines /\ IsRule(lines, i + 1)
         /\ lines[i].wants \in {<< >>, <<"ordinal", "month">>}
<1>1. Placed(lines, i)
  BY RuledLines
<1>2. ~Plain(lines[i]) /\ lines[i] # Recital
  BY DEF Plain, Recital, Line
<1>3. PICK o \in Names \cup Titles : lines[i] \in Above(o) /\ i + 1 \in DOMAIN lines /\ lines[i + 1] = Rule(o)
  BY <1>1, <1>2, Kinds DEF Placed
<1>4. IsRule(lines, i + 1)
  BY <1>3, Kinds DEF IsRule
<1>5. lines[i].wants \in {<< >>, <<"ordinal", "month">>}
  BY <1>3 DEF Above, Line
<1> QED
  BY <1>3, <1>4, <1>5

\* A testimonium's clause is two lines, and the rule is below them.
LEMMA WhereofAt ==
  ASSUME NEW lines, Ruled(lines), NoRecital(lines), NEW i \in DOMAIN lines, lines[i].kind = "whereof"
  PROVE  \E o \in Names \cup Titles : \E cut \in 0 .. 4 :
            /\ lines[i] = First(cut, o) /\ i + 1 \in DOMAIN lines /\ lines[i + 1] = Second(cut, o)
            /\ i + 2 \in DOMAIN lines /\ lines[i + 2] = Rule(o)
<1>1. Placed(lines, i)
  BY RuledLines
<1>2. ~Plain(lines[i]) /\ lines[i] # Recital
  BY DEF Plain, NoRecital
<1>3. PICK o \in Names \cup Titles :
       \/ lines[i] = Rule(o) \/ lines[i] \in Above(o)
       \/ \E cut \in 0 .. 4 :
            /\ lines[i] = First(cut, o) /\ i + 1 \in DOMAIN lines /\ lines[i + 1] = Second(cut, o)
            /\ i + 2 \in DOMAIN lines /\ lines[i + 2] = Rule(o)
       \/ \E cut \in 0 .. 4 : lines[i] = Second(cut, o)
  BY <1>1, <1>2 DEF Placed
<1> QED
  BY <1>3, Kinds

\* Where a clause ends, and its blanks.
LEMMA ClauseIs ==
  ASSUME NEW lines, Ruled(lines), NoRecital(lines), NEW i \in DOMAIN lines, Clause(lines[i]) # << >>
  PROVE  \E m, n \in 0 .. 4 :
           /\ Blanks(lines, i, Stop(lines, i)) = ({i} \X (1 .. m)) \cup ({i + 1} \X (1 .. n))
           /\ DOMAIN lines[i].wants = 1 .. m /\ \A q \in 1 .. m : Clause(lines[i])[q] = lines[i].wants[q]
           /\ n # 0 => /\ i + 1 \in DOMAIN lines /\ DOMAIN lines[i + 1].wants = 1 .. n
                       /\ \A q \in 1 .. n : Clause(lines[i])[m + q] = lines[i + 1].wants[q]
           /\ m + n <= Len(Clause(lines[i]))
           /\ Stop(lines, i) = IF Long(lines[i]) THEN i + 2 ELSE i + 1
           /\ Long(lines[i]) => DOMAIN lines[i + 1].wants = 1 .. n
<1>1. DOMAIN lines = 1 .. Len(lines) /\ Len(lines) \in Nat /\ i \in Nat
  BY RuledLines
<1>2. /\ Stop(lines, i) \in i + 1 .. Len(lines) + 1
      /\ \A j \in i + 1 .. Len(lines) + 1 :
           \/ j = Len(lines) + 1
           \/ IsRule(lines, j)
           \/ Cardinality(Blanks(lines, i, j)) >= Len(Clause(lines[i]))
           => Stop(lines, i) <= j
      /\ \/ Stop(lines, i) = Len(lines) + 1
         \/ IsRule(lines, Stop(lines, i))
         \/ Cardinality(Blanks(lines, i, Stop(lines, i))) >= Len(Clause(lines[i]))
  BY <1>1, StopIn
<1>3. Blanks(lines, i, i + 1) = {i} \X DOMAIN lines[i].wants
  <2>1. i .. (i + 1) - 1 = {i}
    BY <1>1
  <2> QED
    BY <2>1 DEF Blanks
<1>4. Blanks(lines, i, i + 2) = ({i} \X DOMAIN lines[i].wants) \cup ({i + 1} \X DOMAIN lines[i + 1].wants)
  <2>1. i .. (i + 2) - 1 = {i, i + 1}
    BY <1>1
  <2> QED
    BY <2>1 DEF Blanks
<1>5. \A n \in Nat : n = 0 => 1 .. n = {}
  OBVIOUS
<1>6. lines[i].kind \in {"executed", "whereof"}
  BY DEF Clause
<1>7. CASE lines[i].kind = "executed"
  <2>1. /\ i + 1 \in DOMAIN lines /\ IsRule(lines, i + 1)
        /\ lines[i].wants \in {<< >>, <<"ordinal", "month">>}
    BY <1>7, ExecutedAt
  <2>2. Stop(lines, i) = i + 1
    BY <1>1, <1>2, <2>1
  <2>3. ~Long(lines[i])
    BY <1>7, TwoLines DEF Long
  <2>4. Clause(lines[i]) = <<"ordinal", "month">>
    BY <1>7 DEF Clause
  <2>5. \E m \in {0, 2} : DOMAIN lines[i].wants = 1 .. m /\ \A q \in 1 .. m : Clause(lines[i])[q] = lines[i].wants[q]
    BY <2>1, <2>4
  <2>6. PICK m \in {0, 2} : DOMAIN lines[i].wants = 1 .. m /\ \A q \in 1 .. m : Clause(lines[i])[q] = lines[i].wants[q]
    BY <2>5
  <2>7. Blanks(lines, i, Stop(lines, i)) = ({i} \X (1 .. m)) \cup ({i + 1} \X (1 .. 0))
    BY <1>3, <1>5, <2>2, <2>6
  <2>8. m \in 0 .. 4 /\ 0 \in 0 .. 4 /\ m + 0 <= Len(Clause(lines[i]))
    BY <2>4
  <2> QED
    BY <2>2, <2>3, <2>6, <2>7, <2>8
<1>8. CASE lines[i].kind = "whereof"
  <2>1. PICK o \in Names \cup Titles, cut \in 0 .. 4 :
            /\ lines[i] = First(cut, o) /\ i + 1 \in DOMAIN lines /\ lines[i + 1] = Second(cut, o)
            /\ i + 2 \in DOMAIN lines /\ lines[i + 2] = Rule(o)
    BY <1>8, WhereofAt
  <2>2. Clause(lines[i]) = Whereof /\ Len(Whereof) = 4
    BY <1>8 DEF Clause, Whereof
  <2> DEFINE n == 4 - cut
  <2>3. /\ DOMAIN lines[i].wants = 1 .. cut /\ \A q \in 1 .. cut : Clause(lines[i])[q] = lines[i].wants[q]
        /\ DOMAIN lines[i + 1].wants = 1 .. n
        /\ \A q \in 1 .. n : Clause(lines[i])[cut + q] = lines[i + 1].wants[q]
    <3>1. /\ lines[i].wants = Start(cut) /\ lines[i + 1].wants = Rest(cut)
      BY <2>1, TwoLines
    <3> QED
      BY <2>2, <3>1, WhereofIs
  <2>4. ~IsRule(lines, i + 1) /\ IsRule(lines, i + 2)
    BY <2>1, Kinds DEF IsRule
  <2>5. Long(lines[i]) <=> cut # 4
    <3>1. ASSUME NEW p, NEW c \in 0 .. 3, lines[i] = First(c, p) PROVE cut = c
      <4>1. lines[i].wants = Start(c)
        BY <3>1, TwoLines
      <4>3. c \in 0 .. 4
        OBVIOUS
      <4>2. 1 .. c = 1 .. cut
        BY <2>3, <4>1, <4>3, WhereofIs
      <4> QED
        BY <4>2, <4>3
    <3>2. Long(lines[i]) => cut \in 0 .. 3
      BY <3>1 DEF Long
    <3>3. cut # 4 => Long(lines[i])
      BY <2>1 DEF Long
    <3> QED
      BY <3>2, <3>3
  <2>6. Stop(lines, i) = IF Long(lines[i]) THEN i + 2 ELSE i + 1
    <3>1. Cardinality(Blanks(lines, i, i + 1)) = cut
      <4>0. cut \in Nat
        OBVIOUS
      <4>1. Cardinality({i} \X (1 .. cut)) = cut
        BY <4>0, RowCount
      <4> QED
        BY <1>3, <2>3, <4>1
    <3>2. i + 1 \in i + 1 .. Len(lines) + 1 /\ i + 2 \in i + 1 .. Len(lines) + 1 /\ i + 1 # Len(lines) + 1
      BY <1>1, <2>1
    <3>3. CASE cut = 4
      BY <1>1, <1>2, <2>2, <2>5, <3>1, <3>2, <3>3
    <3>4. CASE cut # 4
      <4>1. Stop(lines, i) <= i + 2
        BY <1>2, <2>4, <3>2
      <4>2. Stop(lines, i) # i + 1
        BY <1>2, <2>2, <2>4, <3>1, <3>2, <3>4
      <4> QED
        BY <1>1, <1>2, <2>5, <3>4, <4>1, <4>2
    <3> QED
      BY <3>3, <3>4
  <2>7. n \in 0 .. 4 /\ cut + n = 4 /\ (cut = 4 => n = 0)
    OBVIOUS
  <2>8. Blanks(lines, i, Stop(lines, i)) = ({i} \X (1 .. cut)) \cup ({i + 1} \X (1 .. n))
    BY <1>3, <1>4, <1>5, <2>3, <2>5, <2>6, <2>7
  <2> HIDE DEF n
  <2> QED
    <3>1. cut + n <= Len(Clause(lines[i])) /\ i + 1 \in DOMAIN lines
      BY <2>1, <2>2, <2>7
    <3> QED
      BY <2>3, <2>6, <2>7, <2>8, <3>1
<1> QED
  BY <1>6, <1>7, <1>8

\* The scan stands at a line, and then where it goes on from there.
LEMMA ScanOn ==
  ASSUME NEW lines, Ruled(lines), NEW i \in DOMAIN lines
  PROVE  /\ i \in Scan(lines)[i] /\ Scan(lines)[i] = {i} \cup Scan(lines)[After(lines, i)]
<1>1. DOMAIN lines = 1 .. Len(lines) /\ Len(lines) \in Nat
  BY RuledLines
<1>2. i \in 1 .. Len(lines) + 1 /\ ~(i > Len(lines))
  BY <1>1
<1> DEFINE f == Scan(lines)
<1>3. f = [k \in 1 .. Len(lines) + 1 |-> IF k > Len(lines) THEN {} ELSE {k} \cup f[After(lines, k)]]
  BY <1>1, ScanIs
<1> HIDE DEF f
<1>4. f[i] = {i} \cup f[After(lines, i)]
  BY <1>2, <1>3
<1> QED
  BY <1>4 DEF f

\* Only lines of the page are visited.
LEMMA VisitedIn ==
  ASSUME NEW lines, DOMAIN lines = 1 .. Len(lines), Len(lines) \in Nat
  PROVE  Visited(lines) \subseteq DOMAIN lines
<1> DEFINE f == Scan(lines)  L == Len(lines)
<1>1. f = [k \in 1 .. L + 1 |-> IF k > L THEN {} ELSE {k} \cup f[After(lines, k)]]
  BY ScanIs
<1>2. \A i \in 1 .. L : After(lines, i) \in i + 1 .. L + 1
  BY StopIn DEF After
<1> HIDE DEF f
<1> DEFINE D == {n \in 0 .. L : ~(f[L + 1 - n] \subseteq 1 .. L)}
<1>3. D = {}
  <2> SUFFICES ASSUME D # {} PROVE FALSE
    OBVIOUS
  <2>1. PICK n \in D : \A m \in D : n <= m
    <3>1. D \in SUBSET Nat
      OBVIOUS
    <3> HIDE DEF D
    <3> QED
      BY <3>1, LeastIn
  <2> DEFINE k == L + 1 - n
  <2>2. k \in 1 .. L + 1 /\ ~(f[k] \subseteq 1 .. L) /\ n \in Nat
    OBVIOUS
  <2>3. k # L + 1
    BY <1>1, <2>2
  <2>4. k \in 1 .. L
    BY <2>2, <2>3
  <2> DEFINE a == After(lines, k)
  <2>5. a \in k + 1 .. L + 1 /\ f[k] = {k} \cup f[a]
    BY <1>1, <1>2, <2>4
  <2>6. ~(f[a] \subseteq 1 .. L)
    BY <2>2, <2>4, <2>5
  <2> HIDE DEF a
  <2>7. L + 1 - a \in 0 .. L /\ L + 1 - (L + 1 - a) = a /\ L + 1 - a < n
    BY <2>4, <2>5
  <2>8. L + 1 - a \in D
    BY <2>6, <2>7
  <2> HIDE DEF k, D
  <2> QED
    BY <2>1, <2>2, <2>7, <2>8
<1>4. f[L + 1 - L] \subseteq 1 .. L
  BY <1>3
<1>5. L + 1 - L = 1
  OBVIOUS
<1> QED
  BY <1>4, <1>5 DEF Visited, f

\* What the clause before a line took in.
Passed(lines, i) == i - 1 \in DOMAIN lines /\ Long(lines[i - 1])

\* The first line of a testimonium is a clause.
LEMMA LongIs ==
  ASSUME NEW line, Long(line)
  PROVE  line.kind = "whereof" /\ Clause(line) # << >>
<1>1. line.kind = "whereof"
  BY TwoLines DEF Long
<1> QED
  BY <1>1 DEF Clause

\* Every other line is visited.
LEMMA AllVisited ==
  ASSUME NEW lines, Ruled(lines), NoRecital(lines), NEW i \in DOMAIN lines, ~Passed(lines, i)
  PROVE  i \in Visited(lines)
<1>1. DOMAIN lines = 1 .. Len(lines) /\ Len(lines) \in Nat
  BY RuledLines
<1> DEFINE f == Scan(lines)
           S == {k \in 1 .. Len(lines) : ~Passed(lines, k) /\ ~(f[k] \subseteq f[1])}
<1>2. \A k \in DOMAIN lines : k \in f[k] /\ f[k] = {k} \cup f[After(lines, k)]
  BY ScanOn
<1>3. \A k \in DOMAIN lines : After(lines, k) = IF Long(lines[k]) THEN k + 2 ELSE k + 1
  <2> SUFFICES ASSUME NEW k \in DOMAIN lines
               PROVE  After(lines, k) = IF Long(lines[k]) THEN k + 2 ELSE k + 1
    OBVIOUS
  <2>1. CASE Clause(lines[k]) # << >>
    BY <2>1, ClauseIs DEF After
  <2>2. CASE Clause(lines[k]) = << >>
    BY <2>2, LongIs DEF After
  <2> QED
    BY <2>1, <2>2
<1> HIDE DEF f
<1>4. S = {}
  <2> SUFFICES ASSUME S # {} PROVE FALSE
    OBVIOUS
  <2>1. PICK x \in S : \A y \in S : x <= y
    <3>1. S \in SUBSET Nat
      OBVIOUS
    <3> HIDE DEF S
    <3> QED
      BY <3>1, LeastIn
  <2>2. x \in 1 .. Len(lines) /\ ~Passed(lines, x) /\ ~(f[x] \subseteq f[1]) /\ x # 1
    OBVIOUS
  <2>3. ~ (x - 1 \in S) /\ ~ (x - 2 \in S)
    <3>1. x - 1 < x /\ x - 2 < x /\ ~(x <= x - 1) /\ ~(x <= x - 2)
      BY <2>2
    <3> HIDE DEF S
    <3> QED
      BY <2>1, <3>1
  <2>4. x - 1 \in DOMAIN lines /\ ~Long(lines[x - 1])
    <3>1. x - 1 \in DOMAIN lines
      BY <1>1, <2>2
    <3> QED
      BY <2>2, <3>1 DEF Passed
  <2>5. f[x - 1] = {x - 1} \cup f[x]
    <3>1. After(lines, x - 1) = x
      BY <1>1, <1>3, <2>2, <2>4
    <3> QED
      BY <1>2, <2>4, <3>1
  <2>6. CASE ~Passed(lines, x - 1)
    <3>1. f[x - 1] \subseteq f[1]
      BY <1>1, <2>3, <2>4, <2>6
    <3> QED
      BY <2>2, <2>5, <3>1
  <2>7. CASE Passed(lines, x - 1)
    <3>1. x - 2 \in DOMAIN lines /\ Long(lines[x - 2]) /\ (x - 1) - 1 = x - 2 /\ (x - 2) + 2 = x
      <4>1. (x - 1) - 1 = x - 2 /\ (x - 2) + 2 = x
        BY <2>2
      <4> QED
        BY <2>7, <4>1 DEF Passed
    <3>2. ~Passed(lines, x - 2)
      <4> SUFFICES ASSUME Passed(lines, x - 2) PROVE FALSE
        OBVIOUS
      <4> DEFINE y == (x - 2) - 1
      <4>1. y \in DOMAIN lines /\ Long(lines[y]) /\ y + 1 = x - 2
        BY <2>2 DEF Passed
      <4> HIDE DEF y
      <4>2. lines[y].kind = "whereof"
        BY <4>1, LongIs
      <4>3. lines[y + 1].kind = "other"
        BY <4>1, <4>2, WhereofAt, TwoLines
      <4> QED
        BY <3>1, <4>1, <4>3, LongIs
    <3>3. f[x - 2] \subseteq f[1]
      BY <1>1, <2>3, <3>1, <3>2
    <3>4. f[x - 2] = {x - 2} \cup f[x]
      BY <1>2, <1>3, <3>1
    <3> QED
      BY <2>2, <3>3, <3>4
  <2> QED
    BY <2>6, <2>7
<1>5. f[i] \subseteq f[1]
  BY <1>1, <1>4
<1> QED
  BY <1>2, <1>5 DEF Visited, f

\* No line has more than four blanks, and a clause has as many roles.
LEMMA FewBlanks ==
  ASSUME NEW lines, NEW built \in Builds, Printed(lines, built), NEW i \in DOMAIN lines
  PROVE  DOMAIN lines[i].wants \subseteq 1 .. 4
<1>1. PICK b, s, j : b \in SignBlocks /\ Within(lines, built, i, b, s, j)
  BY InBlock
<1>2. b.style \in Styles /\ b.cut \in 0 .. 4
  BY <1>1 DEF SignBlocks
<1>3. Blank(<<"date">>, built) \in {<<"date">>, << >>}
      /\ Blank(<<"ordinal", "month">>, built) \in {<<"ordinal", "month">>, << >>}
  BY DEF Blank
<1>4. \A kind, wants, words, of : Line(kind, wants, words, of).wants = wants
  BY DEF Line
<1>5. /\ \A w : Text(w).wants = << >> /\ Rule(w).wants = <<"mark">> /\ SignatureLine(w, built).wants \in {<< >>, <<"mark">>}
      /\ \A wants, of : Dated(wants, of).wants = wants
  BY DEF Text, Rule, Dated, SignatureLine, Line
<1> DEFINE few == {<< >>, <<"mark">>, <<"date">>, <<"ordinal", "month">>, Start(b.cut), Rest(b.cut)}
<1>6. \A w \in few : DOMAIN w \subseteq 1 .. 4
  BY <1>2, WhereofIs
<1> HIDE DEF few
<1>7. << >> \in few /\ <<"mark">> \in few /\ <<"date">> \in few /\ <<"ordinal", "month">> \in few
      /\ Start(b.cut) \in few /\ Rest(b.cut) \in few
  BY DEF few
<1> DEFINE text == Emit(b, built)
<1>8. j \in DOMAIN text /\ lines[i] = text[j]
  BY <1>1 DEF Within
<1>9. \A k \in DOMAIN text : text[k].wants \in few
  <2>1. CASE b.style = "dated"
    BY <1>3, <1>5, <1>7, <2>1 DEF Emit
  <2>2. CASE b.style = "decl"
    BY <1>3, <1>4, <1>5, <1>7, <2>2 DEF Emit
  <2>3. CASE b.style = "whereof"
    <3>1. text = << First(b.cut, b.name), Second(b.cut, b.name), SignatureLine(b.name, built), Text(b.name) >>
      BY <2>3 DEF Emit, First, Second, Start, Rest, Whereof
    <3> HIDE DEF text
    <3> QED
      BY <1>5, <1>7, <3>1, TwoLines
  <2>4. CASE b.style = "letter"
    BY <1>5, <1>7, <2>4 DEF Emit
  <2>5. CASE b.style = "judge"
    BY <1>5, <1>7, <2>5 DEF Emit
  <2>6. CASE b.style = "prose"
    BY <1>5, <1>7, <2>6 DEF Emit
  <2>7. CASE b.style = "recital"
    BY <1>4, <1>7, <2>7 DEF Emit
  <2> QED
    BY <1>2, <2>1, <2>2, <2>3, <2>4, <2>5, <2>6, <2>7 DEF Styles
<1> QED
  BY <1>6, <1>8, <1>9

\* A clause gives a blank the role at the blank's rank, which is one of its roles.
LEMMA RankIn ==
  ASSUME NEW lines, NEW built \in Builds, Printed(lines, built), NEW i \in DOMAIN lines,
         NEW b \in Blanks(lines, i, Stop(lines, i)),
         Rank(Blanks(lines, i, Stop(lines, i)), b) <= Len(Clause(lines[i]))
  PROVE  Rank(Blanks(lines, i, Stop(lines, i)), b) \in 1 .. Len(Clause(lines[i]))
<1>1. DOMAIN lines = 1 .. Len(lines) /\ Len(lines) \in Nat
  BY DEF Printed
<1>2. Stop(lines, i) \in i + 1 .. Len(lines) + 1
  BY <1>1, StopIn
<1> DEFINE blanks == Blanks(lines, i, Stop(lines, i))
           low == {c \in blanks : c[1] < b[1] \/ (c[1] = b[1] /\ c[2] <= b[2])}
           all == (1 .. Len(lines)) \X (1 .. 4)
<1>3. blanks \subseteq all
  <2>1. \A k \in i .. Stop(lines, i) - 1 : k \in DOMAIN lines
    BY <1>1, <1>2
  <2>2. \A k \in i .. Stop(lines, i) - 1 : {k} \X DOMAIN lines[k].wants \subseteq all
    BY <1>1, <2>1, FewBlanks
  <2> QED
    BY <2>2 DEF Blanks
<1>4. IsFiniteSet(all)
  <2>1. \A n \in Int : IsFiniteSet(1 .. n)
    BY FS_Interval
  <2>2. IsFiniteSet(1 .. Len(lines)) /\ IsFiniteSet(1 .. 4)
    <3>1. Len(lines) \in Int /\ 4 \in Int
      BY <1>1
    <3> QED
      BY Zenon, <2>1, <3>1
  <2> QED
    BY <2>2, FS_Product
<1> HIDE DEF all
<1>5. b \in low
  <2>1. b \in all /\ b \in blanks
    BY <1>3
  <2>2. b[2] <= b[2]
    BY <2>1 DEF all
  <2> QED
    BY <2>1, <2>2
<1>6. IsFiniteSet(low) /\ Cardinality(low) \in Nat
  <2>1. low \in SUBSET all
    BY <1>3
  <2> HIDE DEF low
  <2> QED
    BY <1>4, <2>1, FS_Subset, FS_CardinalityType
<1>7. Cardinality(low) # 0
  <2> HIDE DEF low
  <2> QED
    BY <1>5, <1>6, FS_EmptySet
<1>8. Rank(blanks, b) = Cardinality(low)
  BY DEF Rank
<1>9. Len(Clause(lines[i])) \in Nat
  BY DEF Clause
<1> QED
  BY <1>6, <1>7, <1>8, <1>9

\* Where the slots of a page come from.
LEMMA SlotFrom ==
  ASSUME NEW lines, NEW s
  PROVE  s \in PageSlots(lines) <=>
    \E i \in Visited(lines) :
      \/ IsRule(lines, i) /\ s = Slot(i, 1, "mark", Owner(lines, i))
      \/ /\ ~IsRule(lines, i) /\ Clause(lines[i]) # << >>
         /\ \E b \in Blanks(lines, i, Stop(lines, i)) :
              /\ Rank(Blanks(lines, i, Stop(lines, i)), b) <= Len(Clause(lines[i]))
              /\ s = Slot(b[1], b[2], Clause(lines[i])[Rank(Blanks(lines, i, Stop(lines, i)), b)], Owner(lines, i))
      \/ /\ ~IsRule(lines, i) /\ Clause(lines[i]) = << >> /\ lines[i].kind = "dated"
         /\ s = Slot(i, 1, "date", Owner(lines, i))
<1> DEFINE rank(i, b) == Rank(Blanks(lines, i, Stop(lines, i)), b)
           roles(i) == Clause(lines[i])
           spots(i) == {Slot(b[1], b[2], roles(i)[rank(i, b)], Owner(lines, i)) :
                          b \in {c \in Blanks(lines, i, Stop(lines, i)) : rank(i, c) <= Len(roles(i))}}
           Per(i) == CASE IsRule(lines, i) -> {Slot(i, 1, "mark", Owner(lines, i))}
                       [] roles(i) # << >> -> spots(i)
                       [] lines[i].kind = "dated" -> {Slot(i, 1, "date", Owner(lines, i))}
                       [] OTHER -> {}
<1>1. PageSlots(lines) = UNION {Per(i) : i \in Visited(lines)}
  BY Zenon DEF PageSlots
<1>2. ASSUME NEW i
      PROVE  s \in Per(i) <=>
               \/ IsRule(lines, i) /\ s = Slot(i, 1, "mark", Owner(lines, i))
               \/ ~IsRule(lines, i) /\ roles(i) # << >> /\ s \in spots(i)
               \/ /\ ~IsRule(lines, i) /\ roles(i) = << >> /\ lines[i].kind = "dated"
                  /\ s = Slot(i, 1, "date", Owner(lines, i))
  <2>1. /\ lines[i].kind = "rule" => roles(i) = << >>
        /\ lines[i].kind = "dated" => roles(i) = << >>
    BY DEF Clause
  <2> HIDE DEF spots, roles
  <2>2. CASE lines[i].kind = "rule"
    BY <2>1, <2>2 DEF IsRule
  <2>3. CASE lines[i].kind = "dated"
    BY <2>1, <2>3 DEF IsRule
  <2>4. CASE lines[i].kind \notin {"rule", "dated"} /\ roles(i) # << >>
    BY <2>4 DEF IsRule
  <2>5. CASE lines[i].kind \notin {"rule", "dated"} /\ roles(i) = << >>
    BY <2>5 DEF IsRule
  <2> QED
    BY <2>2, <2>3, <2>4, <2>5
<1>3. ASSUME NEW i
      PROVE  s \in spots(i) <=>
               \E b \in Blanks(lines, i, Stop(lines, i)) :
                 rank(i, b) <= Len(roles(i)) /\ s = Slot(b[1], b[2], roles(i)[rank(i, b)], Owner(lines, i))
  OBVIOUS
<1>4. s \in PageSlots(lines) <=> \E i \in Visited(lines) : s \in Per(i)
  <2> HIDE DEF Per
  <2> QED
    BY <1>1
<1> HIDE DEF Per, spots
<1> QED
  BY <1>2, <1>3, <1>4

\* Whose a slot is: on a page with rules, the name's whose block its line is in.
LEMMA SlotPlace ==
  ASSUME NEW lines, Ruled(lines), NEW s \in PageSlots(lines)
  PROVE  /\ s.line \in DOMAIN lines /\ s.pos \in DOMAIN lines[s.line].wants
         /\ s.owner = lines[s.line].of /\ s.owner \in Names \cup Titles
<1>1. DOMAIN lines = 1 .. Len(lines) /\ Len(lines) \in Nat
  BY RuledLines
<1>2. PICK i \in Visited(lines) :
      \/ IsRule(lines, i) /\ s = Slot(i, 1, "mark", Owner(lines, i))
      \/ /\ ~IsRule(lines, i) /\ Clause(lines[i]) # << >>
         /\ \E b \in Blanks(lines, i, Stop(lines, i)) :
              s = Slot(b[1], b[2], Clause(lines[i])[Rank(Blanks(lines, i, Stop(lines, i)), b)], Owner(lines, i))
      \/ lines[i].kind = "dated" /\ s = Slot(i, 1, "date", Owner(lines, i))
  BY SlotFrom
<1>3. i \in DOMAIN lines
  BY <1>1, VisitedIn
<1>4. \A k, pos, role, owner : LET t == Slot(k, pos, role, owner) IN t.line = k /\ t.pos = pos /\ t.owner = owner
  BY DEF Slot
<1>5. ASSUME NEW role, s = Slot(i, 1, role, Owner(lines, i)), lines[i].kind \in {"rule", "dated"}
      PROVE  /\ s.line \in DOMAIN lines /\ s.pos \in DOMAIN lines[s.line].wants
             /\ s.owner = lines[s.line].of /\ s.owner \in Names \cup Titles
  <2>1. 1 \in DOMAIN lines[i].wants
    <3>1. Placed(lines, i)
      BY <1>3, RuledLines
    <3>2. ~Plain(lines[i]) /\ lines[i] # Recital
      BY <1>5 DEF Plain, Recital, Line
    <3>3. PICK o \in Names \cup Titles : \/ lines[i] = Rule(o) \/ lines[i] \in Above(o)
                                         \/ \E cut : lines[i] = First(cut, o) \/ lines[i] = Second(cut, o)
      BY <3>1, <3>2 DEF Placed
    <3>4. lines[i].wants \in {<<"mark">>, <<"date">>}
      <4>1. CASE lines[i] = Rule(o)
        BY <4>1 DEF Rule, Line
      <4>2. CASE lines[i] \in Above(o)
        BY <1>5, <4>2 DEF Above, Line
      <4>3. CASE \E cut : lines[i] = First(cut, o) \/ lines[i] = Second(cut, o)
        BY <1>5, <4>3, TwoLines
      <4> QED
        BY <3>3, <4>1, <4>2, <4>3
    <3> QED
      BY <3>4
  <2>2. lines[i].wants # << >>
    BY <2>1
  <2>3. s.line = i /\ s.pos = 1 /\ s.owner = Owner(lines, i)
    BY <1>4, <1>5
  <2> QED
    BY <1>3, <2>1, <2>2, <2>3, BlankOwner
<1>6. ASSUME Clause(lines[i]) # << >>, NEW role, NEW b \in Blanks(lines, i, Stop(lines, i)),
             s = Slot(b[1], b[2], role, Owner(lines, i))
      PROVE  /\ s.line \in DOMAIN lines /\ s.pos \in DOMAIN lines[s.line].wants
             /\ s.owner = lines[s.line].of /\ s.owner \in Names \cup Titles
  <2>1. s.line = b[1] /\ s.pos = b[2] /\ s.owner = Owner(lines, i)
    BY <1>4, <1>6
  <2> QED
    BY <1>3, <1>6, <2>1, ClauseOwner
<1> QED
  BY <1>2, <1>5, <1>6 DEF IsRule

\* On a page without rules nobody is named, and nothing is to be marked.
LEMMA SlotNobody ==
  ASSUME NEW lines, Printed(lines, "signed"), NEW s \in PageSlots(lines)
  PROVE  s.owner = Nobody /\ s.role # "mark"
<1>1. DOMAIN lines = 1 .. Len(lines) /\ Len(lines) \in Nat
  BY DEF Printed
<1>2. PICK i \in Visited(lines) :
      \/ IsRule(lines, i) /\ s = Slot(i, 1, "mark", Owner(lines, i))
      \/ /\ Clause(lines[i]) # << >>
         /\ \E b \in Blanks(lines, i, Stop(lines, i)) :
              /\ Rank(Blanks(lines, i, Stop(lines, i)), b) <= Len(Clause(lines[i]))
              /\ s = Slot(b[1], b[2], Clause(lines[i])[Rank(Blanks(lines, i, Stop(lines, i)), b)], Owner(lines, i))
      \/ lines[i].kind = "dated" /\ s = Slot(i, 1, "date", Owner(lines, i))
  BY SlotFrom
<1>3. i \in DOMAIN lines
  BY <1>1, VisitedIn
<1>4. Owner(lines, i) = Nobody
  <2>1. {r \in i .. Len(lines) : IsRule(lines, r)} = {}
    <3>1. \A r \in i .. Len(lines) : r \in DOMAIN lines
      BY <1>1, <1>3
    <3> QED
      BY <3>1, NoRules
  <2> QED
    BY <2>1 DEF Owner
<1>5. \A k, pos, role, owner : LET t == Slot(k, pos, role, owner) IN t.role = role /\ t.owner = owner
  BY DEF Slot
<1>6. ~IsRule(lines, i)
  BY <1>3, NoRules
<1>7. ASSUME Clause(lines[i]) # << >>, NEW b \in Blanks(lines, i, Stop(lines, i)),
             Rank(Blanks(lines, i, Stop(lines, i)), b) <= Len(Clause(lines[i]))
      PROVE  Clause(lines[i])[Rank(Blanks(lines, i, Stop(lines, i)), b)] # "mark"
  <2>1. Rank(Blanks(lines, i, Stop(lines, i)), b) \in 1 .. Len(Clause(lines[i]))
    BY <1>3, <1>7, RankIn DEF Builds
  <2>2. \A n \in 1 .. Len(Clause(lines[i])) : Clause(lines[i])[n] # "mark"
    BY <1>7 DEF Clause
  <2> QED
    BY <2>1, <2>2
<1> QED
  BY <1>2, <1>4, <1>5, <1>6, <1>7

\* A slot has the fields it was made with.
LEMMA SlotFields ==
  ASSUME NEW k, NEW pos, NEW role, NEW owner
  PROVE  LET t == Slot(k, pos, role, owner) IN
         /\ t.line = k /\ t.pos = pos /\ t.role = role /\ t.owner = owner
         /\ t.forSigner <=> owner \notin Titles
  BY DEF Slot

\* The blanks of a clause get the roles they want.
LEMMA RoleIs ==
  ASSUME NEW lines, Ruled(lines), NoRecital(lines), NEW i \in DOMAIN lines, Clause(lines[i]) # << >>,
         NEW b \in Blanks(lines, i, Stop(lines, i))
  PROVE  /\ Rank(Blanks(lines, i, Stop(lines, i)), b) <= Len(Clause(lines[i]))
         /\ Clause(lines[i])[Rank(Blanks(lines, i, Stop(lines, i)), b)] = lines[b[1]].wants[b[2]]
<1> DEFINE blanks == Blanks(lines, i, Stop(lines, i))
<1>1. PICK m \in 0 .. 4, n \in 0 .. 4 :
           /\ blanks = ({i} \X (1 .. m)) \cup ({i + 1} \X (1 .. n))
           /\ DOMAIN lines[i].wants = 1 .. m /\ \A q \in 1 .. m : Clause(lines[i])[q] = lines[i].wants[q]
           /\ n # 0 => /\ i + 1 \in DOMAIN lines /\ DOMAIN lines[i + 1].wants = 1 .. n
                       /\ \A q \in 1 .. n : Clause(lines[i])[m + q] = lines[i + 1].wants[q]
           /\ m + n <= Len(Clause(lines[i]))
  BY ClauseIs
<1>2. i \in Nat /\ m \in Nat /\ n \in Nat /\ Len(Clause(lines[i])) \in Nat
  <2>1. i \in Nat
    BY RuledLines
  <2>2. Len(Clause(lines[i])) \in Nat
    BY DEF Clause
  <2> QED
    BY <2>1, <2>2
<1> HIDE DEF blanks
<1>3. /\ \A q \in 1 .. m : Rank(blanks, <<i, q>>) = q
      /\ \A q \in 1 .. n : Rank(blanks, <<i + 1, q>>) = m + q
  <2>1. blanks = ({i} \X (1 .. m)) \cup ({i + 1} \X (1 .. n))
    BY <1>1
  <2>2. \A x : x = ({i} \X (1 .. m)) \cup ({i + 1} \X (1 .. n)) =>
          /\ \A q \in 1 .. m : Rank(x, <<i, q>>) = q
          /\ \A q \in 1 .. n : Rank(x, <<i + 1, q>>) = m + q
    <3>1. i \in Nat /\ m \in Nat /\ n \in Nat
      BY <1>2
    <3> QED
      BY <3>1, RankIs
  <2> QED
    BY Zenon, <2>1, <2>2
<1>4. \/ \E q \in 1 .. m : b = <<i, q>>
      \/ \E q \in 1 .. n : b = <<i + 1, q>>
  <2>1. b \in {i} \X (1 .. m) \/ b \in {i + 1} \X (1 .. n)
    BY <1>1 DEF blanks
  <2> QED
    BY <2>1
<1>5. ASSUME NEW q \in 1 .. m, b = <<i, q>>
      PROVE  Rank(blanks, b) <= Len(Clause(lines[i])) /\ Clause(lines[i])[Rank(blanks, b)] = lines[b[1]].wants[b[2]]
  <2>1. Rank(blanks, b) = q /\ b[1] = i /\ b[2] = q
    BY <1>3, <1>5
  <2>2. q <= Len(Clause(lines[i]))
    BY <1>1, <1>2
  <2> QED
    BY <1>1, <2>1, <2>2
<1>6. ASSUME NEW q \in 1 .. n, b = <<i + 1, q>>
      PROVE  Rank(blanks, b) <= Len(Clause(lines[i])) /\ Clause(lines[i])[Rank(blanks, b)] = lines[b[1]].wants[b[2]]
  <2>1. Rank(blanks, b) = m + q /\ b[1] = i + 1 /\ b[2] = q
    BY <1>3, <1>6
  <2>2. m + q <= Len(Clause(lines[i])) /\ n # 0
    BY <1>1, <1>2
  <2> QED
    BY <1>1, <2>1, <2>2
<1> QED
  BY <1>4, <1>5, <1>6 DEF blanks

\* A rule, and the line of a date, want what the scan gives them.
LEMMA OneBlank ==
  ASSUME NEW lines, Ruled(lines), NEW i \in DOMAIN lines
  PROVE  /\ lines[i].kind = "rule" => lines[i].wants = <<"mark">>
         /\ lines[i].kind = "dated" => lines[i].wants = <<"date">>
<1>1. Placed(lines, i)
  BY RuledLines
<1>2. Plain(lines[i]) => lines[i].kind = "other"
  BY DEF Plain
<1>3. lines[i] = Recital => lines[i].kind = "whereof"
  BY DEF Recital, Line
<1>4. \A o : lines[i] = Rule(o) => lines[i].kind = "rule" /\ lines[i].wants = <<"mark">>
  BY DEF Rule, Line
<1>5. \A o : lines[i] \in Above(o) => lines[i].kind # "rule" /\ (lines[i].kind = "dated" => lines[i].wants = <<"date">>)
  BY DEF Above, Line
<1>6. \A o, cut : lines[i] = First(cut, o) \/ lines[i] = Second(cut, o) => lines[i].kind \notin {"rule", "dated"}
  BY TwoLines
<1>7. \/ Plain(lines[i]) \/ lines[i] = Recital
      \/ \E o : lines[i] = Rule(o) \/ lines[i] \in Above(o)
      \/ \E o, cut : lines[i] = First(cut, o) \/ lines[i] = Second(cut, o)
  BY <1>1 DEF Placed
<1> QED
  BY <1>2, <1>3, <1>4, <1>5, <1>6, <1>7

\* On a page without recitals the role of every slot is what its blank wants.
LEMMA SlotTrue ==
  ASSUME NEW lines, Ruled(lines), NoRecital(lines), NEW s \in PageSlots(lines)
  PROVE  s.role = lines[s.line].wants[s.pos]
<1>1. DOMAIN lines = 1 .. Len(lines) /\ Len(lines) \in Nat
  BY RuledLines
<1>2. PICK i \in Visited(lines) :
      \/ IsRule(lines, i) /\ s = Slot(i, 1, "mark", Owner(lines, i))
      \/ /\ Clause(lines[i]) # << >>
         /\ \E b \in Blanks(lines, i, Stop(lines, i)) :
              s = Slot(b[1], b[2], Clause(lines[i])[Rank(Blanks(lines, i, Stop(lines, i)), b)], Owner(lines, i))
      \/ lines[i].kind = "dated" /\ s = Slot(i, 1, "date", Owner(lines, i))
  BY SlotFrom
<1>3. i \in DOMAIN lines
  BY <1>1, VisitedIn
<1>4. CASE IsRule(lines, i) /\ s = Slot(i, 1, "mark", Owner(lines, i))
  BY <1>3, <1>4, OneBlank, SlotFields DEF IsRule
<1>5. CASE lines[i].kind = "dated" /\ s = Slot(i, 1, "date", Owner(lines, i))
  BY <1>3, <1>5, OneBlank, SlotFields
<1>6. ASSUME Clause(lines[i]) # << >>, NEW b \in Blanks(lines, i, Stop(lines, i)),
             s = Slot(b[1], b[2], Clause(lines[i])[Rank(Blanks(lines, i, Stop(lines, i)), b)], Owner(lines, i))
      PROVE  s.role = lines[s.line].wants[s.pos]
  BY <1>3, <1>6, RoleIs, SlotFields
<1> QED
  BY <1>2, <1>4, <1>5, <1>6

\* Every blank has its slot.
LEMMA SlotFor ==
  ASSUME NEW lines, Ruled(lines), NoRecital(lines), NEW i \in DOMAIN lines, NEW q \in DOMAIN lines[i].wants
  PROVE  \E s \in PageSlots(lines) : s.line = i /\ s.pos = q /\ (s.forSigner <=> s.owner \notin Titles)
<1>1. DOMAIN lines = 1 .. Len(lines) /\ Len(lines) \in Nat /\ i \in Nat
  BY RuledLines
<1>2. ASSUME NEW k \in Visited(lines), k \in DOMAIN lines, Clause(lines[k]) # << >>,
             <<i, q>> \in Blanks(lines, k, Stop(lines, k))
      PROVE  \E s \in PageSlots(lines) : s.line = i /\ s.pos = q /\ (s.forSigner <=> s.owner \notin Titles)
  <2> DEFINE b == <<i, q>>
             role == Clause(lines[k])[Rank(Blanks(lines, k, Stop(lines, k)), b)]
             s == Slot(b[1], b[2], role, Owner(lines, k))
  <2>1. Rank(Blanks(lines, k, Stop(lines, k)), b) <= Len(Clause(lines[k]))
    BY <1>2, RoleIs
  <2>2. ~IsRule(lines, k)
    BY <1>2 DEF IsRule, Clause
  <2>3. s \in PageSlots(lines)
    <3> HIDE DEF b
    <3>1. b \in Blanks(lines, k, Stop(lines, k))
      BY <1>2 DEF b
    <3> QED
      BY <1>2, <2>1, <2>2, <3>1, SlotFrom
  <2>4. s.line = i /\ s.pos = q /\ (s.forSigner <=> s.owner \notin Titles)
    BY SlotFields
  <2> QED
    BY <2>3, <2>4
<1>3. CASE Passed(lines, i)
  <2> DEFINE k == i - 1
  <2>1. k \in DOMAIN lines /\ Long(lines[k]) /\ k + 1 = i
    BY <1>1, <1>3 DEF Passed
  <2> HIDE DEF k
  <2>2. lines[k].kind = "whereof" /\ Clause(lines[k]) # << >>
    BY <2>1, LongIs
  <2>3. ~Passed(lines, k)
    <3> SUFFICES ASSUME Passed(lines, k) PROVE FALSE
      OBVIOUS
    <3> DEFINE y == k - 1
    <3>1. y \in DOMAIN lines /\ Long(lines[y]) /\ y + 1 = k
      BY <1>1, <2>1 DEF Passed
    <3> HIDE DEF y
    <3>2. lines[y].kind = "whereof"
      BY <3>1, LongIs
    <3>3. lines[y + 1].kind = "other"
      BY <3>1, <3>2, WhereofAt, TwoLines
    <3> QED
      BY <2>2, <3>1, <3>3
  <2>4. k \in Visited(lines)
    BY <2>1, <2>3, AllVisited
  <2>7. PICK m \in 0 .. 4, n \in 0 .. 4 :
           /\ Blanks(lines, k, Stop(lines, k)) = ({k} \X (1 .. m)) \cup ({k + 1} \X (1 .. n))
           /\ DOMAIN lines[k].wants = 1 .. m /\ \A x \in 1 .. m : Clause(lines[k])[x] = lines[k].wants[x]
           /\ n # 0 => /\ k + 1 \in DOMAIN lines /\ DOMAIN lines[k + 1].wants = 1 .. n
                       /\ \A x \in 1 .. n : Clause(lines[k])[m + x] = lines[k + 1].wants[x]
           /\ m + n <= Len(Clause(lines[k]))
           /\ Stop(lines, k) = IF Long(lines[k]) THEN k + 2 ELSE k + 1
           /\ Long(lines[k]) => DOMAIN lines[k + 1].wants = 1 .. n
    BY <2>1, <2>2, ClauseIs
  <2>6. <<i, q>> \in Blanks(lines, k, Stop(lines, k))
    BY <2>1, <2>7
  <2> QED
    BY <1>2, <2>1, <2>2, <2>4, <2>6
<1>4. CASE ~Passed(lines, i) /\ Clause(lines[i]) # << >>
  <2>1. PICK m \in 0 .. 4, n \in 0 .. 4 :
           /\ Blanks(lines, i, Stop(lines, i)) = ({i} \X (1 .. m)) \cup ({i + 1} \X (1 .. n))
           /\ DOMAIN lines[i].wants = 1 .. m /\ \A x \in 1 .. m : Clause(lines[i])[x] = lines[i].wants[x]
           /\ n # 0 => /\ i + 1 \in DOMAIN lines /\ DOMAIN lines[i + 1].wants = 1 .. n
                       /\ \A x \in 1 .. n : Clause(lines[i])[m + x] = lines[i + 1].wants[x]
           /\ m + n <= Len(Clause(lines[i]))
           /\ Stop(lines, i) = IF Long(lines[i]) THEN i + 2 ELSE i + 1
           /\ Long(lines[i]) => DOMAIN lines[i + 1].wants = 1 .. n
    BY <1>4, ClauseIs
  <2>2. <<i, q>> \in Blanks(lines, i, Stop(lines, i))
    BY <2>1
  <2> QED
    BY <1>2, <1>4, <2>2, AllVisited
<1>5. CASE ~Passed(lines, i) /\ Clause(lines[i]) = << >>
  <2>1. lines[i].wants # << >>
    <3>1. DOMAIN << >> = {}
      OBVIOUS
    <3> QED
      BY <3>1
  <2>2. lines[i].kind \in {"rule", "dated"}
    <3>1. Placed(lines, i) /\ ~Plain(lines[i]) /\ lines[i] # Recital
      BY <2>1, RuledLines DEF Plain, NoRecital
    <3>2. lines[i].kind \notin {"executed", "whereof"}
      BY <1>5 DEF Clause
    <3>3. PICK o : \/ lines[i] = Rule(o) \/ lines[i] \in Above(o) \/ \E cut : lines[i] = First(cut, o)
                   \/ \E cut \in 0 .. 4 : i - 1 \in DOMAIN lines /\ lines[i - 1] = First(cut, o) /\ lines[i] = Second(cut, o)
      BY <3>1 DEF Placed
    <3>4. CASE lines[i] = Rule(o)
      BY <3>4, Kinds
    <3>5. CASE lines[i] \in Above(o)
      BY <2>1, <3>2, <3>5 DEF Above, Line
    <3>6. CASE \E cut : lines[i] = First(cut, o)
      BY <3>2, <3>6, TwoLines
    <3>7. ASSUME NEW cut \in 0 .. 4, i - 1 \in DOMAIN lines, lines[i - 1] = First(cut, o), lines[i] = Second(cut, o)
          PROVE  FALSE
      <4>1. DOMAIN lines[i].wants = 1 .. 4 - cut
        <5>1. lines[i].wants = Rest(cut)
          BY <3>7, TwoLines
        <5> QED
          BY <5>1, WhereofIs
      <4>2. cut \in 0 .. 3
        BY <4>1
      <4> QED
        BY <1>5, <3>7, <4>2 DEF Passed, Long
    <3> QED
      BY <3>3, <3>4, <3>5, <3>6, <3>7
  <2>3. i \in Visited(lines)
    BY <1>5, AllVisited
  <2>4. q = 1
    <3>1. lines[i].wants \in {<<"mark">>, <<"date">>}
      BY <2>2, OneBlank
    <3> QED
      BY <3>1
  <2>5. CASE lines[i].kind = "rule"
    <3>1. Slot(i, 1, "mark", Owner(lines, i)) \in PageSlots(lines)
      BY <2>3, <2>5, SlotFrom DEF IsRule
    <3> QED
      BY <2>4, <3>1, SlotFields
  <2>6. CASE lines[i].kind = "dated"
    <3>1. Slot(i, 1, "date", Owner(lines, i)) \in PageSlots(lines)
      BY <1>5, <2>3, <2>6, SlotFrom DEF IsRule
    <3> QED
      BY <2>4, <3>1, SlotFields
  <2> QED
    BY <2>2, <2>5, <2>6
<1> QED
  BY <1>3, <1>4, <1>5

\* What is drawn is on the page, and in a block of who drew it.
Sound(f) ==
  \A d \in f.drawn :
    LET page == pages[f.doc][d.page] IN
    /\ f.doc \in Docs /\ d.page \in DOMAIN pages[f.doc] /\ Ruled(page)
    /\ d.line \in DOMAIN page /\ d.pos \in DOMAIN page[d.line].wants
    /\ page[d.line].of \in d.by
    /\ NoRecital(page) => d.role = page[d.line].wants[d.pos]

\* A block that is marked is filled.
FilledFrom(f, d) ==
  \A i \in DOMAIN pages[f.doc][d.page] :
    \A q \in DOMAIN pages[f.doc][d.page][i].wants :
      /\ pages[f.doc][d.page][i].of = pages[f.doc][d.page][d.line].of
      /\ pages[f.doc][d.page][i].wants[q] # "place"
      => \E e \in f.drawn : e.page = d.page /\ e.line = i /\ e.pos = q

\* So are all the blocks a file bears marks in.
Whole(f) == \A d \in f.drawn : d.role = "mark" => FilledFrom(f, d)

\* The documents stay what was built, and every file and retained copy is sound.
Bound == pages \in [Docs -> Documents] /\ \A f \in Contents : Sound(f)

\* No page of a document does: discover reads a recital as a clause, and gives
\* its roles to the blanks of the block below it.
NoRecitals == \A document \in Documents : \A p \in DOMAIN document : NoRecital(document[p])

\* The signer's slots are in the blocks the signer is named in.
LEMMA MineOwned ==
  ASSUME NEW document \in Documents, NEW wanted \in SUBSET Names,
         NEW mark \in Mine(Discover(document), wanted), mark.slot.role = "mark",
         NEW s \in Mine(Discover(document), wanted)
  PROVE  /\ s.page \in DOMAIN document /\ Ruled(document[s.page]) /\ s.slot \in PageSlots(document[s.page])
         /\ s.slot.owner \in wanted
<1>1. \A t \in Discover(document) : t.page \in DOMAIN document /\ t.slot \in PageSlots(document[t.page])
  BY DEF Discover
<1>2. ASSUME NEW t \in Discover(document)
      PROVE  \/ t.slot.owner = Nobody /\ t.slot.role # "mark"
             \/ t.slot.owner \in Names \cup Titles /\ Ruled(document[t.page])
  <2>1. PICK built \in Builds : Printed(document[t.page], built)
    BY <1>1, PrintedAssumption
  <2>2. CASE built = "signed"
    BY <1>1, <2>1, <2>2, SlotNobody
  <2>3. CASE built \in {"plain", "dated"}
    <3>1. Ruled(document[t.page])
      BY <2>1, <2>3 DEF Ruled
    <3> QED
      BY <1>1, <3>1, SlotPlace
  <2> QED
    BY <2>2, <2>3 DEF Builds
<1>3. Nobody \notin Names \cup Titles
  BY LocalAssumption
<1>4. mark \in Discover(document) /\ s \in Discover(document)
  BY DEF Mine
<1>5. mark.slot.owner # Nobody
  BY <1>2, <1>3, <1>4
<1>6. s.slot.owner \in wanted
  BY <1>4, <1>5 DEF Mine
<1>7. s.slot.owner # Nobody
  BY <1>3, <1>6
<1> QED
  BY <1>1, <1>2, <1>4, <1>6, <1>7

\* Who marks a block finds all its blanks.
LEMMA MineWhole ==
  ASSUME NEW document \in Documents, NEW wanted \in SUBSET Names, NoRecitals,
         NEW mark \in Mine(Discover(document), wanted), mark.slot.role = "mark",
         NEW i \in DOMAIN document[mark.page], document[mark.page][i].of = mark.slot.owner,
         NEW q \in DOMAIN document[mark.page][i].wants
  PROVE  \E s \in Mine(Discover(document), wanted) :
           /\ s.page = mark.page /\ s.slot.line = i /\ s.slot.pos = q
           /\ s.slot.role = document[mark.page][i].wants[q]
<1> DEFINE page == document[mark.page]
<1>1. mark.page \in DOMAIN document /\ Ruled(page) /\ mark.slot.owner \in wanted
  BY MineOwned
<1>2. NoRecital(page)
  BY <1>1 DEF NoRecitals
<1>3. PICK slot \in PageSlots(page) : slot.line = i /\ slot.pos = q /\ (slot.forSigner <=> slot.owner \notin Titles)
  BY <1>1, <1>2, SlotFor
<1>4. slot.owner = page[i].of /\ slot.role = page[i].wants[q]
  BY <1>1, <1>2, <1>3, SlotPlace, SlotTrue
<1> DEFINE s == [page |-> mark.page, slot |-> slot]
<1>5. s \in Discover(document)
  BY <1>1 DEF Discover
<1>6. slot.owner \in wanted /\ slot.forSigner
  <2>1. Names \cap Titles = {}
    BY LocalAssumption
  <2> QED
    BY <1>1, <1>3, <1>4, <2>1
<1>7. s \in Mine(Discover(document), wanted)
  BY <1>5, <1>6 DEF Mine
<1> QED
  BY <1>3, <1>4, <1>7

\* A run draws in the signer's blocks only, and where it draws a mark, all of the
\* block.
LEMMA ApplySound ==
  ASSUME IInv, TypeOK, Bound, NEW in \in Paths, NEW out \in Paths, NEW wanted \in SUBSET Names,
         Apply(in, out, wanted)
  PROVE  /\ Sound(run'.made)
         /\ NoRecitals /\ Whole(files[in]) => Whole(run'.made)
<1> DEFINE f == files[in]  g == run'.made  document == pages[f.doc]
           mine == Mine(Discover(document), wanted)
<1>1. f \in Contents /\ f # NoFile /\ f.doc \in Docs /\ document \in Documents
  BY DEF Apply, Contents, TypeOK, Bound
<1>2. PICK mark \in mine : mark.slot.role = "mark"
  BY DEF Apply
<1>3. g.doc = f.doc /\ g.drawn = f.drawn \cup Drawn(mine, wanted)
  BY DEF Apply
<1>4. Sound(f)
  BY <1>1 DEF Bound
<1> HIDE DEF f, g, mine
<1>5. ASSUME NEW d \in Drawn(mine, wanted)
      PROVE  \E s \in mine : /\ d.page = s.page /\ d.line = s.slot.line /\ d.pos = s.slot.pos
                             /\ d.role = s.slot.role /\ d.by = wanted
  BY DEF Drawn, Written
<1>6. ASSUME NEW s \in mine
      PROVE  LET page == document[s.page] IN
             /\ s.page \in DOMAIN document /\ Ruled(page) /\ s.slot \in PageSlots(page)
             /\ s.slot.line \in DOMAIN page /\ s.slot.pos \in DOMAIN page[s.slot.line].wants
             /\ s.slot.owner = page[s.slot.line].of /\ s.slot.owner \in wanted
             /\ NoRecital(page) => s.slot.role = page[s.slot.line].wants[s.slot.pos]
  <2>1. s.page \in DOMAIN document /\ Ruled(document[s.page]) /\ s.slot \in PageSlots(document[s.page])
        /\ s.slot.owner \in wanted
    BY <1>1, <1>2, MineOwned DEF mine
  <2> QED
    BY <2>1, SlotPlace, SlotTrue
<1>7. Sound(g)
  <2> SUFFICES ASSUME NEW d \in g.drawn
               PROVE  LET page == pages[g.doc][d.page] IN
                      /\ g.doc \in Docs /\ d.page \in DOMAIN pages[g.doc] /\ Ruled(page)
                      /\ d.line \in DOMAIN page /\ d.pos \in DOMAIN page[d.line].wants
                      /\ page[d.line].of \in d.by
                      /\ NoRecital(page) => d.role = page[d.line].wants[d.pos]
    BY DEF Sound
  <2>1. CASE d \in f.drawn
    BY <1>3, <1>4, <2>1 DEF Sound
  <2>2. CASE d \in Drawn(mine, wanted)
    BY <1>1, <1>3, <1>5, <1>6, <2>2
  <2> QED
    BY <1>3, <2>1, <2>2
<1>8. ASSUME NoRecitals, Whole(f) PROVE Whole(g)
  <2> SUFFICES ASSUME NEW d \in g.drawn, d.role = "mark" PROVE FilledFrom(g, d)
    BY DEF Whole
  <2>1. CASE d \in f.drawn
    <3>1. FilledFrom(f, d)
      BY <1>8, <2>1 DEF Whole
    <3> QED
      BY <1>3, <3>1 DEF FilledFrom
  <2>2. CASE d \in Drawn(mine, wanted)
    <3> SUFFICES ASSUME NEW i \in DOMAIN document[d.page], NEW q \in DOMAIN document[d.page][i].wants,
                        document[d.page][i].of = document[d.page][d.line].of,
                        document[d.page][i].wants[q] # "place"
                 PROVE  \E e \in g.drawn : e.page = d.page /\ e.line = i /\ e.pos = q
      BY <1>3 DEF FilledFrom
    <3>1. PICK s \in mine : d.page = s.page /\ d.line = s.slot.line /\ s.slot.role = "mark"
      BY <1>5, <2>2
    <3>2. s.slot.owner = document[s.page][s.slot.line].of
      BY <1>6
    <3>3. PICK t \in mine : /\ t.page = s.page /\ t.slot.line = i /\ t.slot.pos = q
                            /\ t.slot.role = document[s.page][i].wants[q]
      <4>1. i \in DOMAIN document[s.page] /\ document[s.page][i].of = s.slot.owner
            /\ q \in DOMAIN document[s.page][i].wants
        BY <3>1, <3>2
      <4>2. document \in Documents /\ s \in mine /\ s.slot.role = "mark"
        BY <1>1, <3>1
      <4> HIDE DEF document
      <4> QED
        BY <1>8, <4>1, <4>2, MineWhole DEF mine
    <3> DEFINE e == [page |-> t.page, line |-> t.slot.line, pos |-> t.slot.pos, role |-> t.slot.role,
                     by |-> wanted]
    <3>4. e \in Drawn(mine, wanted)
      BY <3>1, <3>3 DEF Drawn, Written
    <3>5. e.page = d.page /\ e.line = i /\ e.pos = q
      BY <3>1, <3>3
    <3> HIDE DEF e
    <3> QED
      BY <1>3, <3>4, <3>5
  <2> QED
    BY <1>3, <2>1, <2>2
<1> QED
  BY <1>7, <1>8 DEF f, g

\* What is in a file or a record after a step was there, or is nothing, or was
\* signed by the step.
LEMMA ContentsStep ==
  ASSUME IInv, [Next]_vars
  PROVE  /\ pages' = pages
         /\ \A g \in Contents' :
              \/ g \in Contents \/ g = NoFile
              \/ \E in, out \in Paths, wanted \in SUBSET Names : Apply(in, out, wanted) /\ g = run'.made
<1>1. pages' = pages
  <2>1. \A in, out, wanted : Apply(in, out, wanted) => pages' = pages
    BY DEF Apply
  <2>2. (Save \/ SaveFails \/ Report \/ ReportFails \/ Retain \/ WriteStatement \/ Clearsign \/ ClearsignFails \/ WriteMeta \/ Fail \/ Kill \/ UNCHANGED vars)
          => pages' = pages
    BY DEF vars, Save, SaveFails, Report, ReportFails, Retain, WriteStatement, Clearsign, ClearsignFails, WriteMeta, Fail, Kill
  <2>3. \A p : Withdraw(p) => pages' = pages
    BY DEF Withdraw
  <2> QED
    BY <2>1, <2>2, <2>3 DEF Next
<1>2. files = [p \in Paths |-> files[p]] /\ records = [e \in Events |-> records[e]]
      /\ \A e \in Events : IsRecord(records[e])
      /\ (run.pc # "idle" => run.out \in Paths /\ run.event \in Events)
  BY DEF IInv, Shapes
<1>3. ASSUME NEW p \in Paths
      PROVE  files'[p] \in Contents \/ files'[p] = NoFile
  <2>1. files[p] \in Contents /\ run.made \in Contents
    BY DEF Contents
  <2>2. \A in, out, wanted : Apply(in, out, wanted) => files' = files
    BY DEF Apply
  <2>3. CASE files' = files
    BY <2>1, <2>3
  <2>4. CASE Report \/ ReportFails \/ Retain \/ WriteStatement \/ Clearsign \/ WriteMeta \/ UNCHANGED vars
    BY <2>3, <2>4 DEF Report, ReportFails, Retain, WriteStatement, Clearsign, WriteMeta, vars
  <2>5. CASE SaveFails \/ ClearsignFails \/ Fail \/ Kill \/ \E o \in Paths : Withdraw(o)
    BY <1>2, <2>1, <2>5 DEF SaveFails, ClearsignFails, Fail, Kill, Withdraw
  <2>6. CASE Save
    BY <1>2, <2>1, <2>6 DEF Save
  <2> QED
    BY <2>2, <2>3, <2>4, <2>5, <2>6 DEF Next
<1>5. \/ run'.made \in Contents \/ run'.made = NoFile
      \/ \E in, out \in Paths, wanted \in SUBSET Names : Apply(in, out, wanted)
  <2>1. run.made \in Contents
    BY DEF Contents
  <2>2. CASE \E in, out \in Paths, n \in Names :
               Apply(in, out, {n}) \/ \E b \in Names \ {n} : Apply(in, out, {n, b})
    <3>1. \A n, b \in Names : {n} \in SUBSET Names /\ {n, b} \in SUBSET Names
      OBVIOUS
    <3> QED
      BY <2>2, <3>1
  <2>3. run' = Idle => run'.made = NoFile
    BY EmptyIs
  <2>4. (\E pc : run' = [run EXCEPT !.pc = pc]) => run'.made = run.made
    BY DEF IInv, Shapes
  <2>5. CASE Save \/ Report \/ Retain \/ WriteStatement \/ Clearsign
    <3>1. \E pc : run' = [run EXCEPT !.pc = pc]
      BY <2>5 DEF Save, Report, Retain, WriteStatement, Clearsign
    <3> QED
      BY <2>1, <2>4, <3>1
  <2>6. CASE SaveFails \/ ReportFails \/ ClearsignFails \/ WriteMeta \/ Fail \/ Kill
    <3>1. run' = Idle
      BY <2>6 DEF SaveFails, ReportFails, ClearsignFails, WriteMeta, Fail, Kill
    <3> QED
      BY <2>3, <3>1
  <2>7. CASE (\E p \in Paths : Withdraw(p)) \/ UNCHANGED vars
    BY <2>1, <2>7 DEF Withdraw, vars
  <2> QED
    BY <2>2, <2>5, <2>6, <2>7 DEF Next
<1>4. ASSUME NEW e \in Events PROVE records'[e].retained \in Contents \/ records'[e].retained = NoFile
  <2>1. records[e].retained \in Contents
    BY DEF Contents
  <2>2. IsRecord(records[e])
    BY <1>2
  <2>3. CASE Retain
    <3>1. files[run.out] \in Contents
      BY <1>2, <2>3 DEF Retain, Contents
    <3> QED
      BY <1>2, <2>1, <2>2, <2>3, <3>1 DEF Retain, IsRecord
  <2>4. CASE WriteStatement
    BY <1>2, <2>1, <2>2, <2>4 DEF WriteStatement, IsRecord
  <2>5. CASE Clearsign
    BY <1>2, <2>1, <2>2, <2>5 DEF Clearsign, IsRecord
  <2>6. CASE WriteMeta
    BY <1>2, <2>1, <2>2, <2>6 DEF WriteMeta, IsRecord
  <2>7. CASE ClearsignFails
    BY <1>2, <2>1, <2>2, <2>7 DEF ClearsignFails, NoRecord
  <2>8. CASE records' = records
    BY <2>1, <2>8
  <2>9. \A in, out, wanted : Apply(in, out, wanted) => records' = records
    BY DEF Apply
  <2>10. \A p : Withdraw(p) => records' = records
    BY DEF Withdraw
  <2>11. Save \/ SaveFails \/ Report \/ ReportFails \/ Fail \/ Kill \/ UNCHANGED vars => records' = records
    BY DEF Save, SaveFails, Report, ReportFails, Fail, Kill, vars
  <2> QED
    BY <2>3, <2>4, <2>5, <2>6, <2>7, <2>8, <2>9, <2>10, <2>11 DEF Next
<1> QED
  BY <1>1, <1>3, <1>4, <1>5 DEF Contents

\* What is built bears no mark.
LEMMA InitBound == Init => Bound /\ \A f \in Contents : Whole(f)
<1> SUFFICES ASSUME Init PROVE Bound /\ \A f \in Contents : Whole(f)
  OBVIOUS
<1>1. \A d : Built(d).drawn = {}
  BY DEF Built
<1>2. NoFile.drawn = {} /\ NoRecord.retained = NoFile
  BY DEF NoFile, NoRecord
<1>3. \A f \in Contents : f.drawn = {}
  BY <1>1, <1>2, EmptyIs DEF Contents, Init
<1> QED
  BY <1>3 DEF Bound, Sound, Whole, Init

\* No step moves or removes what is drawn on a file, and only Apply adds to it.
LEMMA BoundStep ==
  ASSUME IInv, TypeOK, Bound, [Next]_vars
  PROVE  Bound' /\ (NoRecitals /\ (\A f \in Contents : Whole(f)) => \A f \in Contents' : Whole(f)')
<1>1. pages' = pages
  BY ContentsStep
<1>2. \A f : (Sound(f)' <=> Sound(f)) /\ (Whole(f)' <=> Whole(f))
  BY <1>1 DEF Sound, Whole, FilledFrom
<1>3. NoFile.drawn = {}
  BY DEF NoFile
<1>4. Sound(NoFile) /\ Whole(NoFile)
  BY <1>3 DEF Sound, Whole
<1>5. ASSUME NEW g \in Contents'
      PROVE  Sound(g) /\ (NoRecitals /\ (\A f \in Contents : Whole(f)) => Whole(g))
  <2>1. CASE g \in Contents
    BY <2>1 DEF Bound
  <2>2. ASSUME NEW in \in Paths, NEW out \in Paths, NEW wanted \in SUBSET Names,
               Apply(in, out, wanted), g = run'.made
        PROVE  Sound(g) /\ (NoRecitals /\ (\A f \in Contents : Whole(f)) => Whole(g))
    <3>1. files[in] \in Contents
      BY DEF Contents
    <3> QED
      BY <2>2, <3>1, ApplySound
  <2> QED
    BY <1>4, <2>1, <2>2, ContentsStep
<1>6. \A g \in Contents' : Sound(g)' /\ (NoRecitals /\ (\A f \in Contents : Whole(f)) => Whole(g)')
  BY <1>2, <1>5
<1> QED
  BY <1>1, <1>6 DEF Bound

\* Whatever is signed, by however many runs and under whatever names: what
\* request fills in or draws is in a block the signer is named in, never in that
\* of another party or of a judge (discover, _owner_below and _partition).
THEOREM OnlyTheirs == Spec => []OnlyTheirOwn
<1>1. IInv /\ TypeOK /\ Bound /\ [Next]_vars => Bound'
  BY BoundStep
<1>2. Bound => OnlyTheirOwn
  BY DEF Bound, Sound, OnlyTheirOwn, LineOf
<1> QED
  BY <1>1, <1>2, InitBound, Invariant, TypeCorrect, PTL DEF Spec

\* Where no page recites the clause of a signature: who signs a block fills all
\* its blanks but a place, each with what it wants, and with nothing else, on
\* whatever lines its clause is printed (discover's scan of a page and its Stop).
THEOREM SignedWhole ==
  ASSUME NoRecitals
  PROVE  Spec => []FilledWhole
<1> DEFINE Filled == \A f \in Contents : Whole(f)
<1>1. IInv /\ TypeOK /\ Bound /\ Filled /\ [Next]_vars => Bound' /\ Filled'
  BY BoundStep
<1>2. Bound /\ Filled => FilledWhole
  <2> SUFFICES ASSUME Bound, Filled, NEW f \in Contents, NEW d \in f.drawn, d.role = "mark",
                      NEW i \in DOMAIN pages[f.doc][d.page],
                      pages[f.doc][d.page][i].of = LineOf(f, d).of,
                      NEW q \in DOMAIN pages[f.doc][d.page][i].wants,
                      pages[f.doc][d.page][i].wants[q] # "place"
               PROVE  {e.role : e \in {x \in f.drawn : x.page = d.page /\ x.line = i /\ x.pos = q}}
                        = {pages[f.doc][d.page][i].wants[q]}
    BY DEF FilledWhole
  <2>1. Sound(f) /\ Whole(f)
    BY DEF Bound
  <2>2. f.doc \in Docs /\ d.page \in DOMAIN pages[f.doc] /\ pages[f.doc] \in Documents
    BY <2>1 DEF Sound, Bound
  <2>3. NoRecital(pages[f.doc][d.page])
    BY <2>2 DEF NoRecitals
  <2>4. \A e \in f.drawn : e.page = d.page /\ e.line = i /\ e.pos = q => e.role = pages[f.doc][d.page][i].wants[q]
    BY <2>1, <2>3 DEF Sound
  <2>5. \E e \in f.drawn : e.page = d.page /\ e.line = i /\ e.pos = q
    <3>1. FilledFrom(f, d)
      BY <2>1 DEF Whole
    <3>2. pages[f.doc][d.page][i].of = pages[f.doc][d.page][d.line].of
      BY DEF LineOf
    <3> QED
      BY <3>1, <3>2 DEF FilledFrom
  <2> QED
    BY <2>4, <2>5
<1>3. Init => Bound /\ Filled
  BY InitBound
<1> HIDE DEF Filled
<1> QED
  BY <1>1, <1>2, <1>3, Invariant, TypeCorrect, PTL DEF Spec
=============================================================================
