--------------------------- MODULE PleadingProofs ---------------------------
(***************************************************************************)
(* Theorems about Pleading, for any sources, any number of builds, and any *)
(* page: every line of a body is drawn once, in order and on a page, each  *)
(* footnote is with its marker and below the text, a signature stands with *)
(* what it signs and a heading with its text, an exhibit has one letter,   *)
(* and a draft is marked as one with its places to sign on the pages that  *)
(* have them.                                                              *)
(*                                                                         *)
(* They rest on four invariants.  LayInv says at each stage of a build     *)
(* what is parsed and laid out; for the words that reach the parser it     *)
(* needs what the macros make of a line.  KeepInv says, block by block,    *)
(* that the page has room for what is left of a group or of what a heading *)
(* wants.  PackInv says what is at the output's place and in the cover     *)
(* sheet's cache, and NoteInv the notices of this build among those of     *)
(* earlier ones.  A recursive function is shown to exist by induction over *)
(* its places, and then to be what the model chose.                        *)
(***************************************************************************)
EXTENDS Pleading, WellFoundedInduction, FiniteSetTheorems, TLAPS

-----------------------------------------------------------------------------
(* Sequences.                                                              *)

\* Induction over places.
LEMMA Induct ==
  ASSUME NEW n \in Nat, NEW P, 0 \in P, \A i \in 1 .. n : i - 1 \in P => i \in P
  PROVE  \A i \in 0 .. n : i \in P
<1> DEFINE S == {i \in 0 .. n : i \notin P}
           R == OpToRel(<, Nat)
<1> SUFFICES ASSUME S # {} PROVE FALSE
  OBVIOUS
<1>1. IsWellFoundedOn(R, Nat)
  BY NatLessThanWellFounded
<1>2. \A x, y \in Nat : x < y => <<x, y>> \in R
  BY DEF OpToRel
<1>3. S \in SUBSET Nat
  OBVIOUS
<1> HIDE DEF R
<1>4. PICK i \in S : \A y \in S : ~ (<<y, i>> \in R)
  BY <1>1, <1>3, WFMin
<1>5. i \in 1 .. n /\ i \notin P /\ i - 1 \in 0 .. n
  OBVIOUS
<1>6. i - 1 \in S
  BY <1>5
<1>7. <<i - 1, i>> \in R
  BY <1>2, <1>5
<1> QED
  BY <1>4, <1>6, <1>7

\* A sequence, of whatever.
IsSeq(s) == \E S : s \in Seq(S)

LEMMA SeqIs ==
  ASSUME NEW s
  PROVE  IsSeq(s) <=> Len(s) \in Nat /\ s = [i \in 1 .. Len(s) |-> s[i]]
<1>1. ASSUME IsSeq(s) PROVE Len(s) \in Nat /\ s = [i \in 1 .. Len(s) |-> s[i]]
  <2>1. PICK S : s \in Seq(S)
    BY <1>1 DEF IsSeq
  <2> QED
    BY <2>1
<1>2. ASSUME Len(s) \in Nat, s = [i \in 1 .. Len(s) |-> s[i]] PROVE IsSeq(s)
  <2> DEFINE S == {s[i] : i \in 1 .. Len(s)}
  <2>1. s \in Seq(S)
    BY <1>2
  <2> QED
    BY <2>1 DEF IsSeq
<1> QED
  BY <1>1, <1>2

LEMMA FcnSeq ==
  ASSUME NEW n \in Nat, NEW s, s = [i \in 1 .. n |-> s[i]]
  PROVE  IsSeq(s) /\ Len(s) = n
<1> DEFINE S == {s[i] : i \in 1 .. n}
<1>1. s \in Seq(S)
  OBVIOUS
<1>2. Len(s) = n
  BY <1>1
<1> QED
  BY <1>1, <1>2 DEF IsSeq

LEMMA Joined ==
  ASSUME NEW s, NEW t, IsSeq(s), IsSeq(t)
  PROVE  /\ IsSeq(s \o t) /\ Len(s \o t) = Len(s) + Len(t)
         /\ \A i \in 1 .. Len(s) : (s \o t)[i] = s[i]
         /\ \A i \in 1 .. Len(t) : (s \o t)[Len(s) + i] = t[i]
<1>1. PICK S : s \in Seq(S)
  BY DEF IsSeq
<1>2. PICK T : t \in Seq(T)
  BY DEF IsSeq
<1>3. s \in Seq(S \cup T) /\ t \in Seq(S \cup T)
  BY <1>1, <1>2
<1>4. s \o t \in Seq(S \cup T)
  BY <1>3
<1> QED
  BY <1>3, <1>4 DEF IsSeq

LEMMA Appended ==
  ASSUME NEW s, NEW e, IsSeq(s)
  PROVE  /\ IsSeq(Append(s, e)) /\ Len(Append(s, e)) = Len(s) + 1
         /\ \A i \in 1 .. Len(s) : Append(s, e)[i] = s[i]
         /\ Append(s, e)[Len(s) + 1] = e
<1>1. PICK S : s \in Seq(S)
  BY DEF IsSeq
<1>2. s \in Seq(S \cup {e})
  BY <1>1
<1>3. Append(s, e) \in Seq(S \cup {e})
  BY <1>2
<1> QED
  BY <1>2, <1>3 DEF IsSeq

LEMMA CutSeq ==
  ASSUME NEW s, IsSeq(s), NEW a \in 1 .. Len(s) + 1, NEW b \in 0 .. Len(s)
  PROVE  IsSeq(SubSeq(s, a, b))
<1>1. PICK S : s \in Seq(S)
  BY DEF IsSeq
<1>2. SubSeq(s, a, b) \in Seq(S)
  BY <1>1
<1> QED
  BY <1>2 DEF IsSeq

LEMMA NoneSeq == IsSeq(<< >>) /\ Len(<< >>) = 0
<1>1. << >> \in Seq({})
  OBVIOUS
<1>2. Len(<< >>) = 0
  OBVIOUS
<1> QED
  BY <1>1, <1>2 DEF IsSeq

LEMMA JoinedSet ==
  ASSUME NEW s, NEW t, IsSeq(s), IsSeq(t)
  PROVE  ToSet(s \o t) = ToSet(s) \cup ToSet(t)
<1> DEFINE u == s \o t
<1>1. /\ Len(u) = Len(s) + Len(t) /\ Len(s) \in Nat /\ Len(t) \in Nat
      /\ DOMAIN u = 1 .. Len(u) /\ DOMAIN s = 1 .. Len(s) /\ DOMAIN t = 1 .. Len(t)
  BY Joined, SeqIs
<1>2. \A i \in 1 .. Len(s) : u[i] = s[i]
  BY Joined
<1>3. \A i \in 1 .. Len(t) : u[Len(s) + i] = t[i]
  BY Joined
<1> HIDE DEF u
<1>4. \A i \in 1 .. Len(u) : u[i] \in ToSet(s) \cup ToSet(t)
  <2> SUFFICES ASSUME NEW i \in 1 .. Len(u) PROVE u[i] \in ToSet(s) \cup ToSet(t)
    OBVIOUS
  <2>1. CASE i <= Len(s)
    BY <1>1, <1>2, <2>1 DEF ToSet
  <2>2. CASE i > Len(s)
    <3>1. i - Len(s) \in 1 .. Len(t) /\ i = Len(s) + (i - Len(s))
      BY <1>1, <2>2
    <3> QED
      BY <1>1, <1>3, <3>1 DEF ToSet
  <2> QED
    BY <1>1, <2>1, <2>2
<1>5. \A i \in 1 .. Len(s) : i \in 1 .. Len(u)
  BY <1>1
<1>6. \A i \in 1 .. Len(t) : Len(s) + i \in 1 .. Len(u)
  BY <1>1
<1>7. ToSet(s) \subseteq ToSet(u)
  BY <1>1, <1>2, <1>5 DEF ToSet
<1>8. ToSet(t) \subseteq ToSet(u)
  BY <1>1, <1>3, <1>6 DEF ToSet
<1>9. ToSet(u) \subseteq ToSet(s) \cup ToSet(t)
  BY <1>1, <1>4 DEF ToSet
<1> QED
  BY <1>7, <1>8, <1>9 DEF u

LEMMA OneSeq ==
  ASSUME NEW e
  PROVE  IsSeq(<<e>>) /\ Len(<<e>>) = 1 /\ <<e>>[1] = e
<1>1. <<e>> \in Seq({e})
  OBVIOUS
<1> QED
  BY <1>1 DEF IsSeq

\* A sequence of sequences.
IsSeqs(ss) == IsSeq(ss) /\ \A i \in 1 .. Len(ss) : IsSeq(ss[i])

\* What the first i of them make, one after the other.
Joins1(ss, n, f) == f = [i \in 1 .. n |-> IF i = 1 THEN ss[i] ELSE f[i - 1] \o ss[i]]

LEMMA JoinsExists ==
  ASSUME NEW ss, NEW n \in Nat
  PROVE  \E f : Joins1(ss, n, f)
<1> DEFINE P == {m \in 0 .. n : \E f : Joins1(ss, m, f)}
<1>1. 0 \in P
  <2>1. Joins1(ss, 0, << >>)
    BY DEF Joins1
  <2> QED
    BY <2>1
<1>2. ASSUME NEW m \in 1 .. n, m - 1 \in P PROVE m \in P
  <2>1. PICK f : Joins1(ss, m - 1, f)
    BY <1>2
  <2> DEFINE last == IF m = 1 THEN ss[m] ELSE f[m - 1] \o ss[m]
             g == [i \in 1 .. m |-> IF i = m THEN last ELSE f[i]]
  <2>2. \A i \in 1 .. m : g[i] = IF i = 1 THEN ss[i] ELSE g[i - 1] \o ss[i]
    <3> SUFFICES ASSUME NEW i \in 1 .. m PROVE g[i] = IF i = 1 THEN ss[i] ELSE g[i - 1] \o ss[i]
      OBVIOUS
    <3>1. CASE i = m
      BY <3>1
    <3>2. CASE i # m
      <4>1. i \in 1 .. m - 1 /\ g[i] = f[i]
        BY <3>2
      <4>2. f[i] = IF i = 1 THEN ss[i] ELSE f[i - 1] \o ss[i]
        BY <2>1, <4>1 DEF Joins1
      <4>3. i # 1 => g[i - 1] = f[i - 1]
        BY <4>1
      <4> QED
        BY <4>1, <4>2, <4>3
    <3> QED
      BY <3>1, <3>2
  <2>3. g = [i \in 1 .. m |-> g[i]]
    OBVIOUS
  <2> HIDE DEF g
  <2>4. Joins1(ss, m, g)
    BY <2>2, <2>3 DEF Joins1
  <2> QED
    BY <2>4
<1>3. \A m \in 0 .. n : m \in P
  BY <1>1, <1>2, Induct
<1> QED
  BY <1>3

LEMMA JoinsAgree ==
  ASSUME NEW ss, NEW tt, Len(ss) \in Nat, Len(tt) \in Nat, Len(tt) <= Len(ss), NEW f, NEW g,
         Joins1(ss, Len(ss), f), Joins1(tt, Len(tt), g), \A i \in 1 .. Len(tt) : ss[i] = tt[i]
  PROVE  \A i \in 1 .. Len(tt) : f[i] = g[i]
<1> DEFINE m == Len(tt)  n == Len(ss)
<1> DEFINE P == {i \in 0 .. m : i = 0 \/ f[i] = g[i]}
<1>1. 0 \in P
  OBVIOUS
<1>2. ASSUME NEW i \in 1 .. m, i - 1 \in P PROVE i \in P
  <2>0. i \in 1 .. n
    OBVIOUS
  <2>1. f[i] = IF i = 1 THEN ss[i] ELSE f[i - 1] \o ss[i]
    BY <2>0 DEF Joins1
  <2>2. g[i] = IF i = 1 THEN tt[i] ELSE g[i - 1] \o tt[i]
    BY DEF Joins1
  <2>3. i # 1 => f[i - 1] = g[i - 1]
    BY <1>2
  <2> QED
    BY <2>1, <2>2, <2>3
<1>3. \A i \in 0 .. m : i \in P
  BY <1>1, <1>2, Induct
<1> QED
  BY <1>3

LEMMA FlattenAt ==
  ASSUME NEW ss, NEW n \in Nat, n # 0, Len(ss) = n
  PROVE  \E f : Joins1(ss, n, f) /\ FlattenSeq(ss) = f[n]
<1> DEFINE f == CHOOSE g : g = [i \in 1 .. Len(ss) |-> IF i = 1 THEN ss[i] ELSE g[i - 1] \o ss[i]]
<1>1. FlattenSeq(ss) = f[n]
  BY DEF FlattenSeq
<1>2. \E g : g = [i \in 1 .. Len(ss) |-> IF i = 1 THEN ss[i] ELSE g[i - 1] \o ss[i]]
  BY JoinsExists DEF Joins1
<1>3. f = [i \in 1 .. Len(ss) |-> IF i = 1 THEN ss[i] ELSE f[i - 1] \o ss[i]]
  BY <1>2
<1> HIDE DEF f
<1>4. Joins1(ss, n, f)
  BY <1>3 DEF Joins1
<1> QED
  BY <1>1, <1>4

LEMMA JoinsSeq ==
  ASSUME NEW ss, IsSeqs(ss), NEW n \in Nat, Len(ss) = n, NEW f, Joins1(ss, n, f)
  PROVE  \A i \in 1 .. n : IsSeq(f[i]) /\ ToSet(f[i]) = UNION {ToSet(ss[j]) : j \in 1 .. i}
<1> DEFINE U(i) == UNION {ToSet(ss[j]) : j \in 1 .. i}
           P == {i \in 0 .. n : i = 0 \/ (IsSeq(f[i]) /\ ToSet(f[i]) = U(i))}
<1>1. 0 \in P
  OBVIOUS
<1>2. ASSUME NEW i \in 1 .. n, i - 1 \in P PROVE i \in P
  <2>1. f[i] = IF i = 1 THEN ss[i] ELSE f[i - 1] \o ss[i]
    BY DEF Joins1
  <2>2. IsSeq(ss[i])
    BY DEF IsSeqs
  <2>3. U(i) = U(i - 1) \cup ToSet(ss[i])
    <3>1. 1 .. i = (1 .. i - 1) \cup {i}
      OBVIOUS
    <3> QED
      BY <3>1
  <2>4. CASE i = 1
    <3>1. U(0) = {}
      OBVIOUS
    <3> QED
      BY <2>1, <2>2, <2>3, <2>4, <3>1
  <2>5. CASE i # 1
    <3>1. IsSeq(f[i - 1]) /\ ToSet(f[i - 1]) = U(i - 1)
      BY <1>2, <2>5
    <3>2. IsSeq(f[i]) /\ ToSet(f[i]) = ToSet(f[i - 1]) \cup ToSet(ss[i])
      BY <2>1, <2>2, <2>5, <3>1, Joined, JoinedSet
    <3> QED
      BY <2>3, <3>1, <3>2
  <2> QED
    BY <2>4, <2>5
<1> HIDE DEF P
<1>3. \A i \in 0 .. n : i \in P
  BY <1>1, <1>2, Induct
<1> QED
  BY <1>3 DEF P

\* What a flattened sequence holds.
LEMMA Flattened ==
  ASSUME NEW ss, IsSeqs(ss)
  PROVE  IsSeq(FlattenSeq(ss)) /\ ToSet(FlattenSeq(ss)) = UNION {ToSet(ss[i]) : i \in 1 .. Len(ss)}
<1>1. Len(ss) \in Nat /\ ss = [i \in 1 .. Len(ss) |-> ss[i]]
  BY SeqIs DEF IsSeqs
<1>2. CASE Len(ss) = 0
  <2>1. FlattenSeq(ss) = ss
    BY <1>2 DEF FlattenSeq
  <2>2. DOMAIN ss = {}
    BY <1>1, <1>2
  <2> QED
    BY <1>2, <2>1, <2>2 DEF IsSeqs, ToSet
<1>3. CASE Len(ss) # 0
  <2>1. PICK f : Joins1(ss, Len(ss), f) /\ FlattenSeq(ss) = f[Len(ss)]
    BY <1>1, <1>3, FlattenAt
  <2>2. Len(ss) \in 1 .. Len(ss)
    BY <1>1, <1>3
  <2>3. \A i \in 1 .. Len(ss) : IsSeq(f[i]) /\ ToSet(f[i]) = UNION {ToSet(ss[j]) : j \in 1 .. i}
    <3>1. PICK n \in Nat : Len(ss) = n
      BY <1>1
    <3>2. Joins1(ss, n, f)
      BY <2>1, <3>1
    <3>3. \A i \in 1 .. n : IsSeq(f[i]) /\ ToSet(f[i]) = UNION {ToSet(ss[j]) : j \in 1 .. i}
      BY <3>1, <3>2, JoinsSeq
    <3> QED
      BY <3>1, <3>3
  <2> QED
    BY <2>1, <2>2, <2>3
<1> QED
  BY <1>2, <1>3

\* And with one more at its end.
LEMMA FlattenLast ==
  ASSUME NEW ss, IsSeqs(ss), NEW tt, IsSeqs(tt), Len(tt) = Len(ss) + 1,
         \A i \in 1 .. Len(ss) : tt[i] = ss[i]
  PROVE  FlattenSeq(tt) = FlattenSeq(ss) \o tt[Len(tt)]
<1>1. Len(ss) \in Nat /\ ss = [i \in 1 .. Len(ss) |-> ss[i]]
  BY SeqIs DEF IsSeqs
<1>2. Len(tt) \in Nat /\ Len(tt) # 0 /\ Len(tt) \in 1 .. Len(tt)
  BY <1>1
<1>3. PICK g : Joins1(tt, Len(tt), g) /\ FlattenSeq(tt) = g[Len(tt)]
  BY <1>2, FlattenAt
<1>4. g[Len(tt)] = IF Len(tt) = 1 THEN tt[Len(tt)] ELSE g[Len(tt) - 1] \o tt[Len(tt)]
  BY <1>2, <1>3 DEF Joins1
<1>5. IsSeq(tt[Len(tt)])
  BY <1>2 DEF IsSeqs
<1>6. CASE Len(ss) = 0
  <2>1. FlattenSeq(ss) = ss
    BY <1>6 DEF FlattenSeq
  <2>2. PICK S : tt[Len(tt)] \in Seq(S)
    BY <1>5 DEF IsSeq
  <2>3. ss = << >>
    BY <1>1, <1>6
  <2> QED
    BY <1>1, <1>3, <1>4, <1>6, <2>1, <2>2, <2>3
<1>7. CASE Len(ss) # 0
  <2>1. PICK f : Joins1(ss, Len(ss), f) /\ FlattenSeq(ss) = f[Len(ss)]
    BY <1>1, <1>7, FlattenAt
  <2>2. \A i \in 1 .. Len(ss) : g[i] = f[i]
    <3>1. Len(ss) <= Len(tt)
      BY <1>1
    <3>2. \A i \in 1 .. Len(ss) : tt[i] = ss[i]
      OBVIOUS
    <3>3. Joins1(tt, Len(tt), g) /\ Joins1(ss, Len(ss), f)
      BY <1>3, <2>1
    <3> QED
      BY <1>1, <1>2, <3>1, <3>2, <3>3, JoinsAgree
  <2>3. g[Len(tt) - 1] = f[Len(ss)]
    BY <1>1, <1>7, <2>2
  <2>4. Len(tt) # 1
    BY <1>1, <1>7
  <2> QED
    BY <1>3, <1>4, <2>1, <2>3, <2>4
<1> QED
  BY <1>6, <1>7

-----------------------------------------------------------------------------
(* Pages: the footnotes, and what is drawn above them.                     *)

NotesIn(ns) == IsSeq(ns) /\ \A k \in 1 .. Len(ns) : ns[k] \in DOMAIN NoteLines

\* h holds the heights of the first notes.
Heights(ns, n, h) == h = [k \in 0 .. n |-> IF k = 0 THEN 0 ELSE h[k - 1] + NoteLines[ns[k]]]

LEMMA HeightsExist ==
  ASSUME NEW ns, NEW n \in Nat
  PROVE  \E h : Heights(ns, n, h)
<1> DEFINE P == {m \in 0 .. n : \E h : Heights(ns, m, h)}
<1>1. 0 \in P
  <2>1. Heights(ns, 0, [k \in 0 .. 0 |-> 0])
    BY DEF Heights
  <2> QED
    BY <2>1
<1>2. ASSUME NEW m \in 1 .. n, m - 1 \in P PROVE m \in P
  <2>1. PICK h : Heights(ns, m - 1, h)
    BY <1>2
  <2> DEFINE last == h[m - 1] + NoteLines[ns[m]]
             g == [k \in 0 .. m |-> IF k = m THEN last ELSE h[k]]
  <2>2. \A k \in 0 .. m : g[k] = IF k = 0 THEN 0 ELSE g[k - 1] + NoteLines[ns[k]]
    <3> SUFFICES ASSUME NEW k \in 0 .. m PROVE g[k] = IF k = 0 THEN 0 ELSE g[k - 1] + NoteLines[ns[k]]
      OBVIOUS
    <3>1. CASE k = m
      BY <3>1
    <3>2. CASE k # m
      <4>1. k \in 0 .. m - 1 /\ g[k] = h[k]
        BY <3>2
      <4>2. h[k] = IF k = 0 THEN 0 ELSE h[k - 1] + NoteLines[ns[k]]
        BY <2>1, <4>1 DEF Heights
      <4>3. k # 0 => g[k - 1] = h[k - 1]
        BY <4>1
      <4> QED
        BY <4>1, <4>2, <4>3
    <3> QED
      BY <3>1, <3>2
  <2>3. g = [k \in 0 .. m |-> g[k]]
    OBVIOUS
  <2> HIDE DEF g
  <2>4. Heights(ns, m, g)
    BY <2>2, <2>3 DEF Heights
  <2> QED
    BY <2>4
<1>3. \A m \in 0 .. n : m \in P
  BY <1>1, <1>2, Induct
<1> QED
  BY <1>3

LEMMA HeightsAre ==
  ASSUME NEW ns, Len(ns) \in Nat
  PROVE  Heights(ns, Len(ns), NoteHeights(ns))
<1> DEFINE h == CHOOSE g : g = [k \in 0 .. Len(ns) |-> IF k = 0 THEN 0 ELSE g[k - 1] + NoteLines[ns[k]]]
<1>1. NoteHeights(ns) = h
  BY DEF NoteHeights
<1>2. \E g : g = [k \in 0 .. Len(ns) |-> IF k = 0 THEN 0 ELSE g[k - 1] + NoteLines[ns[k]]]
  BY HeightsExist DEF Heights
<1>3. h = [k \in 0 .. Len(ns) |-> IF k = 0 THEN 0 ELSE h[k - 1] + NoteLines[ns[k]]]
  BY <1>2
<1> HIDE DEF h
<1> QED
  BY <1>1, <1>3 DEF Heights

\* The lines above a note, and with it.
LEMMA HeightsGrow ==
  ASSUME NEW ns, NotesIn(ns)
  PROVE  /\ \A k \in 0 .. Len(ns) : NoteHeights(ns)[k] \in Nat /\ NoteHeights(ns)[k] <= NoteHeights(ns)[Len(ns)]
         /\ NoteHeights(ns)[0] = 0
         /\ \A k \in 1 .. Len(ns) : NoteHeights(ns)[k] = NoteHeights(ns)[k - 1] + NoteLines[ns[k]]
         /\ \A k \in 1 .. Len(ns) : NoteLines[ns[k]] \in Nat
<1> DEFINE h == NoteHeights(ns)  n == Len(ns)
<1>0. n \in Nat /\ \A k \in 1 .. n : NoteLines[ns[k]] \in Nat
  BY SeqIs, PageAssumption DEF NotesIn
<1>1. h = [k \in 0 .. n |-> IF k = 0 THEN 0 ELSE h[k - 1] + NoteLines[ns[k]]]
  BY <1>0, HeightsAre DEF Heights
<1> HIDE DEF h
<1>2. h[0] = 0
  BY <1>0, <1>1
<1>3. \A k \in 1 .. n : h[k] = h[k - 1] + NoteLines[ns[k]]
  BY <1>0, <1>1
<1>4. \A k \in 0 .. n : h[k] \in Nat
  <2> DEFINE P == {k \in 0 .. n : h[k] \in Nat}
  <2>1. 0 \in P
    BY <1>0, <1>2
  <2>2. \A k \in 1 .. n : k - 1 \in P => k \in P
    BY <1>0, <1>3
  <2> HIDE DEF P
  <2>3. \A k \in 0 .. n : k \in P
    BY <1>0, <2>1, <2>2, Induct
  <2> QED
    BY <2>3 DEF P
<1>5. \A k \in 0 .. n : h[k] <= h[n]
  <2> DEFINE P == {m \in 0 .. n : \A k \in 0 .. m : h[k] <= h[m]}
  <2>1. 0 \in P
    BY <1>0, <1>2
  <2>2. ASSUME NEW m \in 1 .. n, m - 1 \in P PROVE m \in P
    <3>1. h[m - 1] <= h[m] /\ h[m] \in Nat /\ h[m - 1] \in Nat
      BY <1>0, <1>3, <1>4
    <3>2. \A k \in 0 .. m - 1 : h[k] <= h[m - 1] /\ h[k] \in Nat
      BY <1>0, <1>4, <2>2
    <3>3. \A k \in 0 .. m : k = m \/ k \in 0 .. m - 1
      OBVIOUS
    <3> QED
      BY <3>1, <3>2, <3>3
  <2> HIDE DEF P
  <2>3. \A m \in 0 .. n : m \in P
    BY <1>0, <2>1, <2>2, Induct
  <2>4. n \in P
    BY <1>0, <2>3
  <2> QED
    BY <2>4 DEF P
<1> QED
  BY <1>0, <1>2, <1>3, <1>4, <1>5 DEF h

\* A note more takes more of the page.
LEMMA AreaIs ==
  ASSUME NEW ns, NotesIn(ns)
  PROVE  Area(ns) \in Nat /\ (Len(ns) = 0 => Area(ns) = 0) /\ (Len(ns) # 0 => Area(ns) = 1 + NoteHeights(ns)[Len(ns)])
<1>1. Len(ns) \in Nat /\ ns = [i \in 1 .. Len(ns) |-> ns[i]]
  BY SeqIs DEF NotesIn
<1>2. Len(ns) = 0 => ns = << >>
  BY <1>1
<1>3. ns = << >> => Len(ns) = 0
  BY NoneSeq
<1>4. Len(ns) \in 0 .. Len(ns)
  BY <1>1
<1>5. NoteHeights(ns)[Len(ns)] \in Nat
  BY <1>4, HeightsGrow
<1> QED
  BY <1>1, <1>2, <1>3, <1>5 DEF Area

LEMMA AreaGrows ==
  ASSUME NEW ns, NotesIn(ns), NEW w \in DOMAIN NoteLines
  PROVE  /\ NotesIn(Append(ns, w))
         /\ Area(Append(ns, w)) = (IF Len(ns) = 0 THEN 1 ELSE Area(ns)) + NoteLines[w]
<1> DEFINE ms == Append(ns, w)  n == Len(ns)
<1>1. n \in Nat /\ IsSeq(ms) /\ Len(ms) = n + 1 /\ (\A i \in 1 .. n : ms[i] = ns[i]) /\ ms[n + 1] = w
  BY Appended, SeqIs DEF NotesIn
<1>2. NotesIn(ms)
  BY <1>1 DEF NotesIn
<1> HIDE DEF ms
<1>3. /\ NoteHeights(ms)[0] = 0
      /\ \A k \in 1 .. n + 1 : NoteHeights(ms)[k] = NoteHeights(ms)[k - 1] + NoteLines[ms[k]]
  BY <1>1, <1>2, HeightsGrow
<1>4. /\ NoteHeights(ns)[0] = 0
      /\ \A k \in 1 .. n : NoteHeights(ns)[k] = NoteHeights(ns)[k - 1] + NoteLines[ns[k]]
  BY HeightsGrow
<1>5. \A k \in 0 .. n : NoteHeights(ms)[k] = NoteHeights(ns)[k]
  <2> DEFINE P == {k \in 0 .. n : NoteHeights(ms)[k] = NoteHeights(ns)[k]}
  <2>1. 0 \in P
    BY <1>1, <1>3, <1>4
  <2>2. \A k \in 1 .. n : k - 1 \in P => k \in P
    BY <1>1, <1>3, <1>4
  <2> HIDE DEF P
  <2>3. \A k \in 0 .. n : k \in P
    BY <1>1, <2>1, <2>2, Induct
  <2> QED
    BY <2>3 DEF P
<1>6. NoteHeights(ms)[n + 1] = NoteHeights(ns)[n] + NoteLines[w]
  <2>1. n + 1 \in 1 .. n + 1 /\ n \in 0 .. n /\ n + 1 - 1 = n
    BY <1>1
  <2> QED
    BY <1>1, <1>3, <1>5, <2>1
<1>7. NoteHeights(ns)[n] \in Nat /\ NoteLines[w] \in Nat
  BY <1>1, HeightsGrow, PageAssumption
<1>8. Area(ms) = 1 + NoteHeights(ms)[n + 1]
  BY <1>1, <1>2, AreaIs
<1>9. n # 0 => Area(ns) = 1 + NoteHeights(ns)[n]
  BY AreaIs
<1> QED
  BY <1>1, <1>2, <1>4, <1>6, <1>7, <1>8, <1>9 DEF ms

\* No block of signatures is higher than a page: the code draws it whole.
BlocksFit ==
  \A s \in Sources : \A i \in DOMAIN s.body : s.body[i].k = "macro" =>
    /\ s.body[i].macro = "sign" => SignLines + s.body[i].n <= LinesPerPage
    /\ s.body[i].macro = "seal" => s.body[i].n <= LinesPerPage

\* What is drawn, and where the next line goes, below it.
SheetOk(s) ==
  /\ s = [page |-> s.page, line |-> s.line, notes |-> s.notes, drawn |-> s.drawn, foot |-> s.foot]
  /\ s.page \in Nat \ {0} /\ s.line \in Nat \ {0} /\ NotesIn(s.notes) /\ IsSeq(s.drawn)
  /\ \A m \in s.foot : m.what \in DOMAIN NoteLines
  /\ \A k \in 1 .. Len(s.drawn) :
       /\ s.drawn[k].page \in 1 .. s.page /\ s.drawn[k].line \in Nat \ {0} /\ s.drawn[k].height \in Nat
       /\ BlocksFit => Lowest(s.drawn[k]) <= LinesPerPage
       /\ s.drawn[k].page = s.page => Lowest(s.drawn[k]) < s.line
  /\ \A k \in 1 .. Len(s.drawn) - 1 :
       \/ s.drawn[k].page < s.drawn[k + 1].page
       \/ s.drawn[k].page = s.drawn[k + 1].page /\ Lowest(s.drawn[k]) < s.drawn[k + 1].line

\* The first k of these words are drawn for block i.
Adds(s, t, i, ws, k) ==
  /\ IsSeq(t.drawn) /\ Len(t.drawn) = Len(s.drawn) + k
  /\ \A j \in 1 .. Len(s.drawn) : t.drawn[j] = s.drawn[j]
  /\ \A j \in 1 .. k : t.drawn[Len(s.drawn) + j].block = i /\ t.drawn[Len(s.drawn) + j].what = ws[j]

Plain(bs, m) == bs[m.block].kind \notin SignKinds
Noted(bs, m) == bs[m.block].kind \in TextKinds /\ m.what \in DOMAIN NoteLines

\* The notes at the foot of the pages before p are below the text.
FootBelow(bs, s, p) ==
  \A n \in s.foot :
    /\ n.page \in 1 .. p /\ n.line \in Int /\ Lowest(n) <= LinesPerPage
    /\ \A k \in 1 .. Len(s.drawn) : s.drawn[k].page = n.page /\ Plain(bs, s.drawn[k]) => Lowest(s.drawn[k]) < n.line - 1

\* And each page has those of its markers.
FootThere(bs, s, p) ==
  \A k \in 1 .. Len(s.drawn) : s.drawn[k].page <= p /\ Noted(bs, s.drawn[k]) =>
    \E n \in s.foot : n.what = s.drawn[k].what /\ n.page = s.drawn[k].page

\* The page that is being filled has the room.
RoomLeft(bs, s) ==
  \A k \in 1 .. Len(s.drawn) : s.drawn[k].page = s.page =>
    /\ Plain(bs, s.drawn[k]) => Lowest(s.drawn[k]) <= Bottom(s)
    /\ Noted(bs, s.drawn[k]) => s.drawn[k].what \in ToSet(s.notes)

FootOk(bs, s) == FootBelow(bs, s, s.page - 1) /\ FootThere(bs, s, s.page - 1) /\ RoomLeft(bs, s)

LEMMA BottomIs ==
  ASSUME NEW s, SheetOk(s)
  PROVE  Bottom(s) \in Int /\ Bottom(s) <= LinesPerPage /\ LinesPerPage \in Nat /\ (s.notes = << >> => Bottom(s) = LinesPerPage)
<1>1. Area(s.notes) \in Nat
  BY AreaIs DEF SheetOk
<1>2. LinesPerPage \in Nat
  BY PageAssumption
<1>3. s.notes = << >> => Area(s.notes) = 0
  BY DEF Area
<1> QED
  BY <1>1, <1>2, <1>3 DEF Bottom

LEMMA RenderedSame ==
  ASSUME NEW s, SheetOk(s)
  PROVE  LET t == RenderNotes(s) IN
         SheetOk(t) /\ t.page = s.page /\ t.line = s.line /\ t.notes = s.notes /\ t.drawn = s.drawn
<1> DEFINE t == RenderNotes(s)
<1>1. s = [page |-> s.page, line |-> s.line, notes |-> s.notes, drawn |-> s.drawn, foot |-> s.foot]
  BY DEF SheetOk
<1>2. t = [page |-> s.page, line |-> s.line, notes |-> s.notes, drawn |-> s.drawn, foot |-> t.foot]
  BY <1>1 DEF RenderNotes
<1>3. t.page = s.page /\ t.line = s.line /\ t.notes = s.notes /\ t.drawn = s.drawn
  BY <1>2
<1>5. DOMAIN s.notes = 1 .. Len(s.notes) /\ \A k \in 1 .. Len(s.notes) : s.notes[k] \in DOMAIN NoteLines
  BY SeqIs DEF SheetOk, NotesIn
<1>6. \A m \in t.foot : m.what \in DOMAIN NoteLines
  BY <1>1, <1>5 DEF RenderNotes, Mark, SheetOk
<1> HIDE DEF t
<1>4. SheetOk(t)
  BY <1>2, <1>3, <1>6 DEF SheetOk
<1> QED
  BY <1>3, <1>4 DEF t

LEMMA RenderedFoot ==
  ASSUME NEW s, SheetOk(s)
  PROVE  RenderNotes(s).foot = s.foot \cup
           {Mark(s, Bottom(s) + 2 + NoteHeights(s.notes)[k - 1], NoteLines[s.notes[k]], 0, s.notes[k]) : k \in 1 .. Len(s.notes)}
<1>1. s = [page |-> s.page, line |-> s.line, notes |-> s.notes, drawn |-> s.drawn, foot |-> s.foot]
  BY DEF SheetOk
<1>2. DOMAIN s.notes = 1 .. Len(s.notes)
  BY SeqIs DEF SheetOk, NotesIn
<1> QED
  BY <1>1, <1>2 DEF RenderNotes

LEMMA RenderedOk ==
  ASSUME NEW bs, NEW s, SheetOk(s), FootOk(bs, s)
  PROVE  LET t == RenderNotes(s) IN FootBelow(bs, t, t.page) /\ FootThere(bs, t, t.page)
<1> DEFINE t == RenderNotes(s)
           new(k) == Mark(s, Bottom(s) + 2 + NoteHeights(s.notes)[k - 1], NoteLines[s.notes[k]], 0, s.notes[k])
<1>1. t.page = s.page /\ t.notes = s.notes /\ t.drawn = s.drawn
  BY RenderedSame
<1>2. t.foot = s.foot \cup {new(k) : k \in 1 .. Len(s.notes)}
  BY RenderedFoot
<1> HIDE DEF t
<1>3. ASSUME NEW k \in 1 .. Len(s.notes)
      PROVE  /\ new(k).page = s.page /\ new(k).what = s.notes[k]
             /\ new(k).line \in Int /\ Lowest(new(k)) <= LinesPerPage /\ Bottom(s) < new(k).line - 1
  <2> DEFINE h == NoteHeights(s.notes)
  <2>1. NotesIn(s.notes) /\ Len(s.notes) \in Nat /\ Len(s.notes) # 0
    BY SeqIs DEF SheetOk, NotesIn
  <2>2. k - 1 \in 0 .. Len(s.notes) /\ k \in 0 .. Len(s.notes)
    BY <2>1
  <2>3. h[k - 1] \in Nat /\ h[k] \in Nat /\ h[k] <= h[Len(s.notes)] /\ h[k] = h[k - 1] + NoteLines[s.notes[k]]
        /\ NoteLines[s.notes[k]] \in Nat /\ h[Len(s.notes)] \in Nat
    BY <2>1, <2>2, HeightsGrow
  <2>4. Bottom(s) = LinesPerPage - (1 + h[Len(s.notes)])
    BY <2>1, AreaIs DEF Bottom
  <2>5. LinesPerPage \in Nat
    BY PageAssumption
  <2> HIDE DEF h
  <2>6. new(k).page = s.page /\ new(k).what = s.notes[k] /\ new(k).line = Bottom(s) + 2 + h[k - 1] /\ new(k).height = NoteLines[s.notes[k]]
    BY DEF Mark, h
  <2> HIDE DEF new
  <2>7. ASSUME NEW L \in Nat, NEW H \in Nat, NEW a \in Nat, NEW b \in Nat, NEW c \in Nat, NEW B, b = a + c, b <= H, B = L - (1 + H)
        PROVE  B + 2 + a \in Int /\ B + 2 + a + c - 1 <= L /\ B < B + 2 + a - 1
    BY <2>7
  <2>8. Bottom(s) + 2 + h[k - 1] \in Int /\ Bottom(s) + 2 + h[k - 1] + NoteLines[s.notes[k]] - 1 <= LinesPerPage
        /\ Bottom(s) < Bottom(s) + 2 + h[k - 1] - 1
    BY <2>3, <2>4, <2>5, <2>7
  <2>9. Bottom(s) \in Int
    BY BottomIs
  <2>10. Lowest(new(k)) = Bottom(s) + 2 + h[k - 1] + NoteLines[s.notes[k]] - 1
    BY <2>6 DEF Lowest
  <2>11. Lowest(new(k)) <= LinesPerPage
    BY <2>8, <2>10
  <2>12. new(k).line \in Int /\ Bottom(s) < new(k).line - 1
    BY <2>3, <2>6, <2>8, <2>9
  <2> QED
    BY <2>6, <2>11, <2>12
<1> HIDE DEF new
<1>4. s.page \in Nat \ {0} /\ LinesPerPage \in Nat
  BY PageAssumption DEF SheetOk
<1>5. Bottom(s) \in Int
  BY BottomIs
<1>6. \A k \in 1 .. Len(s.drawn) : s.drawn[k].page \in 1 .. s.page /\ Lowest(s.drawn[k]) \in Int
  BY DEF SheetOk, Lowest
<1>7. FootBelow(bs, t, t.page)
  <2> SUFFICES ASSUME NEW n \in t.foot
               PROVE  /\ n.page \in 1 .. t.page /\ n.line \in Int /\ Lowest(n) <= LinesPerPage
                      /\ \A k \in 1 .. Len(t.drawn) : t.drawn[k].page = n.page /\ Plain(bs, t.drawn[k]) => Lowest(t.drawn[k]) < n.line - 1
    BY DEF FootBelow
  <2>1. CASE n \in s.foot
    <3>1. /\ n.page \in 1 .. s.page - 1 /\ n.line \in Int /\ Lowest(n) <= LinesPerPage
          /\ \A k \in 1 .. Len(s.drawn) : s.drawn[k].page = n.page /\ Plain(bs, s.drawn[k]) => Lowest(s.drawn[k]) < n.line - 1
      BY <2>1 DEF FootOk, FootBelow
    <3> QED
      BY <1>1, <1>4, <3>1
  <2>2. CASE n \notin s.foot
    <3>1. PICK k \in 1 .. Len(s.notes) : n = new(k)
      BY <1>2, <2>2
    <3>2. n.page = s.page /\ n.line \in Int /\ Lowest(n) <= LinesPerPage /\ Bottom(s) < n.line - 1
      BY <1>3, <3>1
    <3>3. \A j \in 1 .. Len(s.drawn) : s.drawn[j].page = s.page /\ Plain(bs, s.drawn[j]) => Lowest(s.drawn[j]) <= Bottom(s)
      BY DEF FootOk, RoomLeft
    <3>4. \A j \in 1 .. Len(s.drawn) : s.drawn[j].page = n.page /\ Plain(bs, s.drawn[j]) => Lowest(s.drawn[j]) < n.line - 1
      BY <1>5, <1>6, <3>2, <3>3
    <3> QED
      BY <1>1, <1>4, <3>2, <3>4
  <2> QED
    BY <2>1, <2>2
<1>8. FootThere(bs, t, t.page)
  <2> SUFFICES ASSUME NEW k \in 1 .. Len(t.drawn), t.drawn[k].page <= t.page, Noted(bs, t.drawn[k])
               PROVE  \E n \in t.foot : n.what = t.drawn[k].what /\ n.page = t.drawn[k].page
    BY DEF FootThere
  <2>1. CASE s.drawn[k].page = s.page
    <3>1. s.drawn[k].what \in ToSet(s.notes)
      BY <1>1, <2>1 DEF FootOk, RoomLeft
    <3>2. DOMAIN s.notes = 1 .. Len(s.notes)
      BY SeqIs DEF SheetOk, NotesIn
    <3>3. PICK j \in 1 .. Len(s.notes) : s.notes[j] = s.drawn[k].what
      BY <3>1, <3>2 DEF ToSet
    <3>4. new(j) \in t.foot /\ new(j).what = t.drawn[k].what /\ new(j).page = t.drawn[k].page
      BY <1>1, <1>2, <1>3, <2>1, <3>3
    <3> QED
      BY <3>4
  <2>2. CASE s.drawn[k].page # s.page
    <3>1. s.drawn[k].page <= s.page - 1
      BY <1>1, <1>4, <1>6, <2>2
    <3>2. \E n \in s.foot : n.what = s.drawn[k].what /\ n.page = s.drawn[k].page
      BY <1>1, <3>1 DEF FootOk, FootThere
    <3> QED
      BY <1>1, <1>2, <3>2
  <2> QED
    BY <2>1, <2>2
<1> QED
  BY <1>7, <1>8 DEF t

\* A page that is turned.
LEMMA TurnedOk ==
  ASSUME NEW s, SheetOk(s), NEW c
  PROVE  LET t == TurnIf(s, c) IN
         /\ SheetOk(t) /\ t.drawn = s.drawn
         /\ c => t.line = 1 /\ t.notes = << >> /\ t.page = s.page + 1
         /\ ~c => t = s
<1> DEFINE t == StartPage(s)  r == RenderNotes(s)
<1>1. r = [page |-> r.page, line |-> r.line, notes |-> r.notes, drawn |-> r.drawn, foot |-> r.foot]
      /\ r.page = s.page /\ r.drawn = s.drawn /\ \A m \in r.foot : m.what \in DOMAIN NoteLines
  BY RenderedSame DEF SheetOk
<1>2. t = [r EXCEPT !.page = @ + 1, !.line = 1, !.notes = << >>]
  BY DEF StartPage
<1> HIDE DEF r
<1>3. t = [page |-> s.page + 1, line |-> 1, notes |-> << >>, drawn |-> s.drawn, foot |-> r.foot]
  BY <1>1, <1>2
<1> HIDE DEF t
<1>4. t.page = s.page + 1 /\ t.line = 1 /\ t.notes = << >> /\ t.drawn = s.drawn /\ t.foot = r.foot
  BY <1>3
<1>5. SheetOk(t)
  <2>1. s.page \in Nat \ {0}
    BY DEF SheetOk
  <2>2. NotesIn(t.notes)
    BY <1>4, NoneSeq DEF NotesIn
  <2>3. \A k \in 1 .. Len(s.drawn) : s.drawn[k].page \in 1 .. t.page /\ s.drawn[k].page # t.page
    BY <1>4, <2>1 DEF SheetOk
  <2>4. t.page \in Nat \ {0} /\ t.line \in Nat \ {0}
    BY <1>4, <2>1
  <2>5. t = [page |-> t.page, line |-> t.line, notes |-> t.notes, drawn |-> t.drawn, foot |-> t.foot]
    BY <1>3, <1>4
  <2> QED
    BY <1>1, <1>4, <2>2, <2>3, <2>4, <2>5 DEF SheetOk
<1> QED
  BY <1>4, <1>5 DEF TurnIf, t

LEMMA TurnedFoot ==
  ASSUME NEW bs, NEW s, SheetOk(s), FootOk(bs, s), NEW c
  PROVE  FootOk(bs, TurnIf(s, c))
<1> DEFINE t == TurnIf(s, c)  r == RenderNotes(s)
<1>1. CASE ~c
  BY <1>1 DEF TurnIf
<1>2. CASE c
  <2>1. t.drawn = s.drawn /\ t.page = s.page + 1
    BY <1>2, TurnedOk
  <2>2. t.foot = r.foot
    <3>1. r = [page |-> r.page, line |-> r.line, notes |-> r.notes, drawn |-> r.drawn, foot |-> r.foot]
      BY RenderedSame DEF SheetOk
    <3> QED
      BY <1>2, <3>1 DEF TurnIf, StartPage
  <2>3. r.page = s.page /\ r.drawn = s.drawn /\ FootBelow(bs, r, r.page) /\ FootThere(bs, r, r.page)
    BY RenderedSame, RenderedOk
  <2>4. s.page \in Nat \ {0} /\ \A k \in 1 .. Len(s.drawn) : s.drawn[k].page \in 1 .. s.page
    BY DEF SheetOk
  <2> HIDE DEF t, r
  <2>5. t.page - 1 = s.page
    BY <2>1, <2>4
  <2>6. FootBelow(bs, t, s.page)
    BY <2>1, <2>2, <2>3 DEF FootBelow
  <2>7. FootThere(bs, t, s.page)
    BY <2>1, <2>2, <2>3 DEF FootThere
  <2>8. \A k \in 1 .. Len(t.drawn) : t.drawn[k].page # t.page
    BY <2>1, <2>4
  <2>9. RoomLeft(bs, t)
    BY <2>8 DEF RoomLeft
  <2> QED
    BY <2>5, <2>6, <2>7, <2>9 DEF FootOk, t
<1> QED
  BY <1>1, <1>2

\* One more mark.
LEMMA DrawnOk ==
  ASSUME NEW s, SheetOk(s), NEW h \in Nat, BlocksFit => s.line + h - 1 <= LinesPerPage, NEW i, NEW w
  PROVE  LET t == Draw(s, h, i, w) IN
         /\ SheetOk(t) /\ t.page = s.page /\ t.line = s.line + h /\ t.notes = s.notes /\ t.foot = s.foot
         /\ t.drawn = Append(s.drawn, Mark(s, s.line, h, i, w))
         /\ Adds(s, t, i, <<w>>, 1)
<1> DEFINE t == Draw(s, h, i, w)  n == Len(s.drawn)  m == Mark(s, s.line, h, i, w)
<1>1. s = [page |-> s.page, line |-> s.line, notes |-> s.notes, drawn |-> s.drawn, foot |-> s.foot]
  BY DEF SheetOk
<1>3. m.page = s.page /\ m.line = s.line /\ m.height = h /\ m.block = i /\ m.what = w
  BY DEF Mark
<1> HIDE DEF m
<1>14. t = [s EXCEPT !.drawn = Append(@, m), !.line = @ + h]
  BY DEF Draw, m
<1> HIDE DEF t
<1>2. t = [page |-> s.page, line |-> s.line + h, notes |-> s.notes, drawn |-> Append(s.drawn, m), foot |-> s.foot]
  BY <1>1, <1>14
<1>4. n \in Nat /\ s.line \in Nat \ {0} /\ s.page \in Nat \ {0}
  BY SeqIs DEF SheetOk
<1>5. t.page = s.page /\ t.line = s.line + h /\ t.notes = s.notes /\ t.drawn = Append(s.drawn, m) /\ t.foot = s.foot
  BY <1>2
<1>6. IsSeq(t.drawn) /\ Len(t.drawn) = n + 1 /\ (\A k \in 1 .. n : t.drawn[k] = s.drawn[k]) /\ t.drawn[n + 1] = m
  BY <1>5, Appended DEF SheetOk
<1>7. Lowest(m) = s.line + h - 1 /\ (BlocksFit => Lowest(m) <= LinesPerPage) /\ Lowest(m) < t.line
  <2>1. Lowest(m) = s.line + h - 1
    BY <1>3 DEF Lowest
  <2> QED
    BY <1>4, <1>5, <2>1
<1>8. ASSUME NEW k \in 1 .. n + 1
      PROVE  /\ t.drawn[k].page \in 1 .. t.page /\ t.drawn[k].line \in Nat \ {0} /\ t.drawn[k].height \in Nat
             /\ BlocksFit => Lowest(t.drawn[k]) <= LinesPerPage
             /\ t.drawn[k].page = t.page => Lowest(t.drawn[k]) < t.line
  <2>1. CASE k = n + 1
    BY <1>3, <1>4, <1>5, <1>6, <1>7, <2>1
  <2>2. CASE k # n + 1
    <3>1. k \in 1 .. n /\ t.drawn[k] = s.drawn[k]
      BY <1>4, <1>6, <2>2
    <3>2. /\ s.drawn[k].page \in 1 .. s.page /\ s.drawn[k].line \in Nat \ {0} /\ s.drawn[k].height \in Nat
          /\ BlocksFit => Lowest(s.drawn[k]) <= LinesPerPage
          /\ s.drawn[k].page = s.page => Lowest(s.drawn[k]) < s.line
      BY <3>1 DEF SheetOk
    <3>3. Lowest(s.drawn[k]) \in Int
      BY <3>2 DEF Lowest
    <3>4. Lowest(s.drawn[k]) < s.line => Lowest(s.drawn[k]) < t.line
      BY <1>4, <1>5, <3>3
    <3> QED
      BY <1>5, <3>1, <3>2, <3>4
  <2> QED
    BY <2>1, <2>2
<1>9. ASSUME NEW k \in 1 .. n
      PROVE  \/ t.drawn[k].page < t.drawn[k + 1].page
             \/ t.drawn[k].page = t.drawn[k + 1].page /\ Lowest(t.drawn[k]) < t.drawn[k + 1].line
  <2>1. CASE k = n
    <3>1. t.drawn[k] = s.drawn[n] /\ t.drawn[k + 1] = m
      BY <1>4, <1>6, <2>1
    <3>2. s.drawn[n].page \in 1 .. s.page /\ (s.drawn[n].page = s.page => Lowest(s.drawn[n]) < s.line)
      BY <2>1 DEF SheetOk
    <3> QED
      BY <1>3, <1>4, <3>1, <3>2
  <2>2. CASE k # n
    <3>1. k \in 1 .. n - 1 /\ k + 1 \in 1 .. n /\ t.drawn[k] = s.drawn[k] /\ t.drawn[k + 1] = s.drawn[k + 1]
      BY <1>4, <1>6, <2>2
    <3> QED
      BY <3>1 DEF SheetOk
  <2> QED
    BY <2>1, <2>2
<1>10. t = [page |-> t.page, line |-> t.line, notes |-> t.notes, drawn |-> t.drawn, foot |-> t.foot]
  BY <1>2
<1>11. t.line \in Nat \ {0} /\ NotesIn(t.notes) /\ \A e \in t.foot : e.what \in DOMAIN NoteLines
  BY <1>4, <1>5 DEF SheetOk
<1>12. SheetOk(t)
  <2>1. Len(t.drawn) = n + 1 /\ Len(t.drawn) - 1 = n
    BY <1>4, <1>6
  <2>2. t.page \in Nat \ {0}
    BY <1>4, <1>5
  <2>3. \A k \in 1 .. Len(t.drawn) - 1 :
          \/ t.drawn[k].page < t.drawn[k + 1].page
          \/ t.drawn[k].page = t.drawn[k + 1].page /\ Lowest(t.drawn[k]) < t.drawn[k + 1].line
    BY <1>9, <2>1
  <2>4. \A k \in 1 .. Len(t.drawn) :
          /\ t.drawn[k].page \in 1 .. t.page /\ t.drawn[k].line \in Nat \ {0} /\ t.drawn[k].height \in Nat
          /\ BlocksFit => Lowest(t.drawn[k]) <= LinesPerPage
          /\ t.drawn[k].page = t.page => Lowest(t.drawn[k]) < t.line
    BY <1>8, <2>1
  <2> QED
    BY <1>6, <1>10, <1>11, <2>2, <2>3, <2>4 DEF SheetOk
<1>13. Adds(s, t, i, <<w>>, 1)
  <2>1. \A j \in 1 .. 1 : j = 1
    OBVIOUS
  <2> QED
    BY <1>3, <1>6, <2>1 DEF Adds
<1> QED
  BY <1>5, <1>12, <1>13 DEF t, m

LEMMA DrawnFoot ==
  ASSUME NEW bs, NEW s, SheetOk(s), FootOk(bs, s), NEW h \in Nat, BlocksFit => s.line + h - 1 <= LinesPerPage, NEW i, NEW w,
         bs[i].kind \notin SignKinds => s.line + h - 1 <= Bottom(s),
         bs[i].kind \in TextKinds /\ w \in DOMAIN NoteLines => w \in ToSet(s.notes)
  PROVE  FootOk(bs, Draw(s, h, i, w))
<1> DEFINE t == Draw(s, h, i, w)  n == Len(s.drawn)  m == Mark(s, s.line, h, i, w)
<1>1. t.page = s.page /\ t.notes = s.notes /\ t.foot = s.foot /\ t.drawn = Append(s.drawn, m)
  <2> DEFINE d == Draw(s, h, i, w)
  <2>1. /\ SheetOk(d) /\ d.page = s.page /\ d.line = s.line + h /\ d.notes = s.notes /\ d.foot = s.foot
        /\ d.drawn = Append(s.drawn, Mark(s, s.line, h, i, w))
        /\ Adds(s, d, i, <<w>>, 1)
    BY DrawnOk, ZenonT(30)
  <2> QED
    BY <2>1
<1>2. m.page = s.page /\ m.line = s.line /\ m.height = h /\ m.block = i /\ m.what = w
  BY DEF Mark
<1> HIDE DEF t, m
<1>3. n \in Nat /\ Len(t.drawn) = n + 1 /\ (\A k \in 1 .. n : t.drawn[k] = s.drawn[k]) /\ t.drawn[n + 1] = m
  BY <1>1, Appended, SeqIs DEF SheetOk
<1>4. \A k \in 1 .. n + 1 : k = n + 1 \/ k \in 1 .. n
  BY <1>3
<1>5. s.page \in Nat \ {0} /\ s.page # 0
  BY DEF SheetOk
<1>6. FootBelow(bs, t, t.page - 1)
  <2> SUFFICES ASSUME NEW f \in s.foot
               PROVE  /\ f.page \in 1 .. s.page - 1 /\ f.line \in Int /\ Lowest(f) <= LinesPerPage
                      /\ \A k \in 1 .. n + 1 : t.drawn[k].page = f.page /\ Plain(bs, t.drawn[k]) => Lowest(t.drawn[k]) < f.line - 1
    BY <1>1, <1>3 DEF FootBelow
  <2>1. /\ f.page \in 1 .. s.page - 1 /\ f.line \in Int /\ Lowest(f) <= LinesPerPage
        /\ \A k \in 1 .. n : s.drawn[k].page = f.page /\ Plain(bs, s.drawn[k]) => Lowest(s.drawn[k]) < f.line - 1
    BY DEF FootOk, FootBelow
  <2>2. f.page # s.page
    BY <1>5, <2>1
  <2> QED
    BY <1>2, <1>3, <1>4, <2>1, <2>2
<1>7. FootThere(bs, t, t.page - 1)
  <2> SUFFICES ASSUME NEW k \in 1 .. n + 1, t.drawn[k].page <= s.page - 1, Noted(bs, t.drawn[k])
               PROVE  \E f \in s.foot : f.what = t.drawn[k].what /\ f.page = t.drawn[k].page
    BY <1>1, <1>3 DEF FootThere
  <2>1. k # n + 1
    BY <1>2, <1>3, <1>5
  <2> QED
    BY <1>3, <1>4, <2>1 DEF FootOk, FootThere
<1>8. RoomLeft(bs, t)
  <2> SUFFICES ASSUME NEW k \in 1 .. n + 1, t.drawn[k].page = s.page
               PROVE  /\ Plain(bs, t.drawn[k]) => Lowest(t.drawn[k]) <= Bottom(s)
                      /\ Noted(bs, t.drawn[k]) => t.drawn[k].what \in ToSet(s.notes)
    BY <1>1, <1>3 DEF RoomLeft, Bottom
  <2>1. CASE k = n + 1
    <3>1. Lowest(m) = s.line + h - 1
      BY <1>2 DEF Lowest
    <3> QED
      BY <1>2, <1>3, <2>1, <3>1 DEF Plain, Noted
  <2>2. CASE k # n + 1
    BY <1>3, <1>4, <2>2 DEF FootOk, RoomLeft
  <2> QED
    BY <2>1, <2>2
<1> QED
  BY <1>6, <1>7, <1>8 DEF FootOk, t

\* The next line may be lower.
LEMMA LineLower ==
  ASSUME NEW bs, NEW s, SheetOk(s)
  PROVE  LET t == [s EXCEPT !.line = @ + 1] IN
         SheetOk(t) /\ t.page = s.page /\ t.notes = s.notes /\ t.drawn = s.drawn /\ (FootOk(bs, s) => FootOk(bs, t))
<1> DEFINE t == [s EXCEPT !.line = @ + 1]
<1>1. s = [page |-> s.page, line |-> s.line, notes |-> s.notes, drawn |-> s.drawn, foot |-> s.foot]
  BY DEF SheetOk
<1>2. t = [page |-> s.page, line |-> s.line + 1, notes |-> s.notes, drawn |-> s.drawn, foot |-> s.foot]
  BY <1>1
<1> HIDE DEF t
<1>3. t.page = s.page /\ t.line = s.line + 1 /\ t.notes = s.notes /\ t.drawn = s.drawn /\ t.foot = s.foot
  BY <1>2
<1>4. t = [page |-> t.page, line |-> t.line, notes |-> t.notes, drawn |-> t.drawn, foot |-> t.foot]
  BY <1>2
<1>5. t.line \in Nat \ {0}
  BY <1>3 DEF SheetOk
<1>6. \A k \in 1 .. Len(s.drawn) : s.drawn[k].page = s.page => Lowest(s.drawn[k]) < t.line
  <2> SUFFICES ASSUME NEW k \in 1 .. Len(s.drawn), s.drawn[k].page = s.page PROVE Lowest(s.drawn[k]) < t.line
    OBVIOUS
  <2>1. Lowest(s.drawn[k]) \in Int /\ Lowest(s.drawn[k]) < s.line /\ s.line \in Nat
    BY DEF SheetOk, Lowest
  <2> QED
    BY <1>3, <2>1
<1>7. SheetOk(t)
  BY <1>3, <1>4, <1>5, <1>6 DEF SheetOk
<1>8. FootOk(bs, s) => FootOk(bs, t)
  BY <1>3 DEF FootOk, FootBelow, FootThere, RoomLeft, Bottom
<1> QED
  BY <1>3, <1>7, <1>8 DEF t

LEMMA AddsMore ==
  ASSUME NEW s, NEW t, NEW u, NEW i, NEW ws, NEW k \in Nat, IsSeq(s.drawn),
         Adds(s, t, i, ws, k), Adds(t, u, i, <<ws[k + 1]>>, 1)
  PROVE  Adds(s, u, i, ws, k + 1)
<1>1. Len(s.drawn) \in Nat
  BY SeqIs
<1>0. ASSUME NEW a \in Nat, NEW b, NEW c, b = a + k, c = b + 1
      PROVE  b \in Nat /\ c = a + (k + 1)
  BY <1>0
<1>11. Len(t.drawn) = Len(s.drawn) + k /\ Len(u.drawn) = Len(t.drawn) + 1 /\ IsSeq(u.drawn)
  BY DEF Adds
<1>2. Len(t.drawn) = Len(s.drawn) + k /\ Len(t.drawn) \in Nat /\ Len(u.drawn) = Len(s.drawn) + (k + 1) /\ IsSeq(u.drawn)
  BY <1>0, <1>1, <1>11
<1>3. \A j \in 1 .. Len(s.drawn) : j \in 1 .. Len(t.drawn)
  BY <1>1, <1>2
<1>4. \A j \in 1 .. Len(s.drawn) : u.drawn[j] = s.drawn[j]
  BY <1>3 DEF Adds
<1>5. \A j \in 1 .. k : Len(s.drawn) + j \in 1 .. Len(t.drawn)
  BY <1>1, <1>2
<1>6. \A j \in 1 .. k : u.drawn[Len(s.drawn) + j].block = i /\ u.drawn[Len(s.drawn) + j].what = ws[j]
  BY <1>5 DEF Adds
<1>7. Len(t.drawn) + 1 = Len(s.drawn) + (k + 1)
  BY <1>2, <1>11
<1>8. u.drawn[Len(t.drawn) + 1].block = i /\ u.drawn[Len(t.drawn) + 1].what = ws[k + 1]
  BY DEF Adds
<1>9. \A j \in 1 .. k + 1 : j = k + 1 \/ j \in 1 .. k
  OBVIOUS
<1>10. \A j \in 1 .. k + 1 : u.drawn[Len(s.drawn) + j].block = i /\ u.drawn[Len(s.drawn) + j].what = ws[j]
  BY <1>6, <1>7, <1>8, <1>9
<1> QED
  BY <1>2, <1>4, <1>10 DEF Adds

LEMMA AddsSame ==
  ASSUME NEW s, NEW t, NEW u, NEW v, NEW i, NEW ws, NEW k, Adds(s, t, i, ws, k), u.drawn = s.drawn, v.drawn = t.drawn
  PROVE  Adds(u, v, i, ws, k)
  BY DEF Adds

LEMMA AddsNone ==
  ASSUME NEW s, NEW i, NEW ws, IsSeq(s.drawn)
  PROVE  Adds(s, s, i, ws, 0)
  BY SeqIs DEF Adds

\* A footnote fits on a page with its marker: the code never divides one.
NotesFit == \A w \in DOMAIN NoteLines : NoteLines[w] + 2 <= LinesPerPage

LEMMA JoinOne ==
  ASSUME NEW s, IsSeq(s), NEW w
  PROVE  s \o <<w>> = Append(s, w) /\ s \o << >> = s
<1>1. PICK S : s \in Seq(S)
  BY DEF IsSeq
<1>2. s \in Seq(S \cup {w}) /\ <<w>> \in Seq(S \cup {w}) /\ << >> \in Seq(S \cup {w})
  BY <1>1
<1> QED
  BY <1>2

LEMMA NewNotesOk ==
  ASSUME NEW s, SheetOk(s), NEW w
  PROVE  LET ns == s.notes \o NewNotes(s, w) IN
         /\ NotesIn(ns) /\ (w \in DOMAIN NoteLines => w \in ToSet(ns)) /\ ToSet(s.notes) \subseteq ToSet(ns)
         /\ s.notes = << >> /\ NotesFit => LinesPerPage - Area(ns) >= 1
<1> DEFINE ns == s.notes \o NewNotes(s, w)
<1>1. NotesIn(s.notes) /\ IsSeq(s.notes) /\ DOMAIN s.notes = 1 .. Len(s.notes)
  BY SeqIs DEF SheetOk, NotesIn
<1>2. LinesPerPage \in Nat \ {0}
  BY PageAssumption
<1>3. CASE w \in DOMAIN NoteLines /\ w \notin ToSet(s.notes)
  <2>1. ns = Append(s.notes, w)
    BY <1>1, <1>3, JoinOne DEF NewNotes
  <2> HIDE DEF ns
  <2>2. NotesIn(ns) /\ Area(ns) = (IF Len(s.notes) = 0 THEN 1 ELSE Area(s.notes)) + NoteLines[w]
    BY <1>1, <1>3, <2>1, AreaGrows
  <2>3. /\ Len(s.notes) \in Nat /\ Len(ns) = Len(s.notes) + 1 /\ ns[Len(s.notes) + 1] = w
        /\ \A i \in 1 .. Len(s.notes) : ns[i] = s.notes[i]
    BY <1>1, <2>1, Appended, SeqIs
  <2>4. DOMAIN ns = 1 .. Len(s.notes) + 1
    BY <2>2, <2>3, SeqIs DEF NotesIn
  <2>5. w \in ToSet(ns) /\ ToSet(s.notes) \subseteq ToSet(ns)
    BY <1>1, <2>3, <2>4 DEF ToSet
  <2>6. s.notes = << >> /\ NotesFit => LinesPerPage - Area(ns) >= 1
    <3> SUFFICES ASSUME s.notes = << >>, NotesFit PROVE LinesPerPage - Area(ns) >= 1
      OBVIOUS
    <3>1. Len(s.notes) = 0
      BY NoneSeq
    <3>2. NoteLines[w] \in Nat /\ NoteLines[w] + 2 <= LinesPerPage
      BY <1>3, PageAssumption DEF NotesFit
    <3> QED
      BY <1>2, <2>2, <3>1, <3>2
  <2> QED
    BY <2>2, <2>5, <2>6 DEF ns
<1>4. CASE ~(w \in DOMAIN NoteLines /\ w \notin ToSet(s.notes))
  <2>1. ns = s.notes
    BY <1>1, <1>4, JoinOne DEF NewNotes
  <2>2. s.notes = << >> => Area(s.notes) = 0
    BY DEF Area
  <2> QED
    BY <1>1, <1>2, <1>4, <2>1, <2>2
<1> QED
  BY <1>3, <1>4

\* The notes of the page may grow as long as its lines are above them.
LEMMA MoreNotes ==
  ASSUME NEW bs, NEW s, SheetOk(s), NEW ns, NotesIn(ns), ToSet(s.notes) \subseteq ToSet(ns)
  PROVE  LET t == [s EXCEPT !.notes = ns] IN
         /\ SheetOk(t) /\ t.drawn = s.drawn /\ t.line = s.line /\ t.page = s.page /\ t.notes = ns
         /\ FootOk(bs, s) /\ s.line <= Bottom(t) => FootOk(bs, t)
<1> DEFINE t == [s EXCEPT !.notes = ns]
<1>1. s = [page |-> s.page, line |-> s.line, notes |-> s.notes, drawn |-> s.drawn, foot |-> s.foot]
  BY DEF SheetOk
<1>2. t = [page |-> s.page, line |-> s.line, notes |-> ns, drawn |-> s.drawn, foot |-> s.foot]
  BY <1>1
<1> HIDE DEF t
<1>3. t.page = s.page /\ t.line = s.line /\ t.notes = ns /\ t.drawn = s.drawn /\ t.foot = s.foot
  BY <1>2
<1>4. t = [page |-> t.page, line |-> t.line, notes |-> t.notes, drawn |-> t.drawn, foot |-> t.foot]
  BY <1>2
<1>5. SheetOk(t)
  BY <1>3, <1>4 DEF SheetOk
<1>6. ASSUME FootOk(bs, s), s.line <= Bottom(t) PROVE FootOk(bs, t)
  <2>1. FootBelow(bs, t, t.page - 1) /\ FootThere(bs, t, t.page - 1)
    BY <1>3, <1>6 DEF FootOk, FootBelow, FootThere
  <2>2. ASSUME NEW k \in 1 .. Len(s.drawn), s.drawn[k].page = s.page
        PROVE  Lowest(s.drawn[k]) <= Bottom(t) /\ (Noted(bs, s.drawn[k]) => s.drawn[k].what \in ToSet(ns))
    <3>1. Lowest(s.drawn[k]) \in Int /\ Lowest(s.drawn[k]) < s.line /\ s.line \in Nat
      BY <2>2 DEF SheetOk, Lowest
    <3>2. Bottom(t) \in Int
      BY <1>5, BottomIs
    <3>3. Lowest(s.drawn[k]) <= Bottom(t)
      BY <1>6, <3>1, <3>2
    <3> QED
      BY <1>6, <2>2, <3>3 DEF FootOk, RoomLeft
  <2>3. RoomLeft(bs, t)
    BY <1>3, <2>2 DEF RoomLeft
  <2> QED
    BY <2>1, <2>3 DEF FootOk
<1> QED
  BY <1>3, <1>5, <1>6 DEF t

LEMMA PutLineOk ==
  ASSUME NEW bs, NEW s, SheetOk(s), NEW i, NEW w, NEW run
  PROVE  LET u == PutLine(s, i, w, run) IN
         /\ SheetOk(u) /\ Adds(s, u, i, <<w>>, 1)
         /\ NotesFit /\ FootOk(bs, s) /\ bs[i].kind \in TextKinds => FootOk(bs, u)
<1> DEFINE bottom == LinesPerPage - Area(s.notes \o NewNotes(s, w))
           turns == s.line > bottom \/ (run > 1 /\ s.line # 1 /\ s.line + run - 1 > bottom)
           t == TurnIf(s, turns)
           ns == t.notes \o NewNotes(t, w)
           d == [t EXCEPT !.notes = ns]
           u == Draw(d, 1, i, w)
<1>1. PutLine(s, i, w, run) = u
  <2>1. d = [t EXCEPT !.notes = @ \o NewNotes(t, w)]
    OBVIOUS
  <2> HIDE DEF d
  <2> QED
    BY <2>1 DEF PutLine
<1>2. LinesPerPage \in Nat \ {0} /\ s.line \in Nat \ {0}
  BY PageAssumption DEF SheetOk
<1>3. bottom \in Int /\ bottom <= LinesPerPage
  <2>1. Area(s.notes \o NewNotes(s, w)) \in Nat
    BY NewNotesOk, AreaIs
  <2> QED
    BY <1>2, <2>1
<1>4. SheetOk(t) /\ t.drawn = s.drawn /\ (turns => t.line = 1 /\ t.notes = << >>) /\ (~turns => t = s)
  BY TurnedOk
<1>5. FootOk(bs, s) => FootOk(bs, t)
  BY TurnedFoot
<1>6. ~turns => s.line <= bottom
  BY <1>2, <1>3
<1> HIDE DEF turns, t
<1>7. NotesIn(ns) /\ (w \in DOMAIN NoteLines => w \in ToSet(ns)) /\ ToSet(t.notes) \subseteq ToSet(ns)
  BY <1>4, NewNotesOk
<1>8. t.notes = << >> /\ NotesFit => LinesPerPage - Area(ns) >= 1
  BY <1>4, NewNotesOk
<1>9. ~turns => LinesPerPage - Area(ns) = bottom
  BY <1>4
<1>10. Area(ns) \in Nat
  BY <1>7, AreaIs
<1> HIDE DEF bottom, ns
<1>11. /\ SheetOk(d) /\ d.drawn = t.drawn /\ d.line = t.line /\ d.notes = ns
       /\ FootOk(bs, t) /\ t.line <= Bottom(d) => FootOk(bs, d)
  BY <1>4, <1>7, MoreNotes
<1> HIDE DEF d
<1>12. d.line + 1 - 1 <= LinesPerPage
  <2>1. CASE turns
    BY <1>2, <1>4, <1>11, <2>1
  <2>2. CASE ~turns
    BY <1>2, <1>3, <1>4, <1>6, <1>11, <2>2
  <2> QED
    BY <2>1, <2>2
<1>13. SheetOk(u) /\ Adds(d, u, i, <<w>>, 1)
  BY <1>11, <1>12, DrawnOk
<1>14. Adds(s, u, i, <<w>>, 1)
  BY <1>4, <1>11, <1>13, AddsSame
<1>15. ASSUME NotesFit, FootOk(bs, s), bs[i].kind \in TextKinds PROVE FootOk(bs, u)
  <2>1. Bottom(d) = LinesPerPage - Area(ns)
    BY <1>11 DEF Bottom
  <2>2. t.line <= Bottom(d)
    <3>1. CASE turns
      BY <1>2, <1>4, <1>8, <1>10, <1>15, <2>1, <3>1
    <3>2. CASE ~turns
      BY <1>4, <1>6, <1>9, <2>1, <3>2
    <3> QED
      BY <3>1, <3>2
  <2>3. FootOk(bs, d)
    BY <1>5, <1>11, <1>15, <2>2
  <2>4. d.line + 1 - 1 <= Bottom(d)
    <3>1. Bottom(d) \in Int /\ d.line \in Nat
      BY <1>11, BottomIs DEF SheetOk
    <3> QED
      BY <1>11, <2>2, <3>1
  <2>5. w \in DOMAIN NoteLines => w \in ToSet(d.notes)
    BY <1>7, <1>11
  <2> QED
    BY <1>11, <1>12, <1>15, <2>3, <2>4, <2>5, DrawnFoot
<1> QED
  BY <1>1, <1>13, <1>14, <1>15

\* The next line of a text, of a table, of verbatim text.
Put(how, i, ws, s, k) ==
  CASE how = "text"  -> PutLine(s, i, ws[k], KeepRun(ws, k))
    [] how = "table" -> Draw(TurnIf(s, Bottom(s) - s.line < 1), 1, i, ws[k])
    [] how = "fixed" -> Draw(Advance(s), 1, i, ws[k])

Suits(how, kind) == IF how = "text" THEN kind \in TextKinds ELSE kind \notin TextKinds

LEMMA PutOk ==
  ASSUME NEW bs, NEW s, SheetOk(s), NEW how \in {"text", "table", "fixed"}, NEW i, NEW ws, NEW k
  PROVE  LET u == Put(how, i, ws, s, k) IN
         /\ SheetOk(u) /\ Adds(s, u, i, <<ws[k]>>, 1)
         /\ NotesFit /\ FootOk(bs, s) /\ Suits(how, bs[i].kind) => FootOk(bs, u)
<1> DEFINE u == Put(how, i, ws, s, k)
<1>1. CASE how = "text"
  <2>1. u = PutLine(s, i, ws[k], KeepRun(ws, k))
    BY <1>1 DEF Put
  <2> QED
    BY <1>1, <2>1, PutLineOk DEF Suits
<1>2. CASE how # "text"
  <2> DEFINE c == IF how = "table" THEN Bottom(s) - s.line < 1 ELSE s.line > Bottom(s)
             t == TurnIf(s, c)
  <2>1. u = Draw(t, 1, i, ws[k])
    <3>1. CASE how = "table"
      BY <3>1 DEF Put
    <3>2. CASE how = "fixed"
      BY <3>2 DEF Put, Advance
    <3> QED
      BY <1>2, <3>1, <3>2
  <2>2. SheetOk(t) /\ t.drawn = s.drawn /\ (c => t.line = 1 /\ t.notes = << >>) /\ (~c => t = s)
    BY TurnedOk
  <2>3. FootOk(bs, s) => FootOk(bs, t)
    BY TurnedFoot
  <2>4. Bottom(s) \in Int /\ s.line \in Nat /\ LinesPerPage \in Nat \ {0} /\ Bottom(s) <= LinesPerPage
    BY BottomIs, PageAssumption DEF SheetOk
  <2>5. ~c => s.line <= Bottom(s)
    BY <2>4
  <2> HIDE DEF t, c, u
  <2>6. t.line <= Bottom(t) /\ t.line \in Nat /\ Bottom(t) \in Int /\ Bottom(t) <= LinesPerPage
    <3>1. Bottom(t) \in Int /\ Bottom(t) <= LinesPerPage /\ (t.notes = << >> => Bottom(t) = LinesPerPage) /\ t.line \in Nat
      BY <2>2, BottomIs DEF SheetOk
    <3> QED
      BY <2>2, <2>4, <2>5, <3>1
  <2>7. t.line + 1 - 1 <= LinesPerPage /\ t.line + 1 - 1 <= Bottom(t)
    BY <2>4, <2>6
  <2>8. SheetOk(u) /\ Adds(t, u, i, <<ws[k]>>, 1)
    BY <2>1, <2>2, <2>7, DrawnOk
  <2>9. Adds(s, u, i, <<ws[k]>>, 1)
    BY <2>2, <2>8, AddsSame
  <2>10. ASSUME FootOk(bs, s), Suits(how, bs[i].kind) PROVE FootOk(bs, u)
    <3>1. bs[i].kind \notin TextKinds
      BY <1>2, <2>10 DEF Suits
    <3> QED
      BY <2>1, <2>2, <2>3, <2>7, <2>10, <3>1, DrawnFoot
  <2> QED
    BY <2>8, <2>9, <2>10 DEF u
<1> QED
  BY <1>1, <1>2

Puts(how, i, ws, s, n, f) == f = [k \in 0 .. n |-> IF k = 0 THEN s ELSE Put(how, i, ws, f[k - 1], k)]

LEMMA PutsExist ==
  ASSUME NEW how, NEW i, NEW ws, NEW s, NEW n \in Nat
  PROVE  \E f : Puts(how, i, ws, s, n, f)
<1> DEFINE P == {m \in 0 .. n : \E f : Puts(how, i, ws, s, m, f)}
<1>1. 0 \in P
  <2> DEFINE g == [k \in 0 .. 0 |-> s]
  <2>1. Puts(how, i, ws, s, 0, g)
    BY DEF Puts
  <2> QED
    BY <2>1
<1>2. ASSUME NEW m \in 1 .. n, m - 1 \in P PROVE m \in P
  <2>1. PICK f : Puts(how, i, ws, s, m - 1, f)
    BY <1>2
  <2> DEFINE last == Put(how, i, ws, f[m - 1], m)
             g == [k \in 0 .. m |-> IF k = m THEN last ELSE f[k]]
  <2>2. \A k \in 0 .. m : g[k] = IF k = 0 THEN s ELSE Put(how, i, ws, g[k - 1], k)
    <3> SUFFICES ASSUME NEW k \in 0 .. m PROVE g[k] = IF k = 0 THEN s ELSE Put(how, i, ws, g[k - 1], k)
      OBVIOUS
    <3>1. CASE k = m
      <4>1. g[k - 1] = f[m - 1] /\ g[k] = last
        BY <3>1
      <4> QED
        BY <3>1, <4>1
    <3>2. CASE k # m
      <4>1. k \in 0 .. m - 1 /\ g[k] = f[k]
        BY <3>2
      <4>2. f[k] = IF k = 0 THEN s ELSE Put(how, i, ws, f[k - 1], k)
        BY <2>1, <4>1 DEF Puts
      <4>3. k # 0 => g[k - 1] = f[k - 1]
        BY <4>1
      <4> HIDE DEF g
      <4> QED
        BY <4>1, <4>2, <4>3
    <3> QED
      BY <3>1, <3>2
  <2>3. g = [k \in 0 .. m |-> g[k]]
    OBVIOUS
  <2> HIDE DEF g
  <2>4. Puts(how, i, ws, s, m, g)
    BY <2>2, <2>3 DEF Puts
  <2> QED
    BY <2>4
<1> HIDE DEF P
<1>3. \A m \in 0 .. n : m \in P
  BY <1>1, <1>2, Induct
<1>4. n \in P
  BY <1>3
<1> QED
  BY <1>4 DEF P

LEMMA PutsOk ==
  ASSUME NEW bs, NEW s, SheetOk(s), NEW how \in {"text", "table", "fixed"}, NEW i, NEW ws, NEW n \in Nat,
         NEW f, Puts(how, i, ws, s, n, f)
  PROVE  /\ SheetOk(f[n]) /\ Adds(s, f[n], i, ws, n)
         /\ NotesFit /\ FootOk(bs, s) /\ Suits(how, bs[i].kind) => FootOk(bs, f[n])
<1> DEFINE Good(k) == /\ SheetOk(f[k]) /\ Adds(s, f[k], i, ws, k)
                      /\ NotesFit /\ FootOk(bs, s) /\ Suits(how, bs[i].kind) => FootOk(bs, f[k])
           P == {k \in 0 .. n : Good(k)}
<1>1. 0 \in P
  <2>1. f[0] = s
    BY DEF Puts
  <2>2. Adds(s, s, i, ws, 0)
    BY AddsNone DEF SheetOk
  <2> QED
    BY <2>1, <2>2
<1>2. ASSUME NEW k \in 1 .. n, k - 1 \in P PROVE k \in P
  <2>1. f[k] = Put(how, i, ws, f[k - 1], k)
    BY DEF Puts
  <2>2. Good(k - 1)
    BY <1>2
  <2>3. /\ SheetOk(f[k]) /\ Adds(f[k - 1], f[k], i, <<ws[k]>>, 1)
        /\ NotesFit /\ FootOk(bs, f[k - 1]) /\ Suits(how, bs[i].kind) => FootOk(bs, f[k])
    BY <2>1, <2>2, PutOk
  <2>4. Adds(s, f[k], i, ws, k)
    <3> DEFINE j == k - 1
    <3>1. j \in Nat /\ j + 1 = k
      OBVIOUS
    <3>2. Adds(s, f[j], i, ws, j) /\ Adds(f[j], f[k], i, <<ws[j + 1]>>, 1) /\ IsSeq(s.drawn)
      BY <2>2, <2>3, <3>1 DEF SheetOk
    <3> HIDE DEF j
    <3>3. Adds(s, f[k], i, ws, j + 1)
      BY <3>1, <3>2, AddsMore
    <3> QED
      BY <3>1, <3>3
  <2> QED
    BY <2>2, <2>3, <2>4
<1> HIDE DEF P
<1>3. \A k \in 0 .. n : k \in P
  BY <1>1, <1>2, Induct
<1>4. n \in P
  BY <1>3
<1> QED
  BY <1>4 DEF P

Kinds == TextKinds \cup SignKinds \cup {"table", "fixed", "center", "pagebreak"}

\* A block whose signatures fit on a page.
BlockOk(b) ==
  /\ b = [kind |-> b.kind, words |-> b.words, n |-> b.n] /\ b.kind \in Kinds /\ IsSeq(b.words)
  /\ b.kind = "sign" => b.n \in {0, 1} /\ (BlocksFit => SignLines + b.n <= LinesPerPage)
  /\ b.kind = "seal" => b.n \in Nat /\ b.n > FollowingLines /\ (BlocksFit => b.n <= LinesPerPage)

\* Block i is drawn.
Puts1(bs, i, s, t) ==
  /\ SheetOk(t) /\ Adds(s, t, i, ToDraw(bs[i]), Len(ToDraw(bs[i])))
  /\ NotesFit /\ FootOk(bs, s) => FootOk(bs, t)

LEMMA PutLinesOk ==
  ASSUME NEW bs, NEW s, SheetOk(s), NEW i, NEW ws, IsSeq(ws)
  PROVE  LET t == PutLines(s, i, ws) IN
         /\ SheetOk(t) /\ Adds(s, t, i, ws, Len(ws))
         /\ NotesFit /\ FootOk(bs, s) /\ bs[i].kind \in TextKinds => FootOk(bs, t)
<1> DEFINE n == Len(ws)
           f == CHOOSE g : g = [k \in 0 .. n |-> IF k = 0 THEN s ELSE PutLine(g[k - 1], i, ws[k], KeepRun(ws, k))]
<1>1. PutLines(s, i, ws) = f[n]
  BY DEF PutLines
<1>2. n \in Nat
  BY SeqIs
<1>3. \E g : g = [k \in 0 .. n |-> IF k = 0 THEN s ELSE PutLine(g[k - 1], i, ws[k], KeepRun(ws, k))]
  <2>1. PICK g : Puts("text", i, ws, s, n, g)
    BY <1>2, PutsExist
  <2>2. g = [k \in 0 .. n |-> IF k = 0 THEN s ELSE PutLine(g[k - 1], i, ws[k], KeepRun(ws, k))]
    BY <2>1 DEF Puts, Put
  <2> QED
    BY <2>2
<1>4. f = [k \in 0 .. n |-> IF k = 0 THEN s ELSE PutLine(f[k - 1], i, ws[k], KeepRun(ws, k))]
  BY <1>3
<1> HIDE DEF f
<1>5. Puts("text", i, ws, s, n, f)
  BY <1>4 DEF Puts, Put
<1> QED
  BY <1>1, <1>2, <1>5, PutsOk DEF Suits

LEMMA EmitTextOk ==
  ASSUME NEW bs, NEW s, SheetOk(s), NEW i, BlockOk(bs[i]), bs[i].kind \in TextKinds
  PROVE  Puts1(bs, i, s, EmitText(bs, i, s))
<1> DEFINE r == TurnIf(s, TurnsBefore(bs, i, s))
           t == PutLines(r, i, bs[i].words)
           u == [t EXCEPT !.line = @ + 1]
           ws == bs[i].words
<1>1. ToDraw(bs[i]) = ws /\ IsSeq(ws)
  BY DEF ToDraw, TextKinds, SignKinds, BlockOk
<1>2. SheetOk(r) /\ r.drawn = s.drawn
  BY TurnedOk
<1>3. FootOk(bs, s) => FootOk(bs, r)
  BY TurnedFoot
<1> HIDE DEF r
<1>4. /\ SheetOk(t) /\ Adds(r, t, i, ws, Len(ws))
      /\ NotesFit /\ FootOk(bs, r) => FootOk(bs, t)
  BY <1>1, <1>2, PutLinesOk
<1>5. EmitText(bs, i, s) = u \/ EmitText(bs, i, s) = t
  BY DEF EmitText, r
<1> HIDE DEF t
<1>6. SheetOk(u) /\ u.drawn = t.drawn /\ (FootOk(bs, t) => FootOk(bs, u))
  BY <1>4, LineLower
<1> HIDE DEF u
<1>7. Adds(s, t, i, ws, Len(ws)) /\ Adds(s, u, i, ws, Len(ws))
  BY <1>2, <1>4, <1>6, AddsSame
<1> QED
  BY <1>1, <1>3, <1>4, <1>5, <1>6, <1>7 DEF Puts1

LEMMA EmitTableOk ==
  ASSUME NEW bs, NEW s, SheetOk(s), NEW i, BlockOk(bs[i]), bs[i].kind = "table"
  PROVE  Puts1(bs, i, s, EmitTable(bs[i], i, s))
<1> DEFINE b == bs[i]  ws == b.words  n == Len(ws)
           f == CHOOSE g : g = [k \in 0 .. n |->
                  IF k = 0 THEN s ELSE Draw(TurnIf(g[k - 1], Bottom(g[k - 1]) - g[k - 1].line < 1), 1, i, ws[k])]
           t == Advance(f[n])
           u == [t EXCEPT !.line = @ + 1]
<1>1. EmitTable(b, i, s) = u
  BY DEF EmitTable
<1>2. n \in Nat /\ ToDraw(b) = ws
  BY SeqIs DEF BlockOk, ToDraw, SignKinds
<1>3. \E g : g = [k \in 0 .. n |->
         IF k = 0 THEN s ELSE Draw(TurnIf(g[k - 1], Bottom(g[k - 1]) - g[k - 1].line < 1), 1, i, ws[k])]
  <2>1. PICK g : Puts("table", i, ws, s, n, g)
    BY <1>2, PutsExist
  <2>2. g = [k \in 0 .. n |->
          IF k = 0 THEN s ELSE Draw(TurnIf(g[k - 1], Bottom(g[k - 1]) - g[k - 1].line < 1), 1, i, ws[k])]
    BY <2>1 DEF Puts, Put
  <2> QED
    BY <2>2
<1>4. f = [k \in 0 .. n |->
         IF k = 0 THEN s ELSE Draw(TurnIf(f[k - 1], Bottom(f[k - 1]) - f[k - 1].line < 1), 1, i, ws[k])]
  BY <1>3
<1> HIDE DEF f
<1>5. Puts("table", i, ws, s, n, f)
  BY <1>4 DEF Puts, Put
<1>11. Suits("table", bs[i].kind)
  BY DEF Suits, TextKinds
<1>6. /\ SheetOk(f[n]) /\ Adds(s, f[n], i, ws, n)
      /\ NotesFit /\ FootOk(bs, s) => FootOk(bs, f[n])
  BY <1>2, <1>5, <1>11, PutsOk
<1>7. SheetOk(t) /\ t.drawn = f[n].drawn
  BY <1>6, TurnedOk DEF Advance
<1>8. FootOk(bs, f[n]) => FootOk(bs, t)
  BY <1>6, TurnedFoot DEF Advance
<1> HIDE DEF t
<1>9. SheetOk(u) /\ u.drawn = t.drawn /\ (FootOk(bs, t) => FootOk(bs, u))
  BY <1>7, LineLower
<1> HIDE DEF u
<1>10. Adds(s, u, i, ws, n)
  BY <1>6, <1>7, <1>9, AddsSame
<1> QED
  BY <1>1, <1>2, <1>6, <1>8, <1>9, <1>10 DEF Puts1

LEMMA EmitFixedOk ==
  ASSUME NEW bs, NEW s, SheetOk(s), NEW i, BlockOk(bs[i]), bs[i].kind = "fixed"
  PROVE  Puts1(bs, i, s, EmitFixed(bs[i], i, s))
<1> DEFINE b == bs[i]  ws == b.words  n == Len(ws)
           f == CHOOSE g : g = [k \in 0 .. n |-> IF k = 0 THEN s ELSE Draw(Advance(g[k - 1]), 1, i, ws[k])]
           t == f[n]
           u == [t EXCEPT !.line = @ + 1]
<1>1. EmitFixed(b, i, s) = u
  BY DEF EmitFixed
<1>2. n \in Nat /\ ToDraw(b) = ws
  BY SeqIs DEF BlockOk, ToDraw, SignKinds
<1>3. \E g : g = [k \in 0 .. n |-> IF k = 0 THEN s ELSE Draw(Advance(g[k - 1]), 1, i, ws[k])]
  <2>1. PICK g : Puts("fixed", i, ws, s, n, g)
    BY <1>2, PutsExist
  <2>2. g = [k \in 0 .. n |-> IF k = 0 THEN s ELSE Draw(Advance(g[k - 1]), 1, i, ws[k])]
    BY <2>1 DEF Puts, Put
  <2> QED
    BY <2>2
<1>4. f = [k \in 0 .. n |-> IF k = 0 THEN s ELSE Draw(Advance(f[k - 1]), 1, i, ws[k])]
  BY <1>3
<1> HIDE DEF f
<1>5. Puts("fixed", i, ws, s, n, f)
  BY <1>4 DEF Puts, Put
<1>6. /\ SheetOk(t) /\ Adds(s, t, i, ws, n)
      /\ NotesFit /\ FootOk(bs, s) => FootOk(bs, t)
  BY <1>2, <1>5, PutsOk DEF Suits, TextKinds
<1> HIDE DEF t
<1>9. SheetOk(u) /\ u.drawn = t.drawn /\ (FootOk(bs, t) => FootOk(bs, u))
  BY <1>6, LineLower
<1> HIDE DEF u
<1>10. Adds(s, u, i, ws, n)
  BY <1>6, <1>9, AddsSame
<1> QED
  BY <1>1, <1>2, <1>6, <1>9, <1>10 DEF Puts1

LEMMA EmitCenterOk ==
  ASSUME NEW bs, NEW s, SheetOk(s), NEW i, BlockOk(bs[i]), bs[i].kind = "center"
  PROVE  Puts1(bs, i, s, EmitCenter(bs[i], i, s))
<1> DEFINE ws == <<Label(bs[i])>>  u == Put("fixed", i, ws, s, 1)
<1>1. EmitCenter(bs[i], i, s) = u
  BY DEF EmitCenter, Put
<1>2. ToDraw(bs[i]) = <<ws[1]>> /\ Len(<<ws[1]>>) = 1
  BY DEF ToDraw, SignKinds
<1>3. /\ SheetOk(u) /\ Adds(s, u, i, <<ws[1]>>, 1)
      /\ NotesFit /\ FootOk(bs, s) => FootOk(bs, u)
  BY PutOk DEF Suits, TextKinds
<1> QED
  BY <1>1, <1>2, <1>3 DEF Puts1

LEMMA EmitSignOk ==
  ASSUME NEW bs, NEW s, SheetOk(s), NEW i, BlockOk(bs[i]), bs[i].kind \in SignKinds
  PROVE  Puts1(bs, i, s, EmitSign(bs[i], i, s))
<1> DEFINE b == bs[i]  w == Label(b)
           h == IF b.kind = "sign" THEN SignLines + b.n ELSE SignNeeded(b)
           c == s.line + h - 1 > LinesPerPage /\ (b.kind = "seal" => s.line # 1)
           t == TurnIf(s, c)
           d == Draw(t, h, i, w)
           u == [d EXCEPT !.line = @ + 1]
<1>1. EmitSign(b, i, s) = [d EXCEPT !.line = IF b.kind = "judge" THEN @ ELSE @ + 1]
  BY DEF EmitSign
<1>2. LinesPerPage \in Nat \ {0} /\ SignLines \in Nat /\ s.line \in Nat \ {0}
  BY PageAssumption DEF SheetOk
<1>3. SignLines + 1 <= LinesPerPage
  <2>1. MaxLeads \in Nat /\ LeadLines \in Nat
    BY PageAssumption
  <2>2. MaxLeads * LeadLines \in Nat
    BY <2>1
  <2> QED
    BY <1>2, <2>2, PageAssumption
<1>4. h \in Nat /\ (BlocksFit => h <= LinesPerPage)
  BY <1>2, <1>3 DEF BlockOk, SignNeeded, SignKinds
<1>5. SheetOk(t) /\ t.drawn = s.drawn /\ (c => t.line = 1) /\ (~c => t = s)
  BY TurnedOk
<1>6. FootOk(bs, s) => FootOk(bs, t)
  BY TurnedFoot
<1>7. ~c /\ BlocksFit => s.line + h - 1 <= LinesPerPage
  BY <1>2, <1>4
<1>8. ToDraw(b) = <<w>> /\ Len(<<w>>) = 1
  BY DEF ToDraw, SignKinds
<1> HIDE DEF t, c, h
<1>9. BlocksFit => t.line + h - 1 <= LinesPerPage
  BY <1>2, <1>4, <1>5, <1>7
<1>10. SheetOk(d) /\ Adds(t, d, i, <<w>>, 1)
  BY <1>4, <1>5, <1>9, DrawnOk
<1>14. EmitSign(b, i, s) = d \/ EmitSign(b, i, s) = u
  <2>1. d = [page |-> d.page, line |-> d.line, notes |-> d.notes, drawn |-> d.drawn, foot |-> d.foot]
    BY <1>10 DEF SheetOk
  <2> HIDE DEF d
  <2>2. CASE b.kind # "judge"
    BY <1>1, <2>2
  <2>3. CASE b.kind = "judge"
    <3>1. EmitSign(b, i, s) = [d EXCEPT !.line = @]
      BY <1>1, <2>3
    <3> QED
      BY <2>1, <3>1
  <2> QED
    BY <2>2, <2>3
<1>11. FootOk(bs, t) => FootOk(bs, d)
  <2>1. bs[i].kind \notin TextKinds
    BY DEF SignKinds, TextKinds
  <2> QED
    BY <1>4, <1>5, <1>9, <2>1, DrawnFoot
<1> HIDE DEF d
<1>12. SheetOk(u) /\ u.drawn = d.drawn /\ (FootOk(bs, d) => FootOk(bs, u))
  BY <1>10, LineLower
<1> HIDE DEF u
<1>13. Adds(s, d, i, <<w>>, 1) /\ Adds(s, u, i, <<w>>, 1)
  BY <1>5, <1>10, <1>12, AddsSame
<1> QED
  BY <1>6, <1>8, <1>10, <1>11, <1>12, <1>13, <1>14 DEF Puts1

\* What each block of the body draws.
LEMMA EmittedOk ==
  ASSUME NEW bs, NEW s, SheetOk(s), NEW i, BlockOk(bs[i])
  PROVE  Puts1(bs, i, s, Emitted(bs, i, s))
<1> DEFINE c == BreaksGroup(bs, i, s)  r == TurnIf(s, c)  b == bs[i]  u == Emitted(bs, i, s)
<1>1. SheetOk(r) /\ r.drawn = s.drawn
  BY TurnedOk
<1>2. FootOk(bs, s) => FootOk(bs, r)
  BY TurnedFoot
<1>3. u = CASE b.kind = "pagebreak" -> TurnIf(r, r.line # 1)
            [] b.kind \in SignKinds -> EmitSign(b, i, r)
            [] b.kind = "table"  -> EmitTable(b, i, r)
            [] b.kind = "fixed"  -> EmitFixed(b, i, r)
            [] b.kind = "center" -> EmitCenter(b, i, r)
            [] OTHER -> EmitText(bs, i, r)
  BY DEF Emitted
<1> HIDE DEF r, c, u
<1>4. b.kind \in Kinds
  BY DEF BlockOk
<1>5. Puts1(bs, i, r, u)
  <2>1. CASE b.kind = "pagebreak"
    <3> DEFINE t == TurnIf(r, r.line # 1)
    <3>1. u = t
      BY <1>3, <2>1 DEF SignKinds
    <3>2. SheetOk(t) /\ t.drawn = r.drawn /\ (FootOk(bs, r) => FootOk(bs, t))
      BY <1>1, TurnedOk, TurnedFoot
    <3>3. ToDraw(bs[i]) = << >> /\ Len(<< >>) = 0
      BY <2>1 DEF ToDraw, SignKinds
    <3>4. Adds(r, t, i, << >>, 0)
      <4>1. Adds(r, r, i, << >>, 0)
        BY <1>1, AddsNone DEF SheetOk
      <4> QED
        BY <3>2, <4>1, AddsSame
    <3> QED
      BY <3>1, <3>2, <3>3, <3>4 DEF Puts1
  <2>2. CASE b.kind \in SignKinds
    <3>1. u = EmitSign(b, i, r)
      BY <1>3, <2>2 DEF SignKinds
    <3> QED
      BY <1>1, <2>2, <3>1, EmitSignOk
  <2>3. CASE b.kind = "table"
    <3>1. u = EmitTable(b, i, r)
      BY <1>3, <2>3 DEF SignKinds
    <3> QED
      BY <1>1, <2>3, <3>1, EmitTableOk
  <2>4. CASE b.kind = "fixed"
    <3>1. u = EmitFixed(b, i, r)
      BY <1>3, <2>4 DEF SignKinds
    <3> QED
      BY <1>1, <2>4, <3>1, EmitFixedOk
  <2>5. CASE b.kind = "center"
    <3>1. u = EmitCenter(b, i, r)
      BY <1>3, <2>5 DEF SignKinds
    <3> QED
      BY <1>1, <2>5, <3>1, EmitCenterOk
  <2>6. CASE b.kind \in TextKinds
    <3>1. u = EmitText(bs, i, r)
      BY <1>3, <2>6 DEF SignKinds, TextKinds
    <3> QED
      BY <1>1, <2>6, <3>1, EmitTextOk
  <2> QED
    BY <1>4, <2>1, <2>2, <2>3, <2>4, <2>5, <2>6 DEF Kinds
<1>6. Adds(s, u, i, ToDraw(bs[i]), Len(ToDraw(bs[i])))
  BY <1>1, <1>5, AddsSame DEF Puts1
<1> QED
  BY <1>2, <1>5, <1>6 DEF Puts1, u

-----------------------------------------------------------------------------
(* The body, block by block.                                               *)

Whats(d) == [k \in 1 .. Len(d) |-> d[k].what]

\* The first p blocks are laid out.
LaidOut(bs, s, p) ==
  /\ SheetOk(s)
  /\ Whats(s.drawn) = FlattenSeq([b \in 1 .. p |-> ToDraw(bs[b])])
  /\ \A k \in 1 .. Len(s.drawn) : s.drawn[k].block \in 1 .. p
  /\ \A b \in 1 .. p : bs[b].kind = "sign" =>
       \E k \in 1 .. Len(s.drawn) : s.drawn[k].block = b /\ s.drawn[k].what = Label(bs[b])
  /\ NotesFit => FootOk(bs, s)

\* A place of the second half.
LEMMA Halves ==
  ASSUME NEW a \in Nat, NEW b \in Nat, NEW k \in 1 .. a + b
  PROVE  k \in 1 .. a \/ (k - a \in 1 .. b /\ a + (k - a) = k)
  OBVIOUS

LEMMA SeqEq ==
  ASSUME NEW s, NEW t, IsSeq(s), IsSeq(t), Len(s) = Len(t), \A k \in 1 .. Len(s) : s[k] = t[k]
  PROVE  s = t
<1>1. s = [k \in 1 .. Len(s) |-> s[k]] /\ t = [k \in 1 .. Len(s) |-> t[k]]
  BY SeqIs
<1>2. [k \in 1 .. Len(s) |-> s[k]] = [k \in 1 .. Len(s) |-> t[k]]
  OBVIOUS
<1> HIDE DEF IsSeq
<1> QED
  BY <1>1, <1>2, ZenonT(20)

LEMMA ToDrawSeq ==
  ASSUME NEW b, BlockOk(b)
  PROVE  IsSeq(ToDraw(b))
<1>1. IsSeq(<<Label(b)>>) /\ IsSeq(<< >>) /\ IsSeq(b.words)
  BY OneSeq, NoneSeq DEF BlockOk
<1> QED
  BY <1>1 DEF ToDraw

LEMMA WhatsJoin ==
  ASSUME NEW s, NEW t, NEW i, NEW ws, IsSeq(ws), IsSeq(s.drawn), Adds(s, t, i, ws, Len(ws))
  PROVE  Whats(t.drawn) = Whats(s.drawn) \o ws
<1> DEFINE a == Whats(s.drawn)  b == Whats(t.drawn)  n == Len(s.drawn)  m == Len(ws)
<1>1. n \in Nat /\ m \in Nat /\ Len(t.drawn) = n + m
  BY SeqIs DEF Adds
<1>2. IsSeq(a) /\ Len(a) = n
  <2>1. a = [k \in 1 .. n |-> a[k]]
    BY DEF Whats
  <2> QED
    BY <1>1, <2>1, FcnSeq
<1>3. IsSeq(b) /\ Len(b) = n + m
  <2>1. b = [k \in 1 .. n + m |-> b[k]]
    BY <1>1 DEF Whats
  <2>2. n + m \in Nat
    BY <1>1
  <2> QED
    BY <2>1, <2>2, FcnSeq
<1>4. \A k \in 1 .. n : a[k] = s.drawn[k].what /\ b[k] = s.drawn[k].what
  BY <1>1 DEF Adds, Whats
<1>5. \A k \in 1 .. m : b[n + k] = ws[k]
  <2> SUFFICES ASSUME NEW k \in 1 .. m PROVE b[n + k] = ws[k]
    OBVIOUS
  <2>1. n + k \in 1 .. n + m
    BY <1>1
  <2>2. t.drawn[n + k].what = ws[k]
    BY DEF Adds
  <2> QED
    BY <1>1, <2>1, <2>2 DEF Whats
<1> HIDE DEF a, b
<1>6. /\ IsSeq(a \o ws) /\ Len(a \o ws) = n + m
      /\ (\A k \in 1 .. n : (a \o ws)[k] = a[k]) /\ \A k \in 1 .. m : (a \o ws)[n + k] = ws[k]
  BY <1>2, Joined
<1>7. \A k \in 1 .. n + m : b[k] = (a \o ws)[k]
  <2> SUFFICES ASSUME NEW k \in 1 .. n + m PROVE b[k] = (a \o ws)[k]
    OBVIOUS
  <2>0. k \in 1 .. n \/ (k - n \in 1 .. m /\ n + (k - n) = k)
    BY <1>1, Halves
  <2>1. CASE k \in 1 .. n
    BY <1>1, <1>4, <1>6, <2>1
  <2>2. CASE k - n \in 1 .. m /\ n + (k - n) = k
    BY <1>5, <1>6, <2>2
  <2> QED
    BY <2>0, <2>1, <2>2
<1>8. b = a \o ws
  BY <1>3, <1>6, <1>7, SeqEq
<1> QED
  BY <1>8 DEF a, b

LEMMA LaidOutOne ==
  ASSUME NEW bs, NEW s, NEW p \in Nat, LaidOut(bs, s, p), \A b \in 1 .. p + 1 : BlockOk(bs[b])
  PROVE  LaidOut(bs, Emitted(bs, p + 1, s), p + 1)
<1> DEFINE t == Emitted(bs, p + 1, s)  ws == ToDraw(bs[p + 1])  n == Len(s.drawn)
<1>1. SheetOk(s) /\ BlockOk(bs[p + 1]) /\ IsSeq(s.drawn) /\ n \in Nat
  BY SeqIs DEF LaidOut, SheetOk
<1>2. SheetOk(t) /\ Adds(s, t, p + 1, ws, Len(ws)) /\ (NotesFit => FootOk(bs, t))
  BY <1>1, EmittedOk DEF Puts1, LaidOut
<1> HIDE DEF t
<1>3. IsSeq(ws) /\ Len(ws) \in Nat
  BY <1>1, ToDrawSeq, SeqIs
<1>4. /\ Len(t.drawn) = n + Len(ws) /\ (\A j \in 1 .. n : t.drawn[j] = s.drawn[j])
      /\ \A j \in 1 .. Len(ws) : t.drawn[n + j].block = p + 1 /\ t.drawn[n + j].what = ws[j]
  BY <1>2 DEF Adds
<1>5. Whats(t.drawn) = FlattenSeq([b \in 1 .. p + 1 |-> ToDraw(bs[b])])
  <2> DEFINE ss == [b \in 1 .. p |-> ToDraw(bs[b])]  tt == [b \in 1 .. p + 1 |-> ToDraw(bs[b])]
  <2>1. IsSeq(ss) /\ Len(ss) = p
    <3>1. ss = [b \in 1 .. p |-> ss[b]]
      OBVIOUS
    <3> QED
      BY <3>1, FcnSeq
  <2>2. IsSeq(tt) /\ Len(tt) = p + 1
    <3>1. tt = [b \in 1 .. p + 1 |-> tt[b]]
      OBVIOUS
    <3>2. p + 1 \in Nat
      OBVIOUS
    <3> QED
      BY <3>1, <3>2, FcnSeq
  <2>3. \A b \in 1 .. p + 1 : IsSeq(ToDraw(bs[b]))
    BY ToDrawSeq
  <2>4. IsSeqs(ss) /\ IsSeqs(tt)
    BY <2>1, <2>2, <2>3 DEF IsSeqs
  <2>5. \A b \in 1 .. p : tt[b] = ss[b]
    OBVIOUS
  <2>6. tt[p + 1] = ws
    OBVIOUS
  <2> HIDE DEF ss, tt
  <2>7. FlattenSeq(tt) = FlattenSeq(ss) \o ws
    BY <2>1, <2>2, <2>4, <2>5, <2>6, FlattenLast
  <2>8. Whats(s.drawn) = FlattenSeq(ss)
    BY DEF LaidOut, ss
  <2>9. Whats(t.drawn) = Whats(s.drawn) \o ws
    BY <1>1, <1>2, <1>3, WhatsJoin
  <2> QED
    BY <2>7, <2>8, <2>9 DEF tt
<1>6. ASSUME NEW k \in 1 .. Len(t.drawn) PROVE t.drawn[k].block \in 1 .. p + 1
  <2>0. k \in 1 .. n \/ (k - n \in 1 .. Len(ws) /\ n + (k - n) = k)
    <3>1. k \in 1 .. n + Len(ws)
      BY <1>4
    <3> QED
      BY <1>1, <1>3, <3>1, Halves
  <2>1. CASE k \in 1 .. n
    BY <1>1, <1>4, <2>1 DEF LaidOut
  <2>2. CASE k - n \in 1 .. Len(ws) /\ n + (k - n) = k
    <3>2. t.drawn[k].block = p + 1
      BY <1>4, <2>2
    <3> QED
      BY <3>2
  <2> QED
    BY <2>0, <2>1, <2>2
<1>7. ASSUME NEW b \in 1 .. p + 1, bs[b].kind = "sign"
      PROVE  \E k \in 1 .. Len(t.drawn) : t.drawn[k].block = b /\ t.drawn[k].what = Label(bs[b])
  <2>1. CASE b = p + 1
    <3>1. ws = <<Label(bs[b])>> /\ Len(ws) = 1 /\ ws[1] = Label(bs[b])
      BY <1>7, <2>1 DEF ToDraw, SignKinds
    <3>2. n + 1 \in 1 .. Len(t.drawn) /\ 1 \in 1 .. Len(ws)
      BY <1>1, <1>4, <3>1
    <3> QED
      BY <1>4, <2>1, <3>1, <3>2
  <2>2. CASE b # p + 1
    <3>1. b \in 1 .. p
      BY <2>2
    <3>2. PICK k \in 1 .. n : s.drawn[k].block = b /\ s.drawn[k].what = Label(bs[b])
      BY <1>7, <3>1 DEF LaidOut
    <3>3. k \in 1 .. Len(t.drawn)
      <4>1. ASSUME NEW a \in Nat, NEW c \in Nat, NEW j \in 1 .. a PROVE j \in 1 .. a + c
        BY <4>1
      <4>2. k \in 1 .. n + Len(ws)
        BY <1>1, <1>3, <4>1
      <4> QED
        BY <1>4, <4>2
    <3> QED
      BY <1>4, <3>2, <3>3
  <2> QED
    BY <2>1, <2>2
<1> QED
  BY <1>2, <1>5, <1>6, <1>7 DEF LaidOut, t

LEMMA FirstLaidOut ==
  ASSUME NEW bs
  PROVE  LaidOut(bs, FirstSheet, 0)
<1> DEFINE s == FirstSheet
<1>1. s = [page |-> 1, line |-> CaptionEnd, notes |-> << >>, drawn |-> << >>, foot |-> {}]
  BY DEF FirstSheet
<1>2. CaptionEnd \in Nat \ {0}
  BY PageAssumption
<1> HIDE DEF s
<1>3. s.page = 1 /\ s.line = CaptionEnd /\ s.notes = << >> /\ s.drawn = << >> /\ s.foot = {}
      /\ s = [page |-> s.page, line |-> s.line, notes |-> s.notes, drawn |-> s.drawn, foot |-> s.foot]
  BY <1>1
<1>4. Len(s.drawn) = 0 /\ IsSeq(s.drawn) /\ NotesIn(s.notes)
  BY <1>3, NoneSeq DEF NotesIn
<1>5. SheetOk(s)
  BY <1>2, <1>3, <1>4 DEF SheetOk
<1>6. FootOk(bs, s)
  BY <1>3, <1>4 DEF FootOk, FootBelow, FootThere, RoomLeft
<1>7. Whats(s.drawn) = FlattenSeq([b \in 1 .. 0 |-> ToDraw(bs[b])])
  <2> DEFINE ss == [b \in 1 .. 0 |-> ToDraw(bs[b])]
  <2>1. Len(ss) = 0 /\ IsSeq(ss)
    <3>1. ss = [b \in 1 .. 0 |-> ss[b]]
      OBVIOUS
    <3> QED
      BY <3>1, FcnSeq
  <2> HIDE DEF ss
  <2>2. FlattenSeq(ss) = ss
    BY <2>1 DEF FlattenSeq
  <2>3. ss = << >>
    BY <2>1, NoneSeq, SeqEq
  <2>4. Whats(s.drawn) = << >>
    BY <1>4 DEF Whats
  <2> QED
    BY <2>2, <2>3, <2>4 DEF ss
<1> QED
  BY <1>4, <1>5, <1>6, <1>7 DEF LaidOut, s

-----------------------------------------------------------------------------
(* What the parser makes of a body.                                        *)

MacroOk(m, n) ==
  /\ m \in SignKinds \cup {"center", "pagebreak"}
  /\ m = "sign" => n \in {0, 1} /\ (BlocksFit => SignLines + n <= LinesPerPage)
  /\ m = "seal" => n \in Nat /\ n > FollowingLines /\ (BlocksFit => n <= LinesPerPage)

LineOk(l) ==
  /\ l = [k |-> l.k, words |-> l.words, n |-> l.n, indent |-> l.indent, macro |-> l.macro]
  /\ IsSeq(l.words) /\ (l.k = "macro" => MacroOk(l.macro, l.n))

BodyLines(body) == IsSeq(body) /\ \A i \in 1 .. Len(body) : LineOk(body[i])

BlocksOk(bs) == IsSeq(bs) /\ \A i \in 1 .. Len(bs) : BlockOk(bs[i])

PendOk(p) == p = Nothing \/ (BlockOk(p) /\ p.kind \in TextKinds)

\* What has been read, and is being read.
ParseOk ==
  /\ BodyLines(lines) /\ at \in Nat \ {0} /\ PendOk(pend) /\ IsSeq(table)
  /\ verb = [on |-> verb.on, words |-> verb.words] /\ IsSeq(verb.words) /\ BlocksOk(blocks)

LEMMA BlocksMore ==
  ASSUME NEW bs, BlocksOk(bs), NEW b, BlockOk(b)
  PROVE  BlocksOk(Append(bs, b))
<1>1. /\ IsSeq(Append(bs, b)) /\ Len(Append(bs, b)) = Len(bs) + 1 /\ Append(bs, b)[Len(bs) + 1] = b
      /\ \A i \in 1 .. Len(bs) : Append(bs, b)[i] = bs[i]
  BY Appended DEF BlocksOk
<1>2. Len(bs) \in Nat
  BY SeqIs DEF BlocksOk
<1>3. \A i \in 1 .. Len(bs) + 1 : i = Len(bs) + 1 \/ i \in 1 .. Len(bs)
  BY <1>2
<1> QED
  BY <1>1, <1>3 DEF BlocksOk

LEMMA FlushedOk ==
  ASSUME NEW bs, BlocksOk(bs), PendOk(pend)
  PROVE  BlocksOk(Flushed(bs))
<1>1. CASE pend.words = << >>
  BY <1>1 DEF Flushed
<1>2. CASE pend.words # << >>
  <2>1. BlockOk(pend)
    BY <1>2 DEF PendOk, Nothing, Block
  <2> QED
    BY <1>2, <2>1, BlocksMore DEF Flushed
<1> QED
  BY <1>1, <1>2

LEMMA SimpleBlock ==
  ASSUME NEW kind \in {"paragraph", "heading", "bullet", "numbered", "quote", "table", "fixed"}, NEW ws, IsSeq(ws), NEW n
  PROVE  BlockOk(Block(kind, ws, n)) /\ Block(kind, ws, n).kind = kind
<1> DEFINE b == Block(kind, ws, n)
<1>1. b.kind = kind /\ b.words = ws /\ b.n = n /\ b = [kind |-> b.kind, words |-> b.words, n |-> b.n]
  BY DEF Block
<1> HIDE DEF b
<1>2. kind \in Kinds /\ kind # "sign" /\ kind # "seal"
  BY DEF Kinds, TextKinds
<1>3. BlockOk(b)
  BY <1>1, <1>2 DEF BlockOk
<1> QED
  BY <1>1, <1>3 DEF b

LEMMA TabledOk ==
  ASSUME ParseOk
  PROVE  BlocksOk(Tabled) /\ BlocksOk(Settled)
<1>1. BlocksOk(Tabled)
  <2>1. BlockOk(Block("table", table, 0))
    BY SimpleBlock DEF ParseOk
  <2> QED
    BY <2>1, BlocksMore DEF Tabled, ParseOk
<1> QED
  BY <1>1, FlushedOk DEF Settled, ParseOk

LEMMA TextSeq ==
  ASSUME LineOk(Line)
  PROVE  IsSeq(Text) /\ IsSeq(Line.words)
<1>1. IsSeq(Line.words)
  BY DEF LineOk
<1>2. IsSeq(<<Num[Line.n]>>)
  BY OneSeq
<1>3. IsSeq(<<Num[Line.n]>> \o Line.words)
  BY <1>1, <1>2, Joined
<1> QED
  BY <1>1, <1>3 DEF Text

LEMMA StartsOk ==
  ASSUME LineOk(Line)
  PROVE  PendOk(Starts)
<1> DEFINE l == Line
<1>1. IsSeq(Text) /\ IsSeq(l.words)
  BY TextSeq
<1>2. ASSUME NEW kind \in {"paragraph", "bullet", "numbered", "quote"}, NEW ws, IsSeq(ws), NEW n
      PROVE  PendOk(Block(kind, ws, n))
  BY <1>2, SimpleBlock DEF PendOk, TextKinds
<1>3. /\ PendOk(Block("bullet", l.words, 0)) /\ PendOk(Block("numbered", l.words, l.n))
      /\ PendOk(Block("quote", l.words, 0)) /\ PendOk(Block("paragraph", Text, 0))
  BY <1>1, <1>2
<1>4. PendOk(Nothing)
  BY DEF PendOk
<1> HIDE DEF PendOk, Block, Nothing
<1>5. Starts \in {Block("bullet", l.words, 0), Block("numbered", l.words, l.n), Block("quote", l.words, 0),
                  Block("paragraph", Text, 0), Nothing}
  <2>1. CASE Line.k = "bullet" /\ ~Line.indent
    BY <2>1 DEF Starts
  <2>2. CASE ~(Line.k = "bullet" /\ ~Line.indent) /\ Line.k = "item" /\ (letter \/ Tight(at))
    <3>1. Starts = Block("numbered", l.words, l.n)
      BY <2>2 DEF Starts
    <3> QED
      BY <3>1
  <2>3. CASE Line.k = "quote"
    <3>1. Starts = Block("quote", l.words, 0)
      BY <2>3 DEF Starts
    <3> QED
      BY <3>1
  <2>4. CASE Line.k \in {"blank", "comment", "heading", "macro"}
    <3>1. Starts = Nothing
      BY <2>4 DEF Starts
    <3> QED
      BY <3>1
  <2>5. CASE /\ ~(Line.k = "bullet" /\ ~Line.indent) /\ ~(Line.k = "item" /\ (letter \/ Tight(at)))
             /\ Line.k # "quote" /\ Line.k \notin {"blank", "comment", "heading", "macro"}
    <3>1. Starts = Block("paragraph", Text, 0)
      BY <2>5 DEF Starts
    <3> QED
      BY <3>1
  <2> QED
    BY <2>1, <2>2, <2>3, <2>4, <2>5
<1> HIDE DEF l
<1> QED
  BY <1>3, <1>4, <1>5

LEMMA WholeOk ==
  ASSUME LineOk(Line), NEW bs, BlocksOk(bs)
  PROVE  BlocksOk(bs \o Whole)
<1> DEFINE kind == IF Line.k = "heading" THEN "heading" ELSE Line.macro
           b == Block(kind, Line.words, Line.n)
<1>1. CASE Line.k \in {"heading", "macro"}
  <2>1. Whole = <<b>>
    BY <1>1 DEF Whole
  <2>2. BlockOk(b)
    <3>1. CASE Line.k = "heading"
      BY <3>1, SimpleBlock DEF LineOk
    <3>2. CASE Line.k = "macro"
      <4>1. MacroOk(Line.macro, Line.n) /\ IsSeq(Line.words) /\ kind = Line.macro
        BY <3>2 DEF LineOk
      <4>2. b.kind = kind /\ b.words = Line.words /\ b.n = Line.n /\ b = [kind |-> b.kind, words |-> b.words, n |-> b.n]
        BY DEF Block
      <4> HIDE DEF b, kind
      <4> QED
        BY <4>1, <4>2 DEF BlockOk, MacroOk, Kinds
    <3> QED
      BY <1>1, <3>1, <3>2
  <2>3. bs \o <<b>> = Append(bs, b)
    BY JoinOne DEF BlocksOk
  <2> QED
    BY <2>1, <2>2, <2>3, BlocksMore
<1>2. CASE Line.k \notin {"heading", "macro"}
  <2>1. Whole = << >>
    BY <1>2 DEF Whole
  <2> QED
    BY <2>1, JoinOne DEF BlocksOk
<1> QED
  BY <1>1, <1>2

LEMMA PendMore ==
  ASSUME PendOk(pend), LineOk(Line), Joins
  PROVE  PendOk([pend EXCEPT !.words = @ \o Text])
<1> DEFINE p == [pend EXCEPT !.words = @ \o Text]
<1>1. pend # Nothing
  BY DEF Joins, Continues, Nothing, Block
<1>2. BlockOk(pend) /\ pend.kind \in TextKinds
  BY <1>1 DEF PendOk
<1>7. ASSUME NEW b, NEW ws, b = [kind |-> b.kind, words |-> b.words, n |-> b.n]
      PROVE  [b EXCEPT !.words = @ \o ws] = [kind |-> b.kind, words |-> b.words \o ws, n |-> b.n]
  <2>1. ASSUME NEW w PROVE [b EXCEPT !.words = w] = [kind |-> b.kind, words |-> w, n |-> b.n]
    BY <1>7
  <2>2. [b EXCEPT !.words = @ \o ws] = [b EXCEPT !.words = b.words \o ws]
    BY <1>7
  <2> QED
    BY <2>1, <2>2
<1>8. pend = [kind |-> pend.kind, words |-> pend.words, n |-> pend.n]
  BY <1>2 DEF BlockOk
<1>3. p = [kind |-> pend.kind, words |-> pend.words \o Text, n |-> pend.n]
  BY <1>7, <1>8
<1> HIDE DEF p
<1>4. IsSeq(pend.words \o Text)
  BY <1>2, TextSeq, Joined DEF BlockOk
<1>5. p.kind = pend.kind /\ p.words = pend.words \o Text /\ p.n = pend.n /\ p = [kind |-> p.kind, words |-> p.words, n |-> p.n]
  BY <1>3
<1>6. BlockOk(p)
  BY <1>2, <1>4, <1>5 DEF BlockOk
<1> QED
  BY <1>2, <1>5, <1>6 DEF PendOk, p

LEMMA ReadLineOk ==
  ASSUME ParseOk, LineOk(Line), ReadLine
  PROVE  PendOk(pend') /\ IsSeq(table') /\ verb' = verb /\ BlocksOk(blocks')
<1>1. IsSeq(table') /\ verb' = verb
  BY NoneSeq DEF ReadLine
<1>2. CASE Joins
  <2>1. pend' = [pend EXCEPT !.words = @ \o Text] /\ blocks' = Tabled
    BY <1>2 DEF ReadLine
  <2> QED
    BY <1>1, <1>2, <2>1, PendMore, TabledOk DEF ParseOk
<1>3. CASE ~Joins
  <2>1. pend' = Starts /\ blocks' = Settled \o Whole
    BY <1>3 DEF ReadLine
  <2>2. BlocksOk(Settled \o Whole)
    BY TabledOk, WholeOk
  <2> QED
    BY <1>1, <2>1, <2>2, StartsOk
<1> QED
  BY <1>2, <1>3

LEMMA VerbatimOk ==
  ASSUME ParseOk, LineOk(Line), Verbatim
  PROVE  /\ PendOk(pend') /\ IsSeq(table') /\ BlocksOk(blocks')
         /\ verb' = [on |-> verb'.on, words |-> verb'.words] /\ IsSeq(verb'.words)
<1>0. PendOk(Nothing) /\ PendOk(pend) /\ IsSeq(table) /\ BlocksOk(blocks) /\ IsSeq(verb.words)
  BY DEF PendOk, ParseOk
<1>1. PendOk(pend') /\ IsSeq(table')
  BY <1>0 DEF Verbatim
<1>2. Closed = [on |-> Closed.on, words |-> Closed.words] /\ IsSeq(Closed.words)
  BY NoneSeq DEF Closed
<1>3. CASE verb.on /\ Line.k = "end"
  <2>1. blocks' = Append(blocks, Block("fixed", verb.words, 0)) /\ verb' = Closed
    BY <1>3 DEF Verbatim
  <2>2. BlockOk(Block("fixed", verb.words, 0))
    BY <1>0, SimpleBlock
  <2> QED
    BY <1>0, <1>1, <1>2, <2>1, <2>2, BlocksMore
<1>4. CASE verb.on /\ Line.k # "end"
  <2>1. verb' = [verb EXCEPT !.words = @ \o Text] /\ blocks' = blocks
    BY <1>4 DEF Verbatim
  <2>2. verb = [on |-> verb.on, words |-> verb.words]
    BY DEF ParseOk
  <2>3. verb' = [on |-> verb.on, words |-> verb.words \o Text]
    BY <2>1, <2>2
  <2>4. IsSeq(verb.words \o Text)
    BY <1>0, TextSeq, Joined
  <2> QED
    BY <1>0, <1>1, <2>1, <2>3, <2>4
<1>5. CASE ~verb.on
  <2>1. blocks' = Flushed(blocks) /\ verb' = [Closed EXCEPT !.on = TRUE]
    BY <1>5 DEF Verbatim
  <2>2. verb' = [on |-> TRUE, words |-> << >>]
    BY <2>1 DEF Closed
  <2>3. verb'.words = << >> /\ verb' = [on |-> verb'.on, words |-> verb'.words]
    BY <2>2
  <2>4. BlocksOk(Flushed(blocks))
    BY <1>0, FlushedOk
  <2> QED
    BY <1>1, <2>1, <2>3, <2>4, NoneSeq
<1> QED
  BY <1>3, <1>4, <1>5

LEMMA RowOk ==
  ASSUME ParseOk, LineOk(Line), Row
  PROVE  PendOk(pend') /\ IsSeq(table') /\ verb' = verb /\ BlocksOk(blocks')
<1>1. PendOk(Nothing) /\ PendOk(pend) /\ IsSeq(table) /\ BlocksOk(blocks) /\ BlocksOk(Flushed(blocks))
  BY FlushedOk DEF PendOk, ParseOk
<1>2. IsSeq(table \o Line.words)
  BY <1>1, TextSeq, Joined
<1> QED
  BY <1>1, <1>2 DEF Row

\* A line more is read, or the end.
LEMMA ParsedOk ==
  ASSUME ParseOk, ParseLine \/ ParseEnd
  PROVE  ParseOk'
<1>1. CASE ParseLine
  <2>1. at \in 1 .. Len(lines) /\ Len(lines) \in Nat
    BY <1>1, SeqIs DEF ParseOk, ParseLine, BodyLines
  <2>2. LineOk(Line)
    BY <2>1 DEF ParseOk, BodyLines, Line
  <2>3. lines' = lines /\ at' = at + 1 /\ at' \in Nat \ {0}
    BY <1>1, <2>1 DEF ParseLine
  <2>4. Verbatim \/ Comment \/ Row \/ ReadLine
    BY <1>1 DEF ParseLine
  <2>5. /\ PendOk(pend)' /\ IsSeq(table') /\ BlocksOk(blocks')
        /\ verb' = [on |-> verb'.on, words |-> verb'.words] /\ IsSeq(verb'.words)
    <3>1. CASE Verbatim
      BY <2>2, <3>1, VerbatimOk
    <3>2. CASE Comment
      BY <3>2 DEF Comment, ParseOk, PendOk
    <3>3. CASE Row
      BY <2>2, <3>3, RowOk DEF ParseOk
    <3>4. CASE ReadLine
      BY <2>2, <3>4, ReadLineOk DEF ParseOk
    <3> QED
      BY <2>4, <3>1, <3>2, <3>3, <3>4
  <2> QED
    BY <2>3, <2>5 DEF ParseOk
<1>2. CASE ParseEnd
  <2>1. lines' = lines /\ at' = at + 1 /\ blocks' = Settled /\ pend' = Nothing /\ table' = << >> /\ verb' = verb
    BY <1>2 DEF ParseEnd
  <2>2. PendOk(Nothing) /\ IsSeq(<< >>)
    BY NoneSeq DEF PendOk
  <2>3. at' \in Nat \ {0}
    BY <2>1 DEF ParseOk
  <2> QED
    BY <2>1, <2>2, <2>3, TabledOk DEF ParseOk
<1> QED
  BY <1>1, <1>2

\* Numbers are all that number_headings changes.
LEMMA NumberedOk ==
  ASSUME NEW bs, BlocksOk(bs)
  PROVE  LET ns == NumberHeadings(bs) IN
         /\ BlocksOk(ns) /\ Len(ns) = Len(bs)
         /\ \A i \in 1 .. Len(bs) : ns[i].kind = bs[i].kind /\ ns[i].words = bs[i].words
<1> DEFINE ns == NumberHeadings(bs)
<1>1. Len(bs) \in Nat /\ DOMAIN bs = 1 .. Len(bs)
  BY SeqIs DEF BlocksOk
<1>2. PICK c : ns = [i \in DOMAIN bs |-> IF bs[i].kind = "heading" THEN [bs[i] EXCEPT !.n = c[i][bs[i].n]] ELSE bs[i]]
  BY DEF NumberHeadings
<1> HIDE DEF ns
<1>3. IsSeq(ns) /\ Len(ns) = Len(bs)
  <2>1. ns = [i \in 1 .. Len(bs) |-> ns[i]]
    BY <1>1, <1>2
  <2> QED
    BY <1>1, <2>1, FcnSeq
<1>4. ASSUME NEW i \in 1 .. Len(bs) PROVE BlockOk(ns[i]) /\ ns[i].kind = bs[i].kind /\ ns[i].words = bs[i].words
  <2>1. BlockOk(bs[i])
    BY DEF BlocksOk
  <2>2. CASE bs[i].kind = "heading"
    <3> DEFINE b == bs[i]  m == ns[i]
    <3>1. b = [kind |-> b.kind, words |-> b.words, n |-> b.n]
      BY <2>1 DEF BlockOk
    <3>2. m = [b EXCEPT !.n = c[i][b.n]]
      BY <1>1, <1>2, <2>2
    <3> HIDE DEF b, m
    <3>3. m = [kind |-> b.kind, words |-> b.words, n |-> c[i][b.n]]
      BY <3>1, <3>2
    <3>4. m.kind = b.kind /\ m.words = b.words /\ m = [kind |-> m.kind, words |-> m.words, n |-> m.n]
      BY <3>3
    <3>5. BlockOk(m)
      BY <2>1, <2>2, <3>4 DEF BlockOk, b
    <3> QED
      BY <3>4, <3>5 DEF b, m
  <2>3. CASE bs[i].kind # "heading"
    BY <1>1, <1>2, <2>1, <2>3
  <2> QED
    BY <2>2, <2>3
<1> QED
  BY <1>3, <1>4 DEF BlocksOk, ns

-----------------------------------------------------------------------------
(* What the macros make of a line.                                         *)

LEMMA MinIs ==
  ASSUME NEW S, S \subseteq Nat, S # {}
  PROVE  Min(S) \in S /\ \A y \in S : Min(S) <= y
<1> DEFINE R == OpToRel(<, Nat)
<1>1. IsWellFoundedOn(R, Nat)
  BY NatLessThanWellFounded
<1>2. \A x, y \in Nat : x < y => <<x, y>> \in R
  BY DEF OpToRel
<1> HIDE DEF R
<1>3. PICK i \in S : \A y \in S : ~ (<<y, i>> \in R)
  BY <1>1, WFMin
<1>4. \A y \in S : i <= y
  <2> SUFFICES ASSUME NEW y \in S PROVE i <= y
    OBVIOUS
  <2>1. ~(y < i)
    BY <1>2, <1>3
  <2>2. y \in Nat /\ i \in Nat
    OBVIOUS
  <2> QED
    BY <2>1, <2>2
<1> QED
  BY <1>4 DEF Min

LEMMA CloseIs ==
  ASSUME NEW t, IsSeq(t), NEW i \in 1 .. Len(t)
  PROVE  Close(t, i) = 0 \/ Close(t, i) \in i .. Len(t)
<1> DEFINE ends == {j \in i .. Len(t) : Count(t, "{", i, j) = Count(t, "}", i, j)}
<1>1. Close(t, i) = IF ends = {} THEN 0 ELSE Min(ends)
  BY DEF Close
<1>3. Len(t) \in Nat
  BY SeqIs
<1>4. \A j \in i .. Len(t) : j \in Nat
  BY <1>3
<1>5. ends \subseteq i .. Len(t)
  OBVIOUS
<1>2. ends \subseteq Nat /\ ends \subseteq i .. Len(t)
  BY <1>4, <1>5
<1> HIDE DEF ends
<1> QED
  BY <1>1, <1>2, MinIs

\* The braced arguments lie one behind the other.
ArgsOk(t, i, args) ==
  IsSeq(args) /\ \A j \in 1 .. Len(args) :
    args[j][1] \in i .. Len(t) /\ args[j][2] \in i .. Len(t) /\ args[j][1] <= args[j][2]

ArgsNext(t, i, a, k) ==
  LET from == IF k = 1 THEN i ELSE a[Len(a)][2] + 1
  IN  IF Len(a) = k - 1 /\ IsOpen(t, from) /\ Close(t, from) # 0 THEN Append(a, <<from, Close(t, from)>>) ELSE a

Args1(t, i, n, f) == f = [k \in 0 .. n |-> IF k = 0 THEN << >> ELSE ArgsNext(t, i, f[k - 1], k)]

LEMMA ArgsExist ==
  ASSUME NEW t, NEW i, NEW n \in Nat
  PROVE  \E f : Args1(t, i, n, f)
<1> DEFINE P == {m \in 0 .. n : \E f : Args1(t, i, m, f)}
<1>1. 0 \in P
  <2> DEFINE g == [k \in 0 .. 0 |-> << >>]
  <2>1. Args1(t, i, 0, g)
    BY DEF Args1
  <2> QED
    BY <2>1
<1>2. ASSUME NEW m \in 1 .. n, m - 1 \in P PROVE m \in P
  <2>1. PICK f : Args1(t, i, m - 1, f)
    BY <1>2
  <2> DEFINE last == ArgsNext(t, i, f[m - 1], m)
             g == [k \in 0 .. m |-> IF k = m THEN last ELSE f[k]]
  <2>2. \A k \in 0 .. m : g[k] = IF k = 0 THEN << >> ELSE ArgsNext(t, i, g[k - 1], k)
    <3> SUFFICES ASSUME NEW k \in 0 .. m PROVE g[k] = IF k = 0 THEN << >> ELSE ArgsNext(t, i, g[k - 1], k)
      OBVIOUS
    <3>1. CASE k = m
      <4>1. g[k - 1] = f[m - 1] /\ g[k] = last
        BY <3>1
      <4> QED
        BY <3>1, <4>1
    <3>2. CASE k # m
      <4>1. k \in 0 .. m - 1 /\ g[k] = f[k]
        BY <3>2
      <4>2. f[k] = IF k = 0 THEN << >> ELSE ArgsNext(t, i, f[k - 1], k)
        BY <2>1, <4>1 DEF Args1
      <4>3. k # 0 => g[k - 1] = f[k - 1]
        BY <4>1
      <4> HIDE DEF g
      <4> QED
        BY <4>1, <4>2, <4>3
    <3> QED
      BY <3>1, <3>2
  <2>3. g = [k \in 0 .. m |-> g[k]]
    OBVIOUS
  <2> HIDE DEF g
  <2>4. Args1(t, i, m, g)
    BY <2>2, <2>3 DEF Args1
  <2> QED
    BY <2>4
<1> HIDE DEF P
<1>3. \A m \in 0 .. n : m \in P
  BY <1>1, <1>2, Induct
<1>4. n \in P
  BY <1>3
<1> QED
  BY <1>4 DEF P

LEMMA ArgsNextOk ==
  ASSUME NEW t, IsSeq(t), NEW i \in Nat \ {0}, NEW a, ArgsOk(t, i, a), NEW k \in Nat \ {0}
  PROVE  ArgsOk(t, i, ArgsNext(t, i, a, k))
<1> DEFINE from == IF k = 1 THEN i ELSE a[Len(a)][2] + 1
           b == ArgsNext(t, i, a, k)
<1>1. CASE Len(a) = k - 1 /\ IsOpen(t, from) /\ Close(t, from) # 0
  <2>1. b = Append(a, <<from, Close(t, from)>>)
    BY <1>1 DEF ArgsNext
  <2>2. from \in Nat \ {0} /\ i <= from
    <3>1. CASE k = 1
      BY <3>1
    <3>2. CASE k # 1
      <4>1. Len(a) \in 1 .. Len(a)
        BY <1>1, <3>2
      <4>2. a[Len(a)][2] \in i .. Len(t)
        BY <4>1 DEF ArgsOk
      <4>3. Len(t) \in Nat
        BY SeqIs
      <4> QED
        BY <3>2, <4>2, <4>3
    <3> QED
      BY <3>1, <3>2
  <2> HIDE DEF from, b
  <2>8. Len(t) \in Nat
    BY SeqIs
  <2>9. from <= Len(t)
    BY <1>1 DEF IsOpen
  <2>3. from \in 1 .. Len(t)
    BY <2>2, <2>8, <2>9
  <2>4. Close(t, from) \in from .. Len(t)
    BY <1>1, <2>3, CloseIs
  <2> DEFINE c == Close(t, from)  e == <<from, c>>
  <2>5. e[1] = from /\ e[2] = c /\ from \in i .. Len(t) /\ c \in i .. Len(t) /\ from <= c
    BY <2>2, <2>3, <2>4
  <2> HIDE DEF e
  <2>6. /\ IsSeq(b) /\ Len(b) = Len(a) + 1 /\ b[Len(a) + 1] = e
        /\ \A j \in 1 .. Len(a) : b[j] = a[j]
    BY <2>1, Appended DEF ArgsOk, e
  <2>7. \A j \in 1 .. Len(a) + 1 : j \in 1 .. Len(a) \/ j = Len(a) + 1
    BY <1>1
  <2> QED
    BY <2>5, <2>6, <2>7 DEF ArgsOk, b
<1>2. CASE ~(Len(a) = k - 1 /\ IsOpen(t, from) /\ Close(t, from) # 0)
  BY <1>2 DEF ArgsNext
<1> QED
  BY <1>1, <1>2

LEMMA ArgumentsOk ==
  ASSUME NEW t, IsSeq(t), NEW i \in Nat \ {0}, NEW n \in Nat
  PROVE  ArgsOk(t, i, Arguments(t, i, n))
<1> DEFINE f == CHOOSE g : g = [k \in 0 .. n |-> IF k = 0 THEN << >>
                  ELSE LET from == IF k = 1 THEN i ELSE g[k - 1][Len(g[k - 1])][2] + 1
                       IN  IF Len(g[k - 1]) = k - 1 /\ IsOpen(t, from) /\ Close(t, from) # 0
                           THEN Append(g[k - 1], <<from, Close(t, from)>>) ELSE g[k - 1]]
<1>1. Arguments(t, i, n) = f[n]
  BY DEF Arguments
<1>2. \E g : Args1(t, i, n, g)
  BY ArgsExist
<1>3. f = CHOOSE g : Args1(t, i, n, g)
  BY DEF Args1, ArgsNext
<1> HIDE DEF f
<1>4. Args1(t, i, n, f)
  BY <1>2, <1>3
<1> DEFINE P == {k \in 0 .. n : ArgsOk(t, i, f[k])}
<1>5. 0 \in P
  <2>1. f[0] = << >>
    BY <1>4 DEF Args1
  <2> QED
    BY <2>1, NoneSeq DEF ArgsOk
<1>6. \A k \in 1 .. n : k - 1 \in P => k \in P
  <2> SUFFICES ASSUME NEW k \in 1 .. n, k - 1 \in P PROVE k \in P
    OBVIOUS
  <2>1. f[k] = ArgsNext(t, i, f[k - 1], k)
    BY <1>4 DEF Args1
  <2>2. ArgsOk(t, i, f[k - 1]) /\ k \in Nat \ {0}
    OBVIOUS
  <2> QED
    BY <2>1, <2>2, ArgsNextOk
<1> HIDE DEF P
<1>7. \A k \in 0 .. n : k \in P
  BY <1>5, <1>6, Induct
<1>8. n \in P
  BY <1>7
<1> QED
  BY <1>1, <1>8 DEF P

\* A text, and what was redacted of it.
ReadOk(r) == r = [text |-> r.text, log |-> r.log, ok |-> r.ok] /\ IsSeq(r.text)
             /\ IsSeq(r.log) /\ \A k \in 1 .. Len(r.log) : IsSeq(r.log[k][3])

AtMacro(t, lits, v, rest, args) ==
  LET arg(k) == Inner(t, args[k])
  IN  CASE Unclosed(t, args) -> [rest EXCEPT !.ok = FALSE]
        [] Len(args) = 1 /\ ~Unclosed(t, args) ->
             IF Known(arg(1), lits)
             THEN [rest EXCEPT !.text = OneArgument(arg(1), lits, v) \o @]
             ELSE [rest EXCEPT !.ok = FALSE]
        [] OTHER ->
             [rest EXCEPT !.text = (IF v = "sealed" THEN arg(1) ELSE arg(2)) \o @,
                          !.log = IF Len(args) = 3 THEN <<<<arg(1), arg(2), arg(3)>>>> \o @ ELSE @]

After(t, i) ==
  LET args == Arguments(t, i + 1, 3)
  IN  IF args = << >> THEN Len(t) + 1 ELSE args[Len(args)][2] + 1

ScanStep(t, lits, v, g, i) ==
  IF i > Len(t) THEN [text |-> << >>, log |-> << >>, ok |-> TRUE]
  ELSE IF t[i] = "redact" /\ IsOpen(t, i + 1)
  THEN AtMacro(t, lits, v, g[After(t, i)], Arguments(t, i + 1, 3))
  ELSE [g[i + 1] EXCEPT !.text = <<t[i]>> \o @]

Scans(t, lits, v, m, g) == g = [i \in m .. Len(t) + 1 |-> ScanStep(t, lits, v, g, i)]

LEMMA AfterIs ==
  ASSUME NEW t, IsSeq(t), NEW i \in 1 .. Len(t)
  PROVE  After(t, i) \in i + 1 .. Len(t) + 1
<1> DEFINE args == Arguments(t, i + 1, 3)
<1>1. Len(t) \in Nat
  BY SeqIs
<1>2. i + 1 \in Nat \ {0}
  OBVIOUS
<1>3. ArgsOk(t, i + 1, args)
  BY <1>2, ArgumentsOk
<1> HIDE DEF args
<1>4. CASE args = << >>
  BY <1>1, <1>4 DEF After, args
<1>5. CASE args # << >>
  <2>1. After(t, i) = args[Len(args)][2] + 1
    BY <1>5 DEF After, args
  <2>2. IsSeq(args) /\ Len(args) \in Nat
    BY <1>3, SeqIs DEF ArgsOk
  <2>3. Len(args) # 0
    <3> SUFFICES ASSUME Len(args) = 0 PROVE FALSE
      OBVIOUS
    <3>1. args = << >>
      BY <2>2, NoneSeq, SeqEq
    <3> QED
      BY <1>5, <3>1
  <2>4. Len(args) \in 1 .. Len(args)
    BY <2>2, <2>3
  <2>5. args[Len(args)][2] \in i + 1 .. Len(t)
    BY <1>3, <2>4 DEF ArgsOk
  <2> QED
    BY <1>1, <2>1, <2>5
<1> QED
  BY <1>4, <1>5

\* A step looks only behind its place.
LEMMA ScanLocal ==
  ASSUME NEW t, IsSeq(t), NEW lits, NEW v, NEW i \in 1 .. Len(t) + 1, NEW f, NEW g,
         \A j \in i + 1 .. Len(t) + 1 : f[j] = g[j]
  PROVE  ScanStep(t, lits, v, f, i) = ScanStep(t, lits, v, g, i)
<1>1. Len(t) \in Nat
  BY SeqIs
<1>2. CASE i > Len(t)
  BY <1>2 DEF ScanStep
<1>3. CASE ~(i > Len(t))
  <2>1. i \in 1 .. Len(t)
    BY <1>1, <1>3
  <2>2. After(t, i) \in i + 1 .. Len(t) + 1 /\ i + 1 \in i + 1 .. Len(t) + 1
    BY <1>1, <2>1, AfterIs
  <2>3. f[After(t, i)] = g[After(t, i)] /\ f[i + 1] = g[i + 1]
    BY <2>2
  <2> QED
    BY <1>3, <2>3 DEF ScanStep
<1> QED
  BY <1>2, <1>3

LEMMA ScansExist ==
  ASSUME NEW t, IsSeq(t), NEW lits, NEW v
  PROVE  \E g : Scans(t, lits, v, 1, g)
<1> DEFINE n == Len(t)
           P == {m \in 0 .. n : \E g : Scans(t, lits, v, n + 1 - m, g)}
<1>0. n \in Nat
  BY SeqIs
<1>1. 0 \in P
  <2> DEFINE last == [text |-> << >>, log |-> << >>, ok |-> TRUE]
             g == [i \in n + 1 .. n + 1 |-> last]
  <2>1. \A i \in n + 1 .. n + 1 : i > n
    BY <1>0
  <2>2. \A i \in n + 1 .. n + 1 : ScanStep(t, lits, v, g, i) = last
    BY <2>1 DEF ScanStep
  <2> HIDE DEF last
  <2>3. g = [i \in n + 1 .. n + 1 |-> ScanStep(t, lits, v, g, i)]
    BY <2>2
  <2> HIDE DEF g
  <2>4. Scans(t, lits, v, n + 1, g)
    BY <2>3 DEF Scans
  <2>5. n + 1 - 0 = n + 1 /\ 0 \in 0 .. n
    BY <1>0
  <2> QED
    BY <2>4, <2>5
<1>2. ASSUME NEW m \in 1 .. n, m - 1 \in P PROVE m \in P
  <2> DEFINE a == n + 1 - m
  <2>0. a \in 1 .. n /\ n + 1 - (m - 1) = a + 1
    BY <1>0
  <2>1. PICK f : Scans(t, lits, v, a + 1, f)
    BY <1>2, <2>0
  <2> DEFINE last == ScanStep(t, lits, v, f, a)
             g == [i \in a .. n + 1 |-> IF i = a THEN last ELSE f[i]]
  <2> HIDE DEF a
  <2>2. \A j \in a + 1 .. n + 1 : g[j] = f[j]
    BY <2>0
  <2>3. ASSUME NEW i \in a .. n + 1 PROVE g[i] = ScanStep(t, lits, v, g, i)
    <3>1. i \in 1 .. Len(t) + 1 /\ \A j \in i + 1 .. Len(t) + 1 : g[j] = f[j]
      BY <2>0, <2>2
    <3>2. ScanStep(t, lits, v, g, i) = ScanStep(t, lits, v, f, i)
      <4> HIDE DEF g
      <4> QED
        BY <3>1, ScanLocal
    <3>3. CASE i = a
      BY <3>2, <3>3
    <3>4. CASE i # a
      <4>1. i \in a + 1 .. n + 1 /\ g[i] = f[i]
        BY <2>0, <3>4
      <4>2. f[i] = ScanStep(t, lits, v, f, i)
        BY <2>1, <4>1 DEF Scans
      <4> QED
        BY <3>2, <4>1, <4>2
    <3> QED
      BY <3>3, <3>4
  <2>4. g = [i \in a .. n + 1 |-> g[i]]
    OBVIOUS
  <2> HIDE DEF g
  <2>5. Scans(t, lits, v, a, g)
    BY <2>3, <2>4 DEF Scans
  <2>6. m \in 0 .. n
    OBVIOUS
  <2> QED
    BY <2>5, <2>6 DEF a
<1> HIDE DEF P
<1>3. \A m \in 0 .. n : m \in P
  BY <1>0, <1>1, <1>2, Induct
<1>4. n \in P /\ n + 1 - n = 1
  BY <1>0, <1>3
<1> QED
  BY <1>4 DEF P

LEMMA InnerSeq ==
  ASSUME NEW t, IsSeq(t), NEW i \in Nat \ {0}, NEW args, ArgsOk(t, i, args), NEW k \in 1 .. Len(args)
  PROVE  IsSeq(Inner(t, args[k]))
<1>1. args[k][1] \in i .. Len(t) /\ args[k][2] \in i .. Len(t)
  BY DEF ArgsOk
<1>2. Len(t) \in Nat
  BY SeqIs
<1> DEFINE a == args[k][1] + 1  b == args[k][2] - 1
<1>3. a \in 1 .. Len(t) + 1 /\ b \in 0 .. Len(t)
  BY <1>1, <1>2
<1>4. Inner(t, args[k]) = SubSeq(t, a, b)
  BY DEF Inner
<1> HIDE DEF a, b
<1> QED
  BY <1>3, <1>4, CutSeq

LEMMA JoinedAt ==
  ASSUME NEW e, NEW q, IsSeq(e), IsSeq(q), NEW j \in 1 .. Len(q)
  PROVE  (e \o q)[Len(e) + j] = q[j]
  BY Joined

LEMMA SecondAt ==
  ASSUME NEW e, NEW q, IsSeq(e), IsSeq(q), NEW j \in 1 .. Len(q), Len(e) = 1
  PROVE  (e \o q)[1 + j] = q[j]
  BY JoinedAt

LEMMA Fronted1 ==
  ASSUME NEW e, NEW q, IsSeq(e), IsSeq(q), Len(e) = 1
  PROVE  /\ IsSeq(e \o q) /\ Len(e \o q) = 1 + Len(q) /\ (e \o q)[1] = e[1]
         /\ \A k \in 1 .. Len(q) : (e \o q)[1 + k] = q[k]
<1>1. IsSeq(e \o q) /\ Len(e \o q) = Len(e) + Len(q)
  BY Joined
<1>2. \A j \in 1 .. Len(e) : (e \o q)[j] = e[j]
  BY Joined
<1>3. \A j \in 1 .. Len(q) : (e \o q)[1 + j] = q[j]
  BY SecondAt
<1>4. 1 \in 1 .. Len(e)
  OBVIOUS
<1> QED
  BY <1>1, <1>2, <1>3, <1>4

LEMMA Fronted ==
  ASSUME NEW x, NEW q, IsSeq(q)
  PROVE  /\ IsSeq(<<x>> \o q) /\ Len(<<x>> \o q) = 1 + Len(q) /\ (<<x>> \o q)[1] = x
         /\ \A k \in 1 .. Len(q) : (<<x>> \o q)[1 + k] = q[k]
<1> DEFINE e == <<x>>
<1>1. IsSeq(e) /\ Len(e) = 1 /\ e[1] = x
  BY OneSeq
<1> HIDE DEF e
<1>3. /\ IsSeq(e \o q) /\ Len(e \o q) = 1 + Len(q) /\ (e \o q)[1] = x
      /\ \A k \in 1 .. Len(q) : (e \o q)[1 + k] = q[k]
  BY <1>1, Fronted1
<1> QED
  BY <1>3 DEF e

LEMMA AtMacroOk ==
  ASSUME NEW t, IsSeq(t), NEW i \in Nat \ {0}, NEW args, ArgsOk(t, i, args), NEW lits, NEW v, NEW rest, ReadOk(rest)
  PROVE  ReadOk(AtMacro(t, lits, v, rest, args))
<1> DEFINE r == AtMacro(t, lits, v, rest, args)
           arg(k) == Inner(t, args[k])
<1>1. rest = [text |-> rest.text, log |-> rest.log, ok |-> rest.ok] /\ IsSeq(rest.text) /\ IsSeq(rest.log)
      /\ \A k \in 1 .. Len(rest.log) : IsSeq(rest.log[k][3])
  BY DEF ReadOk
<1>2. \A k \in 1 .. Len(args) : IsSeq(arg(k))
  BY InnerSeq
<1>3. Len(args) \in Nat
  BY SeqIs DEF ArgsOk
<1> DEFINE no == [rest EXCEPT !.ok = FALSE]
<1>4. ReadOk(no)
  <2>0. rest = [text |-> rest.text, log |-> rest.log, ok |-> rest.ok]
    BY <1>1
  <2>3. \A c : [rest EXCEPT !.ok = c] = [text |-> rest.text, log |-> rest.log, ok |-> c]
    BY <2>0
  <2>1. no = [text |-> rest.text, log |-> rest.log, ok |-> FALSE]
    BY <2>3, Zenon
  <2> HIDE DEF no
  <2>2. no.text = rest.text /\ no.log = rest.log /\ no = [text |-> no.text, log |-> no.log, ok |-> no.ok]
    BY <2>1
  <2> QED
    BY <1>1, <2>2 DEF ReadOk
<1>5. CASE Unclosed(t, args)
  BY <1>4, <1>5 DEF AtMacro
<1>6. CASE Len(args) = 1 /\ ~Unclosed(t, args)
  <2>1. CASE ~Known(arg(1), lits)
    BY <1>4, <1>6, <2>1 DEF AtMacro
  <2>2. CASE Known(arg(1), lits)
    <3> DEFINE one == OneArgument(arg(1), lits, v)
    <3>1. r = [rest EXCEPT !.text = one \o @]
      BY <1>6, <2>2 DEF AtMacro
    <3>2. IsSeq(one)
      BY <1>2, <1>6, OneSeq DEF OneArgument
    <3> HIDE DEF one, r
    <3> DEFINE w == one \o rest.text
    <3>3. IsSeq(w)
      BY <1>1, <3>2, Joined
    <3>4. r = [rest EXCEPT !.text = w]
      BY <3>1
    <3> HIDE DEF w
    <3>5. r = [text |-> w, log |-> rest.log, ok |-> rest.ok]
      BY <1>1, <3>4
    <3>6. r.text = w /\ r.log = rest.log /\ r = [text |-> r.text, log |-> r.log, ok |-> r.ok]
      BY <3>5
    <3>7. ReadOk(r)
      BY <1>1, <3>3, <3>6 DEF ReadOk
    <3> QED
      BY <3>7 DEF r
  <2> QED
    BY <2>1, <2>2
<1>7. CASE Len(args) # 0 /\ Len(args) # 1 /\ ~Unclosed(t, args)
  <2> DEFINE shown == IF v = "sealed" THEN arg(1) ELSE arg(2)
             entry == <<arg(1), arg(2), arg(3)>>
             w == shown \o rest.text
             l == IF Len(args) = 3 THEN <<entry>> \o rest.log ELSE rest.log
  <2>1. IsSeq(shown) /\ (Len(args) = 3 => IsSeq(arg(3)))
    <3>0. ASSUME NEW n \in Nat, n # 0, n # 1 PROVE 1 \in 1 .. n /\ 2 \in 1 .. n /\ (n = 3 => 3 \in 1 .. n)
      BY <3>0
    <3>1. 1 \in 1 .. Len(args) /\ 2 \in 1 .. Len(args) /\ (Len(args) = 3 => 3 \in 1 .. Len(args))
      BY <1>3, <1>7, <3>0
    <3> QED
      BY <1>2, <3>1
  <2>2. IsSeq(w)
    <3> HIDE DEF shown
    <3> QED
      BY <1>1, <2>1, Joined
  <2>3. IsSeq(l) /\ \A k \in 1 .. Len(l) : IsSeq(l[k][3])
    <3>1. CASE Len(args) = 3
      <4>1. entry[3] = arg(3)
        OBVIOUS
      <4> HIDE DEF entry
      <4> DEFINE m == <<entry>> \o rest.log
      <4>2. IsSeq(rest.log)
        BY <1>1
      <4>3. /\ IsSeq(m) /\ Len(m) = 1 + Len(rest.log) /\ m[1] = entry
            /\ \A k \in 1 .. Len(rest.log) : m[1 + k] = rest.log[k]
        BY <4>2, Fronted
      <4>4. l = m
        BY <3>1
      <4> HIDE DEF m
      <4>5. Len(rest.log) \in Nat
        BY <1>1, SeqIs
      <4>6. ASSUME NEW k \in 1 .. Len(m) PROVE IsSeq(m[k][3])
        <5>1. k \in 1 .. 1 \/ (k - 1 \in 1 .. Len(rest.log) /\ 1 + (k - 1) = k)
          BY <4>3, <4>5, Halves
        <5>2. CASE k \in 1 .. 1
          BY <2>1, <3>1, <4>1, <4>3, <5>2
        <5>3. CASE k - 1 \in 1 .. Len(rest.log) /\ 1 + (k - 1) = k
          BY <1>1, <4>3, <5>3
        <5> QED
          BY <5>1, <5>2, <5>3
      <4> QED
        BY <4>3, <4>4, <4>6
    <3>2. CASE Len(args) # 3
      BY <1>1, <3>2
    <3> QED
      BY <3>1, <3>2
  <2>4. r = [rest EXCEPT !.text = w, !.log = l]
    <3>1. r = [rest EXCEPT !.text = shown \o @, !.log = IF Len(args) = 3 THEN <<entry>> \o @ ELSE @]
      BY <1>7 DEF AtMacro
    <3> HIDE DEF r, shown, entry
    <3> QED
      BY <3>1
  <2> HIDE DEF w, l, r
  <2>5. r = [text |-> w, log |-> l, ok |-> rest.ok]
    BY <1>1, <2>4
  <2>6. r.text = w /\ r.log = l /\ r = [text |-> r.text, log |-> r.log, ok |-> r.ok]
    BY <2>5
  <2>7. ReadOk(r)
    BY <2>2, <2>3, <2>6 DEF ReadOk
  <2> QED
    BY <2>7 DEF r
<1>8. ~Unclosed(t, args) => Len(args) # 0
  BY DEF Unclosed
<1> QED
  BY <1>5, <1>6, <1>7, <1>8

LEMMA ScanStepOk ==
  ASSUME NEW t, IsSeq(t), NEW lits, NEW v, NEW i \in 1 .. Len(t) + 1, NEW g, \A j \in i + 1 .. Len(t) + 1 : ReadOk(g[j])
  PROVE  ReadOk(ScanStep(t, lits, v, g, i))
<1> DEFINE r == ScanStep(t, lits, v, g, i)
<1>1. Len(t) \in Nat
  BY SeqIs
<1>2. CASE i > Len(t)
  <2>1. r = [text |-> << >>, log |-> << >>, ok |-> TRUE]
    BY <1>2 DEF ScanStep
  <2> HIDE DEF r
  <2>2. r.text = << >> /\ r.log = << >> /\ r = [text |-> r.text, log |-> r.log, ok |-> r.ok]
    BY <2>1
  <2>3. ReadOk(r)
    BY <2>2, NoneSeq DEF ReadOk
  <2> QED
    BY <2>3 DEF r
<1>3. CASE ~(i > Len(t)) /\ t[i] = "redact" /\ IsOpen(t, i + 1)
  <2>1. i \in 1 .. Len(t) /\ i + 1 \in Nat \ {0}
    BY <1>1, <1>3
  <2>2. ReadOk(g[After(t, i)])
    BY <2>1, AfterIs
  <2>3. ArgsOk(t, i + 1, Arguments(t, i + 1, 3))
    BY <2>1, ArgumentsOk
  <2> QED
    BY <1>3, <2>1, <2>2, <2>3, AtMacroOk DEF ScanStep
<1>4. CASE ~(i > Len(t)) /\ ~(t[i] = "redact" /\ IsOpen(t, i + 1))
  <2> DEFINE rest == g[i + 1]  w == <<t[i]>> \o rest.text
  <2>1. ReadOk(rest)
    BY <1>1, <1>4
  <2>2. r = [rest EXCEPT !.text = <<t[i]>> \o @]
    BY <1>4 DEF ScanStep
  <2> HIDE DEF r, rest
  <2>3. r = [rest EXCEPT !.text = w]
    BY <2>2
  <2>4. IsSeq(w)
    BY <2>1, OneSeq, Joined DEF ReadOk
  <2> HIDE DEF w
  <2>5. rest = [text |-> rest.text, log |-> rest.log, ok |-> rest.ok]
    BY <2>1 DEF ReadOk
  <2>6. r = [text |-> w, log |-> rest.log, ok |-> rest.ok]
    BY <2>3, <2>5
  <2>7. r.text = w /\ r.log = rest.log /\ r = [text |-> r.text, log |-> r.log, ok |-> r.ok]
    BY <2>6
  <2>8. ReadOk(r)
    BY <2>1, <2>4, <2>7 DEF ReadOk
  <2> QED
    BY <2>8 DEF r
<1> QED
  BY <1>2, <1>3, <1>4

\* Whatever the macros, a text stays one.
LEMMA RedactedOk ==
  ASSUME NEW t, IsSeq(t), NEW lits, NEW v
  PROVE  ReadOk(Redacted(t, lits, v))
<1> DEFINE n == Len(t)
           f == CHOOSE g : Scans(t, lits, v, 1, g)
<1>1. Redacted(t, lits, v) = f[1]
  BY DEF Redacted, Scans, ScanStep, AtMacro, After
<1>2. Scans(t, lits, v, 1, f)
  BY ScansExist
<1>3. n \in Nat
  BY SeqIs
<1> HIDE DEF f
<1> DEFINE P == {m \in 0 .. n : \A j \in n + 1 - m .. n + 1 : ReadOk(f[j])}
<1>4. \A i \in 1 .. n + 1 : f[i] = ScanStep(t, lits, v, f, i)
  BY <1>2 DEF Scans
<1>5. ASSUME NEW i \in 1 .. n + 1, \A j \in i + 1 .. n + 1 : ReadOk(f[j]) PROVE \A j \in i .. n + 1 : ReadOk(f[j])
  <2>1. ReadOk(f[i])
    BY <1>4, <1>5, ScanStepOk
  <2>2. \A j \in i .. n + 1 : j = i \/ j \in i + 1 .. n + 1
    BY <1>3
  <2> QED
    BY <1>5, <2>1, <2>2
<1>6. 0 \in P
  <2> DEFINE a == n + 1
  <2>1. a \in 1 .. n + 1 /\ a = n + 1 - 0 /\ (\A j \in a + 1 .. n + 1 : FALSE) /\ 0 \in 0 .. n
    BY <1>3
  <2> HIDE DEF a
  <2>2. \A j \in a .. n + 1 : ReadOk(f[j])
    BY <1>5, <2>1
  <2> QED
    BY <2>1, <2>2
<1>7. ASSUME NEW m \in 1 .. n, m - 1 \in P PROVE m \in P
  <2> DEFINE a == n + 1 - m
  <2>1. a \in 1 .. n + 1 /\ a + 1 = n + 1 - (m - 1) /\ m \in 0 .. n
    BY <1>3
  <2>2. \A j \in a + 1 .. n + 1 : ReadOk(f[j])
    BY <1>7, <2>1
  <2> HIDE DEF a
  <2>3. \A j \in a .. n + 1 : ReadOk(f[j])
    BY <1>5, <2>1, <2>2
  <2> QED
    BY <2>1, <2>3 DEF a
<1> HIDE DEF P
<1>8. \A m \in 0 .. n : m \in P
  BY <1>3, <1>6, <1>7, Induct
<1>9. n \in P /\ 1 \in n + 1 - n .. n + 1
  BY <1>3, <1>8
<1> QED
  BY <1>1, <1>9 DEF P

-----------------------------------------------------------------------------
(* The body that is parsed.                                                *)

LEMMA BodyIs ==
  ASSUME NEW s \in Sources
  PROVE  /\ BodyLines(s.body) /\ DOMAIN s.body = 1 .. Len(s.body) /\ Len(s.body) \in Nat
         /\ \A i \in 1 .. Len(s.body) : IsSeq(s.body[i].words)
<1> DEFINE L == [k : STRING, words : Seq(STRING), n : Nat, indent : BOOLEAN, macro : STRING]
           b == s.body
<1>1. b \in Seq(L) /\ \A i \in DOMAIN b : b[i].k = "macro" =>
        /\ b[i].macro \in SignKinds \cup {"center", "pagebreak"}
        /\ b[i].macro = "sign" => b[i].n \in {0, 1}
        /\ b[i].macro = "seal" => b[i].n > FollowingLines
  BY SourceAssumption DEF MacroIs
<1>2. \A i \in DOMAIN b : b[i].k = "macro" =>
        /\ BlocksFit /\ b[i].macro = "sign" => SignLines + b[i].n <= LinesPerPage
        /\ BlocksFit /\ b[i].macro = "seal" => b[i].n <= LinesPerPage
  BY DEF BlocksFit
<1> HIDE DEF b, L
<1>3. DOMAIN b = 1 .. Len(b) /\ Len(b) \in Nat /\ IsSeq(b)
  BY <1>1 DEF IsSeq
<1>4. ASSUME NEW i \in 1 .. Len(b) PROVE LineOk(b[i]) /\ IsSeq(b[i].words)
  <2>1. b[i] \in L
    BY <1>1
  <2>2. b[i] = [k |-> b[i].k, words |-> b[i].words, n |-> b[i].n, indent |-> b[i].indent, macro |-> b[i].macro]
        /\ b[i].words \in Seq(STRING) /\ b[i].n \in Nat
    BY <2>1 DEF L
  <2>3. IsSeq(b[i].words)
    BY <2>2 DEF IsSeq
  <2>4. b[i].k = "macro" => MacroOk(b[i].macro, b[i].n)
    BY <1>1, <1>2, <1>3, <2>2 DEF MacroOk
  <2> QED
    BY <2>2, <2>3, <2>4 DEF LineOk
<1>5. BodyLines(b)
  BY <1>3, <1>4 DEF BodyLines
<1> QED
  BY <1>3, <1>4, <1>5 DEF b

\* A line keeps its kind when its words change.
LEMMA WordsLine ==
  ASSUME NEW l, LineOk(l), NEW ws, IsSeq(ws)
  PROVE  LineOk([l EXCEPT !.words = ws])
<1> DEFINE m == [l EXCEPT !.words = ws]
<1>1. l = [k |-> l.k, words |-> l.words, n |-> l.n, indent |-> l.indent, macro |-> l.macro]
  BY DEF LineOk
<1>2. m = [k |-> l.k, words |-> ws, n |-> l.n, indent |-> l.indent, macro |-> l.macro]
  BY <1>1
<1> HIDE DEF m
<1>3. /\ m = [k |-> m.k, words |-> m.words, n |-> m.n, indent |-> m.indent, macro |-> m.macro]
      /\ m.k = l.k /\ m.words = ws /\ m.n = l.n /\ m.macro = l.macro
  BY <1>2
<1>4. LineOk(m)
  BY <1>3 DEF LineOk
<1> QED
  BY <1>4 DEF m

LEMMA AutoLine ==
  ASSUME NEW l, LineOk(l), NEW n
  PROVE  LineOk([l EXCEPT !.k = "item", !.n = n])
<1> DEFINE m == [l EXCEPT !.k = "item", !.n = n]
<1>1. l = [k |-> l.k, words |-> l.words, n |-> l.n, indent |-> l.indent, macro |-> l.macro] /\ IsSeq(l.words)
  BY DEF LineOk
<1>0. l = [k |-> l.k, words |-> l.words, n |-> l.n, indent |-> l.indent, macro |-> l.macro]
  BY <1>1
<1> DEFINE one == [l EXCEPT !.n = n]
<1>6. one = [k |-> l.k, words |-> l.words, n |-> n, indent |-> l.indent, macro |-> l.macro]
  BY <1>0
<1>7. m = [one EXCEPT !.k = "item"]
  BY <1>0
<1> HIDE DEF m, one
<1>4. \A c : [one EXCEPT !.k = c] = [k |-> c, words |-> l.words, n |-> n, indent |-> l.indent, macro |-> l.macro]
  BY <1>6
<1>2. m = [k |-> "item", words |-> l.words, n |-> n, indent |-> l.indent, macro |-> l.macro]
  BY <1>4, <1>7
<1> HIDE DEF m
<1>3. /\ m = [k |-> m.k, words |-> m.words, n |-> m.n, indent |-> m.indent, macro |-> m.macro]
      /\ m.k = "item" /\ m.words = l.words
  BY <1>2
<1>5. LineOk(m)
  BY <1>1, <1>3 DEF LineOk
<1> QED
  BY <1>5 DEF m

LEMMA LineOfOk ==
  ASSUME NEW kind \in {"blank", "bullet"}, NEW ws, IsSeq(ws)
  PROVE  LineOk(LineOf(kind, ws))
<1> DEFINE m == LineOf(kind, ws)
<1>1. /\ m = [k |-> m.k, words |-> m.words, n |-> m.n, indent |-> m.indent, macro |-> m.macro]
      /\ m.k = kind /\ m.words = ws
  BY DEF LineOf
<1> HIDE DEF m
<1>2. LineOk(m)
  BY <1>1 DEF LineOk
<1> QED
  BY <1>2 DEF m

\* Every member of a log has its reason.
LogIs(l) == IsSeq(l) /\ \A k \in 1 .. Len(l) : IsSeq(l[k][3])

LEMMA LogOfOk ==
  ASSUME NEW n \in Nat, NEW r, r = [i \in 1 .. n |-> r[i]], \A i \in 1 .. n : ReadOk(r[i])
  PROVE  LogIs(LogOf(r))
<1> DEFINE ls == [i \in 1 .. n |-> r[i].log]
<1>1. DOMAIN r = 1 .. n
  OBVIOUS
<1>2. LogOf(r) = FlattenSeq(ls)
  BY <1>1 DEF LogOf
<1>3. IsSeq(ls) /\ Len(ls) = n /\ \A i \in 1 .. n : ls[i] = r[i].log
  BY FcnSeq
<1> HIDE DEF ls
<1>4. \A i \in 1 .. n : LogIs(ls[i])
  BY <1>3 DEF ReadOk, LogIs
<1>5. IsSeqs(ls)
  BY <1>3, <1>4 DEF IsSeqs, LogIs
<1> DEFINE l == FlattenSeq(ls)
<1>6. IsSeq(l) /\ ToSet(l) = UNION {ToSet(ls[i]) : i \in 1 .. n}
  BY <1>3, <1>5, Flattened
<1> HIDE DEF l
<1>7. ASSUME NEW k \in 1 .. Len(l) PROVE IsSeq(l[k][3])
  <2>1. l[k] \in ToSet(l)
    BY <1>6, SeqIs DEF ToSet
  <2>2. PICK i \in 1 .. n : l[k] \in ToSet(ls[i])
    BY <1>6, <2>1
  <2>3. IsSeq(ls[i])
    BY <1>4 DEF LogIs
  <2>4. DOMAIN ls[i] = 1 .. Len(ls[i])
    BY <2>3, SeqIs
  <2>5. PICK j \in 1 .. Len(ls[i]) : l[k] = ls[i][j]
    BY <2>2, <2>4 DEF ToSet
  <2> QED
    BY <1>4, <2>5 DEF LogIs
<1> QED
  BY <1>2, <1>6, <1>7 DEF l, LogIs

LEMMA WithLogOk ==
  ASSUME NEW t, IsSeq(t), NEW l, LogIs(l)
  PROVE  IsSeq(WithLog(t, l))
<1> DEFINE m == Len(l)  n == Len(t)
           rs == [k \in 1 .. m |-> l[k][3]]
<1>1. m \in Nat /\ n \in Nat /\ DOMAIN l = 1 .. m /\ DOMAIN t = 1 .. n
  BY SeqIs DEF LogIs
<1>2. IsSeq(rs) /\ Len(rs) = m /\ \A k \in 1 .. m : rs[k] = l[k][3]
  BY <1>1, FcnSeq
<1>3. LogText(l) = FlattenSeq(rs)
  BY <1>1 DEF LogText
<1> HIDE DEF rs
<1>4. IsSeqs(rs)
  BY <1>2 DEF IsSeqs, LogIs
<1>5. IsSeq(LogText(l))
  BY <1>3, <1>4, Flattened
<1> DEFINE ws == [k \in 1 .. n |-> IF t[k] = "log" THEN LogText(l) ELSE <<t[k]>>]
<1>6. IsSeq(ws) /\ Len(ws) = n /\ \A k \in 1 .. n : ws[k] = IF t[k] = "log" THEN LogText(l) ELSE <<t[k]>>
  BY <1>1, FcnSeq
<1>7. WithLog(t, l) = FlattenSeq(ws)
  BY <1>1 DEF WithLog
<1> HIDE DEF ws
<1>8. ASSUME NEW k \in 1 .. n PROVE IsSeq(ws[k])
  <2>1. CASE t[k] = "log"
    BY <1>5, <1>6, <2>1
  <2>2. CASE t[k] # "log"
    <3>1. ws[k] = <<t[k]>>
      BY <1>6, <2>2
    <3> QED
      BY <3>1, OneSeq
  <2> QED
    BY <2>1, <2>2
<1>9. IsSeqs(ws)
  BY <1>6, <1>8 DEF IsSeqs
<1> QED
  BY <1>7, <1>9, Flattened

LEMMA CitedOk ==
  ASSUME NEW t, IsSeq(t), NEW exhibits, NEW ext
  PROVE  IsSeq(Cited(exhibits, ext, t)) /\ Len(Cited(exhibits, ext, t)) = Len(t)
<1> DEFINE c == Cited(exhibits, ext, t)
<1>1. Len(t) \in Nat /\ DOMAIN t = 1 .. Len(t)
  BY SeqIs
<1>2. c = [k \in 1 .. Len(t) |-> c[k]]
  BY <1>1 DEF Cited
<1> HIDE DEF c
<1>3. IsSeq(c) /\ Len(c) = Len(t)
  BY <1>1, <1>2, FcnSeq
<1> QED
  BY <1>3 DEF c

LEMMA LinesJoin ==
  ASSUME NEW a, BodyLines(a), NEW b, BodyLines(b)
  PROVE  BodyLines(a \o b)
<1> DEFINE u == a \o b
<1>1. IsSeq(a) /\ IsSeq(b) /\ Len(a) \in Nat /\ Len(b) \in Nat
  BY SeqIs DEF BodyLines
<1>2. IsSeq(u) /\ Len(u) = Len(a) + Len(b) /\ \A i \in 1 .. Len(a) : u[i] = a[i]
  BY <1>1, Joined
<1>3. \A i \in 1 .. Len(b) : u[Len(a) + i] = b[i]
  BY <1>1, Joined
<1> HIDE DEF u
<1>4. ASSUME NEW k \in 1 .. Len(u) PROVE LineOk(u[k])
  <2>1. k \in 1 .. Len(a) \/ (k - Len(a) \in 1 .. Len(b) /\ Len(a) + (k - Len(a)) = k)
    BY <1>1, <1>2, Halves
  <2>2. CASE k \in 1 .. Len(a)
    BY <1>2, <2>2 DEF BodyLines
  <2>3. CASE k - Len(a) \in 1 .. Len(b) /\ Len(a) + (k - Len(a)) = k
    BY <1>3, <2>3 DEF BodyLines
  <2> QED
    BY <2>1, <2>2, <2>3
<1>5. BodyLines(u)
  BY <1>2, <1>4 DEF BodyLines
<1> QED
  BY <1>5 DEF u

LEMMA InlineOk ==
  ASSUME NEW letters, IsSeq(letters)
  PROVE  BodyLines(InlineList(letters))
<1> DEFINE n == Len(letters)
           bs == [k \in 1 .. n |-> LineOf("bullet", <<letters[k]>>)]
           e == <<LineOf("blank", << >>)>>
<1>1. n \in Nat /\ DOMAIN letters = 1 .. n
  BY SeqIs
<1>2. IsSeq(bs) /\ Len(bs) = n /\ \A k \in 1 .. n : bs[k] = LineOf("bullet", <<letters[k]>>)
  BY <1>1, FcnSeq
<1>3. \A k \in 1 .. n : LineOk(LineOf("bullet", <<letters[k]>>))
  BY LineOfOk, OneSeq
<1>4. LineOk(LineOf("blank", << >>))
  BY LineOfOk, NoneSeq
<1>5. InlineList(letters) = IF src.listMode = "inline" /\ letters # << >> THEN e \o bs ELSE << >>
  BY <1>1 DEF InlineList
<1> HIDE DEF bs
<1>6. BodyLines(bs)
  BY <1>2, <1>3 DEF BodyLines
<1>7. IsSeq(e) /\ Len(e) = 1 /\ e[1] = LineOf("blank", << >>)
  BY OneSeq
<1> HIDE DEF e
<1>8. BodyLines(e)
  BY <1>4, <1>7 DEF BodyLines
<1>9. BodyLines(<< >>)
  BY NoneSeq DEF BodyLines
<1> QED
  BY <1>5, <1>6, <1>8, <1>9, LinesJoin

LEMMA AutonumberedOk ==
  ASSUME NEW body, BodyLines(body)
  PROVE  BodyLines(Autonumbered(body))
<1> DEFINE a == Autonumbered(body)  n == Len(body)
<1>1. n \in Nat /\ DOMAIN body = 1 .. n /\ \A i \in 1 .. n : LineOk(body[i])
  BY SeqIs DEF BodyLines
<1>2. a = [i \in 1 .. n |-> IF body[i].k = "auto" THEN [body[i] EXCEPT !.k = "item", !.n = Autos(body, i)] ELSE body[i]]
  BY <1>1 DEF Autonumbered
<1> HIDE DEF a
<1>3. a = [i \in 1 .. n |-> a[i]]
  BY <1>2
<1>4. IsSeq(a) /\ Len(a) = n
  BY <1>1, <1>3, FcnSeq
<1>5. ASSUME NEW i \in 1 .. n PROVE LineOk(a[i])
  <2> DEFINE x == Autos(body, i)  m == [body[i] EXCEPT !.k = "item", !.n = x]
  <2> HIDE DEF x
  <2>1. a[i] = IF body[i].k = "auto" THEN m ELSE body[i]
    BY <1>2 DEF x
  <2>2. LineOk(m)
    BY <1>1, AutoLine
  <2> HIDE DEF m
  <2> QED
    BY <1>1, <2>1, <2>2
<1>6. BodyLines(a)
  BY <1>4, <1>5 DEF BodyLines
<1> QED
  BY <1>6 DEF a

LEMMA LinesMore ==
  ASSUME NEW a, BodyLines(a), NEW l, LineOk(l)
  PROVE  BodyLines(Append(a, l))
<1>1. /\ IsSeq(Append(a, l)) /\ Len(Append(a, l)) = Len(a) + 1 /\ Append(a, l)[Len(a) + 1] = l
      /\ \A i \in 1 .. Len(a) : Append(a, l)[i] = a[i]
  BY Appended DEF BodyLines
<1>2. Len(a) \in Nat
  BY SeqIs DEF BodyLines
<1>3. \A i \in 1 .. Len(a) + 1 : i = Len(a) + 1 \/ i \in 1 .. Len(a)
  BY <1>2
<1> QED
  BY <1>1, <1>3 DEF BodyLines

\* The lines that are no footnote's, among the first m.
Kept1(body, m, f) == f = [i \in 0 .. m |-> IF i = 0 THEN << >>
                                           ELSE IF IsNote(body, i) THEN f[i - 1] ELSE Append(f[i - 1], body[i])]

LEMMA KeptExist ==
  ASSUME NEW body, NEW n \in Nat
  PROVE  \E f : Kept1(body, n, f)
<1> DEFINE P == {m \in 0 .. n : \E f : Kept1(body, m, f)}
<1>1. 0 \in P
  <2> DEFINE g == [k \in 0 .. 0 |-> << >>]
  <2>1. Kept1(body, 0, g)
    BY DEF Kept1
  <2> QED
    BY <2>1
<1>2. ASSUME NEW m \in 1 .. n, m - 1 \in P PROVE m \in P
  <2>1. PICK f : Kept1(body, m - 1, f)
    BY <1>2
  <2> DEFINE last == IF IsNote(body, m) THEN f[m - 1] ELSE Append(f[m - 1], body[m])
             g == [k \in 0 .. m |-> IF k = m THEN last ELSE f[k]]
             Next1(h, k) == IF k = 0 THEN << >> ELSE IF IsNote(body, k) THEN h[k - 1] ELSE Append(h[k - 1], body[k])
  <2>2. \A k \in 0 .. m - 1 : f[k] = Next1(f, k)
    BY <2>1 DEF Kept1
  <2>3. \A k \in 0 .. m - 1 : g[k] = f[k]
    OBVIOUS
  <2>4. g[m] = Next1(f, m)
    OBVIOUS
  <2>5. ASSUME NEW k \in 0 .. m PROVE g[k] = Next1(g, k)
    <3>1. k # 0 => g[k - 1] = f[k - 1]
      BY <2>3
    <3>2. Next1(g, k) = Next1(f, k)
      <4> HIDE DEF g
      <4> QED
        BY <3>1
    <3>3. g[k] = Next1(f, k)
      <4>1. k = m \/ k \in 0 .. m - 1
        OBVIOUS
      <4> HIDE DEF g, Next1
      <4> QED
        BY <2>2, <2>3, <2>4, <4>1
    <3> HIDE DEF g, Next1
    <3> QED
      BY <3>2, <3>3
  <2>6. g = [k \in 0 .. m |-> g[k]]
    OBVIOUS
  <2> HIDE DEF g
  <2>7. Kept1(body, m, g)
    BY <2>5, <2>6 DEF Kept1
  <2>8. m \in 0 .. n
    OBVIOUS
  <2> QED
    BY <2>7, <2>8
<1> HIDE DEF P
<1>3. \A m \in 0 .. n : m \in P
  BY <1>1, <1>2, Induct
<1> QED
  BY <1>3 DEF P

LEMMA WithoutNotesOk ==
  ASSUME NEW body, BodyLines(body)
  PROVE  BodyLines(WithoutNotes(body))
<1> DEFINE n == Len(body)
           f == CHOOSE g : Kept1(body, n, g)
<1>1. n \in Nat /\ \A i \in 1 .. n : LineOk(body[i])
  BY SeqIs DEF BodyLines
<1>2. WithoutNotes(body) = f[n]
  BY DEF WithoutNotes, Kept1
<1>3. Kept1(body, n, f)
  BY <1>1, KeptExist
<1> HIDE DEF f
<1>8. \A m \in 0 .. n : f[m] = IF m = 0 THEN << >> ELSE IF IsNote(body, m) THEN f[m - 1] ELSE Append(f[m - 1], body[m])
  BY <1>3 DEF Kept1
<1> DEFINE P == {m \in 0 .. n : BodyLines(f[m])}
<1>4. 0 \in P
  <2>1. f[0] = << >>
    BY <1>1, <1>3 DEF Kept1
  <2>2. BodyLines(<< >>)
    BY NoneSeq DEF BodyLines
  <2> QED
    BY <1>1, <2>1, <2>2
<1>5. ASSUME NEW m \in 1 .. n, m - 1 \in P PROVE m \in P
  <2>1. f[m] = IF IsNote(body, m) THEN f[m - 1] ELSE Append(f[m - 1], body[m])
    <3>1. m \in 0 .. n /\ m # 0
      OBVIOUS
    <3> QED
      BY <1>8, <3>1, Zenon
  <2>2. BodyLines(f[m - 1]) /\ LineOk(body[m])
    BY <1>1, <1>5
  <2>3. BodyLines(f[m])
    BY <2>1, <2>2, LinesMore
  <2> QED
    BY <1>1, <2>3
<1> HIDE DEF P
<1>6. \A m \in 0 .. n : m \in P
  BY <1>1, <1>4, <1>5, Induct
<1>7. n \in P
  BY <1>1, <1>6
<1> QED
  BY <1>2, <1>7 DEF P

\* A text in which the log is written.
LEMMA LoggedOk ==
  ASSUME NEW n \in Nat, NEW r, r = [i \in 1 .. n |-> r[i]], \A i \in 1 .. n : ReadOk(r[i]), LogIs(LogOf(r))
  PROVE  /\ Logged(r) = [i \in 1 .. n |-> Logged(r)[i]]
         /\ \A i \in 1 .. n : Logged(r)[i].text = WithLog(r[i].text, LogOf(r)) /\ IsSeq(Logged(r)[i].text)
                             /\ Logged(r)[i].log = r[i].log /\ Logged(r)[i].ok = r[i].ok
<1> DEFINE l == LogOf(r)  g == Logged(r)
<1>1. DOMAIN r = 1 .. n
  OBVIOUS
<1> HIDE DEF l
<1>2. g = [i \in 1 .. n |-> [r[i] EXCEPT !.text = WithLog(@, l)]]
  BY <1>1 DEF Logged, l
<1>3. g = [i \in 1 .. n |-> g[i]]
  BY <1>2
<1>4. ASSUME NEW i \in 1 .. n PROVE g[i].text = WithLog(r[i].text, l) /\ IsSeq(g[i].text) /\ g[i].log = r[i].log /\ g[i].ok = r[i].ok
  <2> DEFINE w == WithLog(r[i].text, l)  e == r[i]
  <2>1. ReadOk(e)
    OBVIOUS
  <2>2. IsSeq(w)
    BY <2>1, WithLogOk DEF ReadOk, l
  <2>3. g[i] = [e EXCEPT !.text = w]
    BY <1>2
  <2>4. e = [text |-> e.text, log |-> e.log, ok |-> e.ok]
    BY <2>1 DEF ReadOk
  <2> HIDE DEF w, e, g
  <2>5. g[i] = [text |-> w, log |-> e.log, ok |-> e.ok]
    BY <2>3, <2>4
  <2>6. g[i].text = w /\ g[i].log = e.log /\ g[i].ok = e.ok
    BY <2>5
  <2> QED
    BY <2>2, <2>6 DEF w, e
<1> QED
  BY <1>3, <1>4 DEF l

\* What goes to the parser is a body of lines.
LEMMA PreparedOk ==
  ASSUME src \in Sources, NEW r, \A i \in 1 .. Len(src.body) : IsSeq(r[i].text), NEW exhibits, IsSeq(exhibits)
  PROVE  BodyLines(Prepared(r, exhibits))
<1> DEFINE n == Len(src.body)
<1>1. /\ BodyLines(src.body) /\ DOMAIN src.body = 1 .. n /\ n \in Nat
      /\ \A i \in 1 .. n : IsSeq(src.body[i].words) /\ LineOk(src.body[i])
  BY BodyIs DEF BodyLines
<1> DEFINE ws(i) == Cited(exhibits, src.external, r[i].text)
           text == [i \in 1 .. n |-> [src.body[i] EXCEPT !.words = ws(i)]]
           letters == [k \in DOMAIN exhibits |-> exhibits[k].letter]
<1>5. \A i \in 1 .. n : IsSeq(ws(i))
  BY CitedOk
<1>6. Prepared(r, exhibits) = WithoutNotes(Autonumbered(text \o InlineList(letters)))
  BY <1>1 DEF Prepared
<1> HIDE DEF ws
<1>7. \A i \in 1 .. n : LineOk([src.body[i] EXCEPT !.words = ws(i)])
  BY <1>1, <1>5, WordsLine
<1>8. IsSeq(text) /\ Len(text) = n /\ \A i \in 1 .. n : text[i] = [src.body[i] EXCEPT !.words = ws(i)]
  BY <1>1, FcnSeq
<1> HIDE DEF text
<1>9. BodyLines(text)
  BY <1>7, <1>8 DEF BodyLines
<1>10. IsSeq(letters)
  <2>1. Len(exhibits) \in Nat /\ DOMAIN exhibits = 1 .. Len(exhibits)
    BY SeqIs
  <2>2. letters = [k \in 1 .. Len(exhibits) |-> letters[k]]
    BY <2>1
  <2> HIDE DEF letters
  <2> QED
    BY <2>1, <2>2, FcnSeq
<1> HIDE DEF letters
<1>11. BodyLines(text \o InlineList(letters))
  BY <1>9, <1>10, InlineOk, LinesJoin
<1> QED
  BY <1>6, <1>11, AutonumberedOk, WithoutNotesOk

\* What the macros make of the body of the source.
LEMMA UnsealedOk ==
  ASSUME src \in Sources, NEW v
  PROVE  LET r == Unsealed(v)  n == Len(src.body) IN
         /\ r = [i \in 1 .. n |-> r[i]] /\ n \in Nat /\ DOMAIN src.body = 1 .. n /\ DOMAIN r = 1 .. n
         /\ \A i \in 1 .. n : ReadOk(r[i]) /\ r[i] = Redacted(src.body[i].words, src.literals, v)
         /\ LogIs(LogOf(r))
<1> DEFINE n == Len(src.body)  r == Unsealed(v)
<1>1. DOMAIN src.body = 1 .. n /\ n \in Nat /\ \A i \in 1 .. n : IsSeq(src.body[i].words)
  BY BodyIs
<1>2. r = [i \in 1 .. n |-> Redacted(src.body[i].words, src.literals, v)]
  BY <1>1 DEF Unsealed
<1> HIDE DEF r
<1>3. r = [i \in 1 .. n |-> r[i]] /\ \A i \in 1 .. n : ReadOk(r[i]) /\ r[i] = Redacted(src.body[i].words, src.literals, v)
  BY <1>1, <1>2, RedactedOk
<1>4. LogIs(LogOf(r)) /\ DOMAIN r = 1 .. n
  BY <1>1, <1>3, LogOfOk
<1> QED
  BY <1>1, <1>3, <1>4 DEF r

-----------------------------------------------------------------------------
(* The stages of a build, up to the last page.                             *)

\* Every block is laid out, and the last page has its footnotes.
Finished(bs, s) ==
  /\ SheetOk(s)
  /\ Whats(s.drawn) = FlattenSeq([b \in 1 .. Len(bs) |-> ToDraw(bs[b])])
  /\ \A k \in 1 .. Len(s.drawn) : s.drawn[k].block \in 1 .. Len(bs)
  /\ \A b \in 1 .. Len(bs) : bs[b].kind = "sign" =>
       \E k \in 1 .. Len(s.drawn) : s.drawn[k].block = b /\ s.drawn[k].what = Label(bs[b])
  /\ NotesFit => FootBelow(bs, s, s.page) /\ FootThere(bs, s, s.page)

LEMMA FinishOk ==
  ASSUME NEW bs, BlocksOk(bs), NEW s, LaidOut(NumberHeadings(bs), s, Len(bs))
  PROVE  Finished(bs, RenderNotes(s))
<1> DEFINE ns == NumberHeadings(bs)  n == Len(bs)  t == RenderNotes(s)
<1>1. Len(ns) = n /\ \A i \in 1 .. n : ns[i].kind = bs[i].kind /\ ns[i].words = bs[i].words
  BY NumberedOk
<1> HIDE DEF ns
<1>2. LaidOut(ns, s, n)
  BY DEF ns
<1>3. SheetOk(s) /\ SheetOk(t) /\ t.page = s.page /\ t.drawn = s.drawn
  BY <1>2, RenderedSame DEF LaidOut
<1>4. NotesFit => FootBelow(ns, t, t.page) /\ FootThere(ns, t, t.page)
  BY <1>2, <1>3, RenderedOk DEF LaidOut
<1> HIDE DEF t
<1>5. \A b \in 1 .. n : ToDraw(ns[b]) = ToDraw(bs[b])
  BY <1>1 DEF ToDraw, Label
<1>6. [b \in 1 .. n |-> ToDraw(ns[b])] = [b \in 1 .. n |-> ToDraw(bs[b])]
  BY <1>5
<1>7. Whats(t.drawn) = FlattenSeq([b \in 1 .. n |-> ToDraw(bs[b])])
  BY <1>2, <1>3, <1>6 DEF LaidOut
<1>8. \A k \in 1 .. Len(t.drawn) : t.drawn[k].block \in 1 .. n
  BY <1>2, <1>3 DEF LaidOut
<1>14. \A b \in 1 .. n : Label(ns[b]) = Label(bs[b])
  BY <1>1 DEF Label
<1>9. \A b \in 1 .. n : bs[b].kind = "sign" =>
        \E k \in 1 .. Len(t.drawn) : t.drawn[k].block = b /\ t.drawn[k].what = Label(bs[b])
  BY <1>1, <1>2, <1>3, <1>14 DEF LaidOut
<1>10. \A k \in 1 .. Len(t.drawn) :
         (Plain(ns, t.drawn[k]) <=> Plain(bs, t.drawn[k])) /\ (Noted(ns, t.drawn[k]) <=> Noted(bs, t.drawn[k]))
  BY <1>1, <1>8 DEF Plain, Noted
<1>11. NotesFit => FootBelow(bs, t, t.page)
  BY <1>4, <1>10 DEF FootBelow
<1>12. NotesFit => FootThere(bs, t, t.page)
  BY <1>4, <1>10 DEF FootThere
<1>13. Finished(bs, t)
  BY <1>3, <1>7, <1>8, <1>9, <1>11, <1>12 DEF Finished
<1> QED
  BY <1>13 DEF t

\* A cover sheet only has no body.
LEMMA FinishedNone == Finished(<< >>, FirstSheet) /\ BlocksOk(<< >>)
<1> DEFINE s == FirstSheet  bs == << >>
<1>1. LaidOut(bs, s, 0)
  BY FirstLaidOut
<1>2. s.foot = {} /\ s.drawn = << >>
  BY DEF FirstSheet
<1>3. IsSeq(bs) /\ Len(bs) = 0
  BY NoneSeq
<1> HIDE DEF s, bs
<1>4. Len(s.drawn) = 0
  BY <1>2, NoneSeq
<1>5. FootBelow(bs, s, s.page) /\ FootThere(bs, s, s.page)
  BY <1>2, <1>4 DEF FootBelow, FootThere
<1>6. Finished(bs, s)
  BY <1>1, <1>3, <1>5 DEF Finished, LaidOut
<1>7. BlocksOk(bs)
  BY <1>3 DEF BlocksOk
<1> QED
  BY <1>6, <1>7 DEF s, bs

Late == {"merge", "fill", "key", "prepend", "notices", "failed", "stamp", "stamp notices", "fields", "log", "done"}

\* What is read and laid out at each stage of a build.
LayInv ==
  /\ src \in Sources
  /\ stage \in {"idle", "parse", "lay"} \cup Late
  /\ stage \in {"idle", "parse"} => sheet = FirstSheet /\ placed = 0
  /\ stage = "parse" => ParseOk
  /\ stage = "lay" => BlocksOk(blocks) /\ placed \in 0 .. Len(blocks) /\ LaidOut(Numbered, sheet, placed)
  /\ stage \in Late => BlocksOk(blocks) /\ Finished(blocks, sheet)

LEMMA LayFirst ==
  ASSUME PleadInit
  PROVE  LayInv
<1>1. src \in Sources /\ stage = "idle" /\ sheet = FirstSheet /\ placed = 0
  BY DEF PleadInit, LayInit
<1> QED
  BY <1>1 DEF LayInv, Late

\* Nothing is at rest but an empty parser.
LEMMA RestOk ==
  ASSUME NEW body, BodyLines(body), AtRest(body)
  PROVE  ParseOk' /\ sheet' = FirstSheet /\ placed' = 0 /\ blocks' = << >>
<1>1. /\ lines' = body /\ at' = 1 /\ pend' = Nothing /\ table' = << >> /\ verb' = Closed /\ blocks' = << >>
      /\ sheet' = FirstSheet /\ placed' = 0
  BY DEF AtRest
<1>2. BodyLines(lines')
  BY <1>1
<1>3. PendOk(pend')
  BY <1>1 DEF PendOk
<1>4. verb' = [on |-> verb'.on, words |-> verb'.words] /\ IsSeq(verb'.words)
  <2>1. Closed = [on |-> FALSE, words |-> << >>] /\ Closed.words = << >>
    BY DEF Closed
  <2>2. verb'.words = << >>
    BY <1>1, <2>1
  <2>3. Closed = [on |-> Closed.on, words |-> Closed.words]
    BY <2>1
  <2> QED
    BY <1>1, <2>2, <2>3, NoneSeq
<1>5. IsSeq(table') /\ BlocksOk(blocks')
  BY <1>1, NoneSeq, FinishedNone
<1>6. at' \in Nat \ {0}
  BY <1>1
<1>7. ParseOk'
  BY <1>2, <1>3, <1>4, <1>5, <1>6 DEF ParseOk
<1> QED
  BY <1>1, <1>7

LEMMA ExhibitsSeq ==
  ASSUME NEW s \in Sources, NEW v
  PROVE  IsSeq(ExhibitsOf(s, v)) /\ Len(ExhibitsOf(s, v)) = Len(s.exhibits) /\ DOMAIN s.exhibits = 1 .. Len(s.exhibits)
<1> DEFINE e == ExhibitsOf(s, v)
<1>1. IsSeq(s.exhibits)
  BY SourceAssumption DEF IsSeq
<1>2. Len(s.exhibits) \in Nat /\ DOMAIN s.exhibits = 1 .. Len(s.exhibits)
  BY <1>1, SeqIs
<1>3. e = [k \in 1 .. Len(s.exhibits) |-> e[k]]
  BY <1>2 DEF ExhibitsOf
<1> HIDE DEF e
<1>4. IsSeq(e) /\ Len(e) = Len(s.exhibits)
  BY <1>2, <1>3, FcnSeq
<1> QED
  BY <1>2, <1>4 DEF e

LEMMA BeginLay ==
  ASSUME LayInv, NEW request, NEW fin, Begin(request, fin)
  PROVE  LayInv'
<1> DEFINE v == Effective(src, request)  u == Unsealed(v)  r == Logged(u)  exhibits == ExhibitsOf(src, v)
           body == Prepared(r, exhibits)
<1>1. src \in Sources /\ src' = src
  BY DEF LayInv, Begin
<1>2. BodyLines(body)
  <2>1. IsSeq(exhibits)
    BY <1>1, ExhibitsSeq
  <2>2. /\ u = [i \in 1 .. Len(src.body) |-> u[i]] /\ Len(src.body) \in Nat /\ LogIs(LogOf(u))
        /\ \A i \in 1 .. Len(src.body) : ReadOk(u[i])
    BY <1>1, UnsealedOk
  <2> HIDE DEF u
  <2>3. \A i \in 1 .. Len(src.body) : IsSeq(r[i].text)
    BY <2>2, LoggedOk
  <2> QED
    BY <1>1, <2>1, <2>3, PreparedOk
<1>3. BodyLines(<< >>)
  BY NoneSeq DEF BodyLines
<1> HIDE DEF body
<1>4. AtRest(IF src.coverOnly THEN << >> ELSE body) /\ stage' = IF src.coverOnly THEN "fill" ELSE "parse"
  BY DEF Begin, body
<1>5. CASE src.coverOnly
  <2>1. blocks' = << >> /\ sheet' = FirstSheet /\ placed' = 0 /\ stage' = "fill"
    BY <1>3, <1>4, <1>5, RestOk
  <2>2. BlocksOk(blocks') /\ Finished(blocks', sheet')
    BY <2>1, FinishedNone
  <2> QED
    BY <1>1, <2>1, <2>2 DEF LayInv, Late
<1>6. CASE ~src.coverOnly
  <2>1. ParseOk' /\ sheet' = FirstSheet /\ placed' = 0 /\ stage' = "parse"
    BY <1>2, <1>4, <1>6, RestOk
  <2> QED
    BY <1>1, <2>1 DEF LayInv, Late
<1> QED
  BY <1>5, <1>6

LEMMA ParseLay ==
  ASSUME LayInv, Parse
  PROVE  LayInv'
<1>1. ParseOk /\ sheet = FirstSheet /\ placed = 0 /\ src \in Sources
  BY DEF LayInv, Parse
<1>2. sheet' = FirstSheet /\ placed' = 0 /\ src' \in Sources
  BY <1>1 DEF Parse, layVars, srcVars
<1>3. ParseOk'
  BY <1>1, ParsedOk DEF Parse
<1>4. stage' \in {"parse", "lay"}
  BY DEF Parse
<1>5. CASE stage' = "parse"
  BY <1>2, <1>3, <1>5 DEF LayInv, Late
<1>6. CASE stage' = "lay"
  <2>1. LaidOut(Numbered', sheet', placed')
    BY <1>2, FirstLaidOut
  <2>2. BlocksOk(blocks')
    BY <1>3 DEF ParseOk
  <2>3. placed' \in 0 .. Len(blocks')
    BY <1>2, <2>2, SeqIs DEF BlocksOk
  <2> QED
    BY <1>2, <1>6, <2>1, <2>2, <2>3 DEF LayInv, Late
<1> QED
  BY <1>4, <1>5, <1>6

LEMMA LayLay ==
  ASSUME LayInv, Lay
  PROVE  LayInv'
<1> DEFINE n == Len(blocks)
<1>1. BlocksOk(blocks) /\ placed \in 0 .. n /\ LaidOut(Numbered, sheet, placed) /\ src \in Sources
  BY DEF LayInv, Lay
<1>2. n \in Nat
  BY <1>1, SeqIs DEF BlocksOk
<1>3. blocks' = blocks /\ Numbered' = Numbered /\ src' = src
  BY DEF Lay, parseVars, srcVars, Numbered
<1>4. BlocksOk(Numbered) /\ Len(Numbered) = n
  BY <1>1, NumberedOk DEF Numbered
<1>5. CASE EmitBlock(Numbered)
  <2>1. placed < n /\ placed' = placed + 1 /\ sheet' = Emitted(Numbered, placed + 1, sheet)
    BY <1>4, <1>5 DEF EmitBlock
  <2>2. placed \in Nat /\ placed' \in 0 .. n /\ placed # n
    BY <1>1, <1>2, <2>1
  <2>3. \A b \in 1 .. placed + 1 : BlockOk(Numbered[b])
    BY <1>2, <1>4, <2>1, <2>2 DEF BlocksOk
  <2>4. LaidOut(Numbered, sheet', placed')
    BY <1>1, <2>1, <2>2, <2>3, LaidOutOne
  <2>5. stage' = "lay"
    BY <2>2 DEF Lay
  <2> QED
    BY <1>1, <1>3, <2>2, <2>4, <2>5 DEF LayInv, Late
<1>6. CASE EmitEnd(Numbered)
  <2>1. placed = n /\ sheet' = RenderNotes(sheet)
    BY <1>4, <1>6 DEF EmitEnd
  <2>2. stage' = "merge"
    BY <2>1 DEF Lay
  <2>3. Finished(blocks, sheet')
    BY <1>1, <2>1, FinishOk DEF Numbered
  <2> QED
    BY <1>1, <1>3, <2>2, <2>3 DEF LayInv, Late
<1> QED
  BY <1>5, <1>6 DEF Lay

LEMMA StopLay ==
  ASSUME LayInv, Stop
  PROVE  LayInv'
<1>1. sheet' = FirstSheet /\ placed' = 0 /\ stage' = "idle" /\ src' \in Sources
  BY DEF LayInv, Stop, Forget, AtRest, srcVars
<1> QED
  BY <1>1 DEF LayInv, Late

LEMMA EditLay ==
  ASSUME LayInv, Edit
  PROVE  LayInv'
<1>1. src' \in Sources /\ stage = "idle" /\ stage' = stage /\ sheet' = sheet /\ placed' = placed
  BY DEF Edit, layVars
<1> QED
  BY <1>1 DEF LayInv, Late

\* The stages after the pages are laid out.
Later == Merge \/ Fill \/ WriteKey \/ Prepend \/ Notices \/ StampPacket \/ StampNotices \/ WriteFields \/ WriteLog

LEMMA LaterLay ==
  ASSUME LayInv, Later
  PROVE  LayInv'
<1>1. stage \in Late /\ stage' \in Late
  BY DEF Later, Late, Merge, Fill, WriteKey, Prepend, Notices, StampPacket, StampNotices, WriteFields, WriteLog
<1>2. blocks' = blocks /\ sheet' = sheet /\ src' = src
  BY DEF Later, Keep, parseVars, layVars, srcVars,
         Merge, Fill, WriteKey, Prepend, Notices, StampPacket, StampNotices, WriteFields, WriteLog
<1> QED
  BY <1>1, <1>2 DEF LayInv, Late

LEMMA AsideLay ==
  ASSUME LayInv, UNCHANGED <<parseVars, layVars, srcVars, stage>>
  PROVE  LayInv'
<1>1. /\ lines' = lines /\ at' = at /\ pend' = pend /\ table' = table /\ verb' = verb /\ blocks' = blocks
      /\ sheet' = sheet /\ placed' = placed /\ src' = src /\ stage' = stage
  BY DEF parseVars, layVars, srcVars
<1> QED
  BY <1>1 DEF LayInv, ParseOk, Numbered

\* What a step can be.
LEMMA StepIs ==
  ASSUME [PleadNext]_pleadVars
  PROVE  \/ (\E request, fin : Begin(request, fin)) \/ Parse \/ Lay \/ Later \/ Stop \/ Edit
         \/ UNCHANGED <<parseVars, layVars, srcVars, stage, disk>>
  BY DEF PleadNext, pleadVars, Build, Later, Export, FillAlone

LEMMA LayStep ==
  ASSUME LayInv, [PleadNext]_pleadVars
  PROVE  LayInv'
  BY StepIs, BeginLay, ParseLay, LayLay, LaterLay, StopLay, EditLay, AsideLay

\* At every stage the body is parsed and laid out as far as it says.
THEOREM LayHolds == PleadSpec => []LayInv
<1>1. PleadInit => LayInv
  BY LayFirst
<1>2. LayInv /\ [PleadNext]_pleadVars => LayInv'
  BY LayStep
<1> QED
  BY <1>1, <1>2, PTL DEF PleadSpec

\* Every line of every block is drawn, once and in order, and on the page,
\* when no block of signatures is higher than one (emit_body).
THEOREM EachLineOnce ==
  ASSUME BlocksFit
  PROVE  PleadSpec => []DrawnInOrder
<1>1. LayInv => DrawnInOrder
  <2> SUFFICES ASSUME LayInv, stage = "merge" PROVE DrawnInOrder
    BY DEF DrawnInOrder
  <2> DEFINE d == sheet.drawn  n == Len(d)
  <2>1. Finished(blocks, sheet) /\ BlocksOk(blocks)
    BY DEF LayInv, Late
  <2>2. SheetOk(sheet) /\ Whats(d) = FlattenSeq([b \in 1 .. Len(blocks) |-> ToDraw(blocks[b])])
    BY <2>1 DEF Finished
  <2>3. IsSeq(d) /\ IsSeq(blocks)
    BY <2>1, <2>2 DEF SheetOk, BlocksOk
  <2>4. n \in Nat /\ DOMAIN d = 1 .. n /\ DOMAIN blocks = 1 .. Len(blocks)
    BY <2>3, SeqIs
  <2>5. FlattenSeq([b \in DOMAIN blocks |-> ToDraw(blocks[b])]) = [k \in DOMAIN d |-> d[k].what]
    BY <2>2, <2>4 DEF Whats
  <2>6. \A k \in 1 .. n - 1 :
          \/ d[k].page < d[k + 1].page
          \/ d[k].page = d[k + 1].page /\ Lowest(d[k]) < d[k + 1].line
    BY <2>2 DEF SheetOk
  <2>7. \A k \in DOMAIN d : Lowest(d[k]) <= LinesPerPage
    BY <2>2, <2>4 DEF SheetOk
  <2> QED
    BY <2>5, <2>6, <2>7 DEF DrawnInOrder, Marks
<1> QED
  BY <1>1, LayHolds, PTL

\* A footnote stands at the foot of each page that has its marker, below all
\* text, when each fits on a page with a line of it (_render_page_footnotes).
THEOREM EachNoteThere ==
  ASSUME NotesFit
  PROVE  PleadSpec => []NotesWithMarkers
<1>1. LayInv => NotesWithMarkers
  <2> SUFFICES ASSUME LayInv, stage = "merge" PROVE NotesWithMarkers
    BY DEF NotesWithMarkers
  <2> DEFINE d == sheet.drawn  n == Len(d)
  <2>1. SheetOk(sheet) /\ FootBelow(blocks, sheet, sheet.page) /\ FootThere(blocks, sheet, sheet.page)
    BY DEF LayInv, Late, Finished
  <2>2. n \in Nat /\ DOMAIN d = 1 .. n
    BY <2>1, SeqIs DEF SheetOk
  <2>3. ASSUME NEW m \in ToSet(d) PROVE \E k \in 1 .. n : m = d[k]
    BY <2>2 DEF ToSet
  <2>4. ASSUME NEW m \in ToSet(d), blocks[m.block].kind \in TextKinds, m.what \in DOMAIN NoteLines
        PROVE  \E f \in sheet.foot : f.what = m.what /\ f.page = m.page
    <3>1. PICK k \in 1 .. n : m = d[k]
      BY <2>3
    <3>2. d[k].page <= sheet.page
      BY <2>1, <3>1 DEF SheetOk
    <3>3. Noted(blocks, d[k])
      BY <2>4, <3>1 DEF Noted
    <3> QED
      BY <2>1, <3>1, <3>2, <3>3 DEF FootThere
  <2>5. ASSUME NEW f \in sheet.foot
        PROVE  /\ Lowest(f) <= LinesPerPage
               /\ \A m \in ToSet(d) : m.page = f.page /\ blocks[m.block].kind \notin SignKinds => Lowest(m) < f.line - 1
    <3>1. Lowest(f) <= LinesPerPage
      BY <2>1 DEF FootBelow
    <3>2. ASSUME NEW m \in ToSet(d), m.page = f.page, blocks[m.block].kind \notin SignKinds PROVE Lowest(m) < f.line - 1
      <4>1. PICK k \in 1 .. n : m = d[k]
        BY <2>3
      <4>2. Plain(blocks, d[k])
        BY <3>2, <4>1 DEF Plain
      <4> QED
        BY <2>1, <3>2, <4>1, <4>2 DEF FootBelow
    <3> QED
      BY <3>1, <3>2
  <2> QED
    BY <2>4, <2>5 DEF NotesWithMarkers, Marks
<1> QED
  BY <1>1, LayHolds, PTL

-----------------------------------------------------------------------------
(* The groups of a body.                                                   *)

\* The lines of the first blocks.
LinesTo(bs, n, h) == h = [k \in 0 .. n |-> IF k = 0 THEN 0 ELSE h[k - 1] + GridLines(bs[k])]

LEMMA LinesExist ==
  ASSUME NEW bs, NEW n \in Nat
  PROVE  \E h : LinesTo(bs, n, h)
<1> DEFINE P == {m \in 0 .. n : \E h : LinesTo(bs, m, h)}
<1>1. 0 \in P
  <2> DEFINE g == [k \in 0 .. 0 |-> 0]
  <2>1. LinesTo(bs, 0, g)
    BY DEF LinesTo
  <2> QED
    BY <2>1
<1>2. ASSUME NEW m \in 1 .. n, m - 1 \in P PROVE m \in P
  <2>1. PICK h : LinesTo(bs, m - 1, h)
    BY <1>2
  <2> DEFINE last == h[m - 1] + GridLines(bs[m])
             g == [k \in 0 .. m |-> IF k = m THEN last ELSE h[k]]
  <2>2. \A k \in 0 .. m : g[k] = IF k = 0 THEN 0 ELSE g[k - 1] + GridLines(bs[k])
    <3> SUFFICES ASSUME NEW k \in 0 .. m PROVE g[k] = IF k = 0 THEN 0 ELSE g[k - 1] + GridLines(bs[k])
      OBVIOUS
    <3>1. CASE k = m
      BY <3>1
    <3>2. CASE k # m
      <4>1. k \in 0 .. m - 1 /\ g[k] = h[k]
        BY <3>2
      <4>2. h[k] = IF k = 0 THEN 0 ELSE h[k - 1] + GridLines(bs[k])
        BY <2>1, <4>1 DEF LinesTo
      <4>3. k # 0 => g[k - 1] = h[k - 1]
        BY <4>1
      <4> HIDE DEF g
      <4> QED
        BY <4>1, <4>2, <4>3
    <3> QED
      BY <3>1, <3>2
  <2>3. g = [k \in 0 .. m |-> g[k]]
    OBVIOUS
  <2> HIDE DEF g
  <2>4. LinesTo(bs, m, g)
    BY <2>2, <2>3 DEF LinesTo
  <2> QED
    BY <2>4
<1> HIDE DEF P
<1>3. \A m \in 0 .. n : m \in P
  BY <1>1, <1>2, Induct
<1>4. n \in P
  BY <1>3
<1> QED
  BY <1>4 DEF P

LEMMA LinesAre ==
  ASSUME NEW bs, Len(bs) \in Nat
  PROVE  LinesTo(bs, Len(bs), LinesUpTo(bs))
<1> DEFINE n == Len(bs)  h == CHOOSE g : g = [k \in 0 .. n |-> IF k = 0 THEN 0 ELSE g[k - 1] + GridLines(bs[k])]
<1>1. LinesUpTo(bs) = h
  BY DEF LinesUpTo
<1>2. \E g : g = [k \in 0 .. n |-> IF k = 0 THEN 0 ELSE g[k - 1] + GridLines(bs[k])]
  BY LinesExist DEF LinesTo
<1>3. h = [k \in 0 .. n |-> IF k = 0 THEN 0 ELSE h[k - 1] + GridLines(bs[k])]
  BY <1>2
<1> HIDE DEF h
<1> QED
  BY <1>1, <1>3 DEF LinesTo

LEMMA GridIs ==
  ASSUME NEW b, BlockOk(b)
  PROVE  GridLines(b) \in Nat \ {0} /\ (b.kind \in TextKinds => GridLines(b) = Len(b.words) + 1) /\ Len(b.words) \in Nat
<1>1. Len(b.words) \in Nat
  BY SeqIs DEF BlockOk
<1> QED
  BY <1>1 DEF GridLines

\* Each block adds its lines to those above it.
LEMMA LinesGrow ==
  ASSUME NEW bs, BlocksOk(bs)
  PROVE  /\ LinesUpTo(bs)[0] = 0
         /\ \A k \in 0 .. Len(bs) : LinesUpTo(bs)[k] \in Nat
         /\ \A k \in 1 .. Len(bs) : LinesUpTo(bs)[k] = LinesUpTo(bs)[k - 1] + GridLines(bs[k])
         /\ \A k \in 0 .. Len(bs) : \A j \in 0 .. k : LinesUpTo(bs)[j] <= LinesUpTo(bs)[k]
<1> DEFINE h == LinesUpTo(bs)  n == Len(bs)
<1>0. n \in Nat /\ \A k \in 1 .. n : GridLines(bs[k]) \in Nat
  BY SeqIs, GridIs DEF BlocksOk
<1>1. h = [k \in 0 .. n |-> IF k = 0 THEN 0 ELSE h[k - 1] + GridLines(bs[k])]
  BY <1>0, LinesAre DEF LinesTo
<1> HIDE DEF h
<1>2. h[0] = 0
  BY <1>0, <1>1
<1>3. \A k \in 1 .. n : h[k] = h[k - 1] + GridLines(bs[k])
  BY <1>0, <1>1
<1>4. \A k \in 0 .. n : h[k] \in Nat
  <2> DEFINE P == {k \in 0 .. n : h[k] \in Nat}
  <2>1. 0 \in P
    BY <1>0, <1>2
  <2>2. \A k \in 1 .. n : k - 1 \in P => k \in P
    BY <1>0, <1>3
  <2> HIDE DEF P
  <2>3. \A k \in 0 .. n : k \in P
    BY <1>0, <2>1, <2>2, Induct
  <2> QED
    BY <2>3 DEF P
<1>5. \A m \in 0 .. n : \A k \in 0 .. m : h[k] <= h[m]
  <2> DEFINE P == {m \in 0 .. n : \A k \in 0 .. m : h[k] <= h[m]}
  <2>1. 0 \in P
    BY <1>0, <1>2
  <2>2. ASSUME NEW m \in 1 .. n, m - 1 \in P PROVE m \in P
    <3>1. h[m - 1] <= h[m] /\ h[m] \in Nat /\ h[m - 1] \in Nat
      BY <1>0, <1>3, <1>4
    <3>2. \A k \in 0 .. m - 1 : h[k] <= h[m - 1] /\ h[k] \in Nat
      BY <1>0, <1>4, <2>2
    <3>3. \A k \in 0 .. m : k = m \/ k \in 0 .. m - 1
      OBVIOUS
    <3> QED
      BY <3>1, <3>2, <3>3
  <2> HIDE DEF P
  <2>3. \A m \in 0 .. n : m \in P
    BY <1>0, <2>1, <2>2, Induct
  <2> QED
    BY <2>3 DEF P
<1> QED
  BY <1>2, <1>3, <1>4, <1>5 DEF h

\* A group is text and objects, and then its signature.
GroupIs(bs, g) ==
  /\ g = <<g[1], g[2]>> /\ g[1] \in 1 .. Len(bs) /\ g[2] \in 1 .. Len(bs) /\ g[1] < g[2]
  /\ bs[g[2]].kind \in SignKinds
  /\ \A k \in g[1] .. g[2] - 1 : bs[k].kind \notin SignKinds

LEMMA LeadIs ==
  ASSUME NEW b, IsLead(b)
  PROVE  b.kind \notin SignKinds
  BY DEF IsLead, SignKinds

LEMMA StartIs ==
  ASSUME NEW bs, Len(bs) \in Nat, NEW i \in 1 .. Len(bs), NEW j \in 1 .. Len(bs), RunsTo(bs, i, j)
  PROVE  LET a == GroupStart(bs, i, j) IN
         a \in 1 .. i /\ \A k \in a .. j - 1 : bs[k].kind \notin SignKinds
<1> DEFINE p == PrevStart(bs, i, j)
           fits(r) == Total(bs, r, j - 1) + SignNeeded(bs[j]) <= LinesPerPage
           S == {p} \cup {r \in 1 .. p : (\A k \in r .. p - 1 : IsLead(bs[k])) /\ fits(r)}
           a == GroupStart(bs, i, j)
<1>1. a = Min(S)
  BY DEF GroupStart
<1>2. p \in 1 .. i /\ (p = i \/ (p = i - 1 /\ bs[p].kind \notin SignKinds))
  <2> DEFINE joins == /\ i > 1 /\ bs[i - 1].kind \notin SignKinds \cup {"heading"}
                      /\ Total(bs, i - 1, j - 1) + SignNeeded(bs[j]) <= LinesPerPage
  <2>1. p = IF joins THEN i - 1 ELSE i
    BY DEF PrevStart
  <2>2. joins => i > 1 /\ bs[i - 1].kind \notin SignKinds
    OBVIOUS
  <2> HIDE DEF joins, p
  <2> QED
    BY <2>1, <2>2
<1>3. i < j /\ \A k \in i .. j - 1 : bs[k].kind \notin SignKinds
  BY LeadIs DEF RunsTo
<1> HIDE DEF fits, p
<1>4. S \subseteq Nat /\ S # {}
  BY <1>2
<1>5. a \in S
  BY <1>1, <1>4, MinIs
<1>6. a \in 1 .. p /\ \A k \in a .. p - 1 : bs[k].kind \notin SignKinds
  BY <1>2, <1>5, LeadIs
<1> HIDE DEF S, a
<1>7. a \in 1 .. i
  BY <1>2, <1>6
<1>8. ASSUME NEW k \in a .. j - 1 PROVE bs[k].kind \notin SignKinds
  <2>1. k \in a .. p - 1 \/ k = p \/ k \in i .. j - 1
    BY <1>2, <1>6, <1>3
  <2>2. p \in i .. j - 1 \/ bs[p].kind \notin SignKinds
    BY <1>2, <1>3
  <2> QED
    BY <1>3, <1>6, <2>1, <2>2
<1> QED
  BY <1>7, <1>8 DEF a

\* Two groups have no block in common.
LEMMA GroupsApart ==
  ASSUME NEW bs, IsSeq(bs), NEW g \in KeepGroups(bs)
  PROVE  /\ GroupIs(bs, g)
         /\ \A h \in KeepGroups(bs) : h # g => h[1] \notin g[1] .. g[2]
<1> DEFINE n == Len(bs)  Longest(p) == RunsTo(bs, p[1], p[2]) /\ (p[1] = 1 \/ ~RunsTo(bs, p[1] - 1, p[2]))
           Of(p) == <<GroupStart(bs, p[1], p[2]), p[2]>>
<1>1. DOMAIN bs = 1 .. n /\ n \in Nat
  BY SeqIs
<1>2. \A h : h \in KeepGroups(bs) <=> \E p \in (1 .. n) \X (1 .. n) : Longest(p) /\ h = Of(p)
  BY <1>1 DEF KeepGroups
<1>3. ASSUME NEW p \in (1 .. n) \X (1 .. n), Longest(p) PROVE GroupIs(bs, Of(p))
  <2> DEFINE i == p[1]  j == p[2]  a == GroupStart(bs, i, j)
  <2>1. i \in 1 .. n /\ j \in 1 .. n /\ RunsTo(bs, i, j)
    BY <1>3
  <2>2. a \in 1 .. i /\ \A k \in a .. j - 1 : bs[k].kind \notin SignKinds
    BY <1>1, <2>1, StartIs
  <2>3. i < j /\ bs[j].kind \in SignKinds
    BY <2>1 DEF RunsTo
  <2>4. Of(p) = <<a, j>>
    OBVIOUS
  <2> HIDE DEF a, i, j
  <2>5. Of(p)[1] = a /\ Of(p)[2] = j
    BY <2>4
  <2> HIDE DEF Of
  <2> QED
    BY <1>1, <2>1, <2>2, <2>3, <2>4, <2>5 DEF GroupIs
<1>4. ASSUME NEW p \in (1 .. n) \X (1 .. n), NEW q \in (1 .. n) \X (1 .. n), Longest(p), Longest(q), p[2] = q[2]
      PROVE  p = q
  <2> DEFINE j == p[2]
  <2>1. p[1] \in 1 .. n /\ q[1] \in 1 .. n /\ j \in 1 .. n /\ p = <<p[1], j>> /\ q = <<q[1], j>>
    BY <1>4
  <2>2. ASSUME NEW x \in 1 .. n, NEW y \in 1 .. n, RunsTo(bs, x, j), RunsTo(bs, y, j), x < y PROVE RunsTo(bs, y - 1, j)
    <3>1. y < j /\ j - x <= MaxLeads /\ bs[j].kind \in SignKinds /\ \A k \in x .. j - 1 : IsLead(bs[k])
      BY <2>2 DEF RunsTo
    <3>2. MaxLeads \in Nat
      BY PageAssumption
    <3>3. y - 1 < j /\ j - (y - 1) <= MaxLeads
      BY <2>1, <2>2, <3>1, <3>2
    <3>4. \A k \in y - 1 .. j - 1 : k \in x .. j - 1
      BY <2>1, <2>2
    <3> QED
      BY <3>1, <3>3, <3>4 DEF RunsTo
  <2>3. ~(p[1] < q[1])
    BY <1>4, <2>1, <2>2
  <2>4. ~(q[1] < p[1])
    BY <1>4, <2>1, <2>2
  <2> QED
    BY <2>1, <2>3, <2>4
<1> HIDE DEF Longest
<1>5. PICK p \in (1 .. n) \X (1 .. n) : Longest(p) /\ g = Of(p)
  BY <1>2
<1>6. GroupIs(bs, g)
  BY <1>3, <1>5
<1>7. ASSUME NEW h \in KeepGroups(bs), h # g, h[1] \in g[1] .. g[2] PROVE FALSE
  <2>1. PICK q \in (1 .. n) \X (1 .. n) : Longest(q) /\ h = Of(q)
    BY <1>2
  <2>2. GroupIs(bs, h)
    BY <1>3, <2>1
  <2>3. g[2] # h[2]
    <3>1. g[2] = p[2] /\ h[2] = q[2]
      BY <1>5, <2>1
    <3> QED
      BY <1>4, <1>5, <1>7, <2>1, <3>1
  <2>4. h[1] # g[2]
    <3>1. bs[g[2]].kind \in SignKinds
      BY <1>6 DEF GroupIs
    <3>2. bs[h[1]].kind \notin SignKinds
      BY <2>2 DEF GroupIs
    <3> QED
      BY <3>1, <3>2
  <2> HIDE DEF Of
  <2>5. g[2] \in h[1] .. h[2] - 1 \/ h[2] \in g[1] .. g[2] - 1
    BY <1>6, <1>7, <2>2, <2>3, <2>4 DEF GroupIs
  <2> QED
    BY <1>6, <2>2, <2>5 DEF GroupIs
<1> QED
  BY <1>6, <1>7

-----------------------------------------------------------------------------
(* Text without footnotes.                                                 *)

\* No line is tied to more than those below it.
LEMMA RunIs ==
  ASSUME NEW ws, IsSeq(ws), NEW k \in 1 .. Len(ws)
  PROVE  /\ KeepRun(ws, k) \in Nat \ {0} /\ KeepRun(ws, k) <= Len(ws) - k + 1
         /\ ws[k] \notin Ties => KeepRun(ws, k) = 1
<1> DEFINE n == Len(ws)  S == {j \in k .. n : \A m \in k .. j : Tied(ws, m)}
<1>1. n \in Nat
  BY SeqIs
<1>2. S \subseteq k .. n - 1
  <2> SUFFICES ASSUME NEW j \in S PROVE j \in k .. n - 1
    OBVIOUS
  <2>1. j \in k .. n /\ Tied(ws, j)
    OBVIOUS
  <2> QED
    BY <1>1, <2>1 DEF Tied
<1>3. IsFiniteSet(k .. n - 1) /\ Cardinality(k .. n - 1) = n - k
  <2> DEFINE b == n - 1
  <2>1. k \in Int /\ b \in Int /\ b = n - 1
    BY <1>1
  <2> HIDE DEF b
  <2>2. IsFiniteSet(k .. b) /\ Cardinality(k .. b) = IF k > b THEN 0 ELSE b - k + 1
    BY <2>1, FS_Interval
  <2>3. Cardinality(k .. b) = n - k
    BY <1>1, <2>1, <2>2
  <2> QED
    BY <2>2, <2>3 DEF b
<1> HIDE DEF S
<1>4. Cardinality(S) \in Nat /\ Cardinality(S) <= n - k
  <2>1. IsFiniteSet(S) /\ Cardinality(S) <= Cardinality(k .. n - 1)
    BY <1>2, <1>3, FS_Subset
  <2>2. Cardinality(S) \in Nat
    BY <2>1, FS_CardinalityType
  <2> QED
    BY <1>3, <2>1, <2>2
<1>5. KeepRun(ws, k) = IF ~Tied(ws, k) \/ (k > 1 /\ Tied(ws, k - 1)) THEN 1 ELSE 1 + Cardinality(S)
  BY DEF KeepRun, S
<1>6. ws[k] \notin Ties => ~Tied(ws, k)
  BY DEF Tied
<1> QED
  BY <1>1, <1>4, <1>5, <1>6

LEMMA NoNewNotes ==
  ASSUME NEW s, SheetOk(s), s.notes = << >>, NEW w, w \notin DOMAIN NoteLines
  PROVE  s.notes \o NewNotes(s, w) = << >> /\ Area(s.notes \o NewNotes(s, w)) = 0
<1>1. NewNotes(s, w) = << >>
  BY DEF NewNotes
<1>2. << >> \o << >> = << >>
  OBVIOUS
<1> QED
  BY <1>1, <1>2 DEF Area

\* A line without a marker goes where there is room for it and for those it
\* is tied to.
LEMMA PutPlain ==
  ASSUME NEW s, SheetOk(s), s.notes = << >>, NEW i, NEW w, w \notin DOMAIN NoteLines, NEW run \in Nat \ {0}
  PROVE  LET u == PutLine(s, i, w, run) IN
         /\ u.notes = << >>
         /\ s.line + run - 1 <= LinesPerPage =>
              u.page = s.page /\ u.line = s.line + 1 /\ u.drawn[Len(s.drawn) + 1].page = s.page
<1> DEFINE bottom == LinesPerPage - Area(s.notes \o NewNotes(s, w))
           turns == s.line > bottom \/ (run > 1 /\ s.line # 1 /\ s.line + run - 1 > bottom)
           t == TurnIf(s, turns)
           d == [t EXCEPT !.notes = @ \o NewNotes(t, w)]
           u == Draw(d, 1, i, w)
<1>1. PutLine(s, i, w, run) = u
  BY DEF PutLine
<1>2. LinesPerPage \in Nat \ {0} /\ s.line \in Nat \ {0}
  BY PageAssumption DEF SheetOk
<1>3. bottom = LinesPerPage
  <2>1. Area(s.notes \o NewNotes(s, w)) = 0
    BY NoNewNotes
  <2> QED
    BY <1>2, <2>1
<1>4. SheetOk(t) /\ t.drawn = s.drawn /\ (turns => t.line = 1 /\ t.notes = << >>) /\ (~turns => t = s)
  BY TurnedOk
<1>5. t.notes = << >>
  BY <1>4
<1>6. s.line + run - 1 <= LinesPerPage => ~turns
  BY <1>2, <1>3
<1>7. ~turns => s.line <= LinesPerPage
  BY <1>2, <1>3
<1> HIDE DEF turns, t, bottom
<1>8. d = t
  <2>1. t = [page |-> t.page, line |-> t.line, notes |-> t.notes, drawn |-> t.drawn, foot |-> t.foot]
    BY <1>4 DEF SheetOk
  <2>2. t.notes \o NewNotes(t, w) = << >>
    BY <1>4, <1>5, NoNewNotes
  <2>3. d = [t EXCEPT !.notes = << >>]
    BY <2>2
  <2>4. [t EXCEPT !.notes = << >>] = [page |-> t.page, line |-> t.line, notes |-> << >>, drawn |-> t.drawn, foot |-> t.foot]
    BY <2>1
  <2> QED
    BY <1>5, <2>1, <2>3, <2>4
<1> HIDE DEF d
<1>9. t.line + 1 - 1 <= LinesPerPage
  BY <1>2, <1>4, <1>7
<1> DEFINE v == Draw(t, 1, i, w)
<1>10. v.page = t.page /\ v.line = t.line + 1 /\ v.notes = t.notes /\ v.drawn = Append(t.drawn, Mark(t, t.line, 1, i, w))
  <2>1. SheetOk(t) /\ 1 \in Nat /\ (BlocksFit => t.line + 1 - 1 <= LinesPerPage)
    BY <1>4, <1>9
  <2>2. LET x == Draw(t, 1, i, w) IN
        /\ SheetOk(x) /\ x.page = t.page /\ x.line = t.line + 1 /\ x.notes = t.notes /\ x.foot = t.foot
        /\ x.drawn = Append(t.drawn, Mark(t, t.line, 1, i, w))
        /\ Adds(t, x, i, <<w>>, 1)
    BY <2>1, DrawnOk, ZenonT(30)
  <2> QED
    BY <2>2
<1>11. v.drawn[Len(t.drawn) + 1].page = t.page
  <2>1. v.drawn[Len(t.drawn) + 1] = Mark(t, t.line, 1, i, w)
    BY <1>4, <1>10, Appended DEF SheetOk
  <2> QED
    BY <2>1 DEF Mark
<1>12. u = v
  BY <1>8
<1> HIDE DEF u, v
<1>13. u.notes = << >>
  BY <1>5, <1>10, <1>12
<1>14. ASSUME s.line + run - 1 <= LinesPerPage
       PROVE  u.page = s.page /\ u.line = s.line + 1 /\ u.drawn[Len(s.drawn) + 1].page = s.page
  <2>1. t = s
    BY <1>4, <1>6, <1>14
  <2> QED
    BY <1>10, <1>11, <1>12, <2>1
<1> QED
  BY <1>1, <1>13, <1>14

\* No line has a footnote, and the first m lines have room.
Bare(ws) == \A k \in 1 .. Len(ws) : ws[k] \notin DOMAIN NoteLines

HasRoom(s, ws, m) == \A k \in 1 .. m : s.line + (k - 1) + KeepRun(ws, k) - 1 <= LinesPerPage

\* They are on the page that was there.
StaysOn(s, t, n, m) ==
  /\ t.notes = << >>
  /\ \A j \in 1 .. m : t.drawn[Len(s.drawn) + j].page = s.page
  /\ m = n => t.page = s.page /\ t.line = s.line + n

\* Where the first m lines of a text go.
LEMMA PutsPlain ==
  ASSUME NEW s, SheetOk(s), s.notes = << >>, NEW i, NEW ws, IsSeq(ws), Bare(ws),
         NEW f, Puts("text", i, ws, s, Len(ws), f), NEW m \in 0 .. Len(ws), HasRoom(s, ws, m)
  PROVE  StaysOn(s, f[Len(ws)], Len(ws), m)
<1> DEFINE n == Len(ws)  o == Len(s.drawn)
           Flat(k) == f[k].page = s.page /\ f[k].line = s.line + k
           Good(k) == /\ SheetOk(f[k]) /\ f[k].notes = << >> /\ Len(f[k].drawn) = o + k
                      /\ \A j \in 1 .. k : j <= m => f[k].drawn[o + j].page = s.page
                      /\ k <= m => Flat(k)
           P == {k \in 0 .. n : Good(k)}
<1>1. n \in Nat /\ o \in Nat /\ s.line \in Nat \ {0} /\ LinesPerPage \in Nat /\ m \in Nat
  BY SeqIs, PageAssumption DEF SheetOk
<1>2. 0 \in P
  <2>1. f[0] = s
    BY DEF Puts
  <2> QED
    BY <1>1, <2>1
<1>3. ASSUME NEW k \in 1 .. n, k - 1 \in P PROVE k \in P
  <2>1. f[k] = PutLine(f[k - 1], i, ws[k], KeepRun(ws, k))
    BY DEF Puts, Put
  <2>2. SheetOk(f[k - 1]) /\ f[k - 1].notes = << >> /\ Len(f[k - 1].drawn) = o + (k - 1)
        /\ (\A j \in 1 .. k - 1 : j <= m => f[k - 1].drawn[o + j].page = s.page)
        /\ (k - 1 <= m => Flat(k - 1))
    BY <1>3
  <2>3. KeepRun(ws, k) \in Nat \ {0} /\ ws[k] \notin DOMAIN NoteLines
    BY RunIs DEF Bare
  <2>4. SheetOk(f[k]) /\ Adds(f[k - 1], f[k], i, <<ws[k]>>, 1)
    <3> DEFINE u == PutLine(f[k - 1], i, ws[k], KeepRun(ws, k))
    <3>1. SheetOk(u) /\ Adds(f[k - 1], u, i, <<ws[k]>>, 1)
      BY <2>2, PutLineOk
    <3> QED
      BY <2>1, <3>1
  <2>5. Len(f[k].drawn) = o + k /\ \A j \in 1 .. o + (k - 1) : f[k].drawn[j] = f[k - 1].drawn[j]
    <3>1. /\ Len(f[k].drawn) = Len(f[k - 1].drawn) + 1
          /\ \A j \in 1 .. Len(f[k - 1].drawn) : f[k].drawn[j] = f[k - 1].drawn[j]
      BY <2>4 DEF Adds
    <3>2. Len(f[k - 1].drawn) = o + (k - 1)
      BY <2>2
    <3>3. ASSUME NEW a \in Nat PROVE a + (k - 1) + 1 = a + k
      <4>1. k \in Nat
        BY <1>1
      <4> QED
        BY <4>1
    <3>4. o + (k - 1) + 1 = o + k
      BY <1>1, <3>3
    <3> QED
      BY <3>1, <3>2, <3>4
  <2>6. /\ f[k].notes = << >>
        /\ f[k - 1].line + KeepRun(ws, k) - 1 <= LinesPerPage =>
             f[k].page = f[k - 1].page /\ f[k].line = f[k - 1].line + 1 /\ f[k].drawn[Len(f[k - 1].drawn) + 1].page = f[k - 1].page
    <3> DEFINE e == f[k - 1]  u == PutLine(e, i, ws[k], KeepRun(ws, k))
    <3>1. /\ u.notes = << >>
          /\ e.line + KeepRun(ws, k) - 1 <= LinesPerPage =>
               u.page = e.page /\ u.line = e.line + 1 /\ u.drawn[Len(e.drawn) + 1].page = e.page
      <4>1. SheetOk(e) /\ e.notes = << >>
        BY <2>2
      <4> HIDE DEF e
      <4> QED
        BY <2>3, <4>1, PutPlain
    <3>2. u = f[k]
      BY <2>1
    <3> HIDE DEF u
    <3> QED
      BY <3>1, <3>2
  <2>7. ASSUME k <= m PROVE Flat(k) /\ f[k].drawn[o + k].page = s.page
    <3>1. f[k - 1].page = s.page /\ f[k - 1].line = s.line + (k - 1)
      BY <2>2, <2>7, <1>1
    <3>2. s.line + (k - 1) + KeepRun(ws, k) - 1 <= LinesPerPage
      BY <2>7, <1>1 DEF HasRoom
    <3>3. f[k].page = s.page /\ f[k].line = s.line + (k - 1) + 1 /\ f[k].drawn[o + (k - 1) + 1].page = s.page
      BY <2>2, <2>6, <3>1, <3>2
    <3>5. ASSUME NEW a \in Nat PROVE a + (k - 1) + 1 = a + k
      <4>1. k \in Nat
        BY <1>1
      <4> QED
        BY <4>1
    <3>4. o + (k - 1) + 1 = o + k /\ s.line + (k - 1) + 1 = s.line + k
      BY <1>1, <3>5
    <3> QED
      BY <3>3, <3>4
  <2>8. ASSUME NEW j \in 1 .. k, j <= m PROVE f[k].drawn[o + j].page = s.page
    <3>1. CASE j = k
      BY <2>7, <2>8, <3>1
    <3>2. CASE j # k
      <4>1. j \in 1 .. k - 1 /\ o + j \in 1 .. o + (k - 1)
        BY <1>1, <3>2
      <4> QED
        BY <2>2, <2>5, <2>8, <4>1
    <3> QED
      BY <3>1, <3>2
  <2>9. Good(k)
    BY <2>4, <2>5, <2>6, <2>7, <2>8
  <2> HIDE DEF Good
  <2> QED
    BY <2>9
<1> HIDE DEF P
<1>4. \A k \in 0 .. n : k \in P
  BY <1>1, <1>2, <1>3, Induct
<1>5. n \in P
  BY <1>1, <1>4
<1>6. Good(n)
  BY <1>5 DEF P
<1>7. \A j \in 1 .. m : j \in 1 .. n /\ j <= m
  BY <1>1
<1>8. \A j \in 1 .. m : f[n].drawn[o + j].page = s.page
  BY <1>6, <1>7
<1>9. n <= m => f[n].page = s.page /\ f[n].line = s.line + n
  BY <1>6
<1>10. m = n => n <= m
  BY <1>1
<1> QED
  BY <1>6, <1>8, <1>9, <1>10 DEF StaysOn

\* The same of PutLines.
LEMMA LinesPlain ==
  ASSUME NEW s, SheetOk(s), s.notes = << >>, NEW i, NEW ws, IsSeq(ws), Bare(ws), NEW m \in 0 .. Len(ws), HasRoom(s, ws, m)
  PROVE  LET t == PutLines(s, i, ws) IN
         SheetOk(t) /\ Adds(s, t, i, ws, Len(ws)) /\ StaysOn(s, t, Len(ws), m)
<1> DEFINE n == Len(ws)
           f == CHOOSE g : g = [k \in 0 .. n |-> IF k = 0 THEN s ELSE PutLine(g[k - 1], i, ws[k], KeepRun(ws, k))]
<1>1. PutLines(s, i, ws) = f[n]
  BY DEF PutLines
<1>2. n \in Nat
  BY SeqIs
<1>3. \E g : g = [k \in 0 .. n |-> IF k = 0 THEN s ELSE PutLine(g[k - 1], i, ws[k], KeepRun(ws, k))]
  <2>1. PICK g : Puts("text", i, ws, s, n, g)
    BY <1>2, PutsExist
  <2>2. g = [k \in 0 .. n |-> IF k = 0 THEN s ELSE PutLine(g[k - 1], i, ws[k], KeepRun(ws, k))]
    BY <2>1 DEF Puts, Put
  <2> QED
    BY <2>2
<1>4. f = [k \in 0 .. n |-> IF k = 0 THEN s ELSE PutLine(f[k - 1], i, ws[k], KeepRun(ws, k))]
  BY <1>3
<1> HIDE DEF f
<1>5. Puts("text", i, ws, s, n, f)
  BY <1>4 DEF Puts, Put
<1>6. StaysOn(s, f[n], n, m)
  BY <1>5, PutsPlain
<1> DEFINE t == PutLines(s, i, ws)
<1>7. SheetOk(t) /\ Adds(s, t, i, ws, n)
  BY PutLinesOk
<1> QED
  BY <1>1, <1>6, <1>7

LEMMA DrawIs ==
  ASSUME NEW s, SheetOk(s), NEW h, NEW i, NEW w
  PROVE  LET t == Draw(s, h, i, w) IN
         /\ t = [page |-> t.page, line |-> t.line, notes |-> t.notes, drawn |-> t.drawn, foot |-> t.foot]
         /\ t.page = s.page /\ t.line = s.line + h /\ t.notes = s.notes
         /\ t.drawn = Append(s.drawn, Mark(s, s.line, h, i, w))
<1> DEFINE m == Mark(s, s.line, h, i, w)  t == Draw(s, h, i, w)
<1>1. s = [page |-> s.page, line |-> s.line, notes |-> s.notes, drawn |-> s.drawn, foot |-> s.foot]
  BY DEF SheetOk
<1>2. t = [s EXCEPT !.drawn = Append(@, m), !.line = @ + h]
  BY DEF Draw
<1> HIDE DEF m, t
<1>3. t = [page |-> s.page, line |-> s.line + h, notes |-> s.notes, drawn |-> Append(s.drawn, m), foot |-> s.foot]
  BY <1>1, <1>2
<1>4. /\ t.page = s.page /\ t.line = s.line + h /\ t.notes = s.notes /\ t.drawn = Append(s.drawn, m)
      /\ t = [page |-> t.page, line |-> t.line, notes |-> t.notes, drawn |-> t.drawn, foot |-> t.foot]
  BY <1>3
<1> QED
  BY <1>4 DEF t, m

LEMMA LowerIs ==
  ASSUME NEW s, s = [page |-> s.page, line |-> s.line, notes |-> s.notes, drawn |-> s.drawn, foot |-> s.foot]
  PROVE  LET t == [s EXCEPT !.line = @ + 1] IN
         t.page = s.page /\ t.line = s.line + 1 /\ t.notes = s.notes /\ t.drawn = s.drawn
<1> DEFINE t == [s EXCEPT !.line = @ + 1]
<1>1. t = [page |-> s.page, line |-> s.line + 1, notes |-> s.notes, drawn |-> s.drawn, foot |-> s.foot]
  OBVIOUS
<1> HIDE DEF t
<1>2. t.page = s.page /\ t.line = s.line + 1 /\ t.notes = s.notes /\ t.drawn = s.drawn
  BY <1>1
<1> QED
  BY <1>2 DEF t

LEMMA TurnQuiet ==
  ASSUME NEW s, SheetOk(s), s.notes = << >>, NEW c
  PROVE  LET t == TurnIf(s, c) IN
         /\ SheetOk(t) /\ t.notes = << >> /\ t.drawn = s.drawn
         /\ c => t.line = 1 /\ t.page = s.page + 1
         /\ ~c => t = s
<1> DEFINE t == TurnIf(s, c)
<1>1. /\ SheetOk(t) /\ t.drawn = s.drawn
      /\ c => t.line = 1 /\ t.notes = << >> /\ t.page = s.page + 1
      /\ ~c => t = s
  BY TurnedOk
<1> HIDE DEF t
<1>2. t.notes = << >>
  BY <1>1
<1> QED
  BY <1>1, <1>2 DEF t

\* Rows and verbatim lines have no footnote.
LEMMA PutsQuiet ==
  ASSUME NEW s, SheetOk(s), s.notes = << >>, NEW how \in {"table", "fixed"}, NEW i, NEW ws, NEW n \in Nat,
         NEW f, Puts(how, i, ws, s, n, f)
  PROVE  SheetOk(f[n]) /\ f[n].notes = << >>
<1> DEFINE P == {k \in 0 .. n : SheetOk(f[k]) /\ f[k].notes = << >>}
<1>1. 0 \in P
  BY DEF Puts
<1>2. ASSUME NEW k \in 1 .. n, k - 1 \in P PROVE k \in P
  <2> DEFINE e == f[k - 1]  c == IF how = "table" THEN Bottom(e) - e.line < 1 ELSE e.line > Bottom(e)
             t == TurnIf(e, c)  u == Draw(t, 1, i, ws[k])
  <2>1. f[k] = Put(how, i, ws, e, k)
    BY DEF Puts
  <2>2. SheetOk(e) /\ e.notes = << >>
    BY <1>2
  <2>3. Put(how, i, ws, e, k) = u
    <3>1. CASE how = "table"
      BY <3>1 DEF Put
    <3>2. CASE how = "fixed"
      BY <3>2 DEF Put, Advance
    <3> QED
      BY <3>1, <3>2
  <2> HIDE DEF e, c
  <2>4. SheetOk(t) /\ t.notes = << >>
    BY <2>2, TurnQuiet
  <2> HIDE DEF t
  <2>5. u.notes = << >>
    BY <2>4, DrawIs
  <2>6. SheetOk(Put(how, i, ws, e, k))
    <3> DEFINE v == Put(how, i, ws, e, k)
    <3>1. /\ SheetOk(v) /\ Adds(e, v, i, <<ws[k]>>, 1)
          /\ NotesFit /\ FootOk(<< >>, e) /\ Suits(how, << >>[i].kind) => FootOk(<< >>, v)
      <4>1. how \in {"text", "table", "fixed"}
        OBVIOUS
      <4> QED
        BY <2>2, <4>1, PutOk, ZenonT(30)
    <3> QED
      BY <3>1
  <2> HIDE DEF u
  <2> QED
    BY <2>1, <2>3, <2>5, <2>6
<1> HIDE DEF P
<1>3. \A k \in 0 .. n : k \in P
  BY <1>1, <1>2, Induct
<1>4. n \in P
  BY <1>3
<1> QED
  BY <1>4 DEF P

\* No text of the block has a footnote.
Quiet(b) == b.kind \in TextKinds => Bare(b.words)

LEMMA QuietIs ==
  ASSUME NEW bs, BlocksOk(bs), Unnoted(bs), NEW i \in 1 .. Len(bs)
  PROVE  Quiet(bs[i])
<1>1. BlockOk(bs[i]) /\ DOMAIN bs = 1 .. Len(bs)
  BY SeqIs DEF BlocksOk
<1>2. DOMAIN bs[i].words = 1 .. Len(bs[i].words)
  BY <1>1, SeqIs DEF BlockOk
<1> QED
  BY <1>1, <1>2 DEF Unnoted, Quiet, Bare, ToSet

LEMMA TextQuiet ==
  ASSUME NEW bs, NEW s, SheetOk(s), s.notes = << >>, NEW i, BlockOk(bs[i]), bs[i].kind \in TextKinds, Quiet(bs[i])
  PROVE  EmitText(bs, i, s).notes = << >>
<1> DEFINE r == TurnIf(s, TurnsBefore(bs, i, s))
           t == PutLines(r, i, bs[i].words)
           u == [t EXCEPT !.line = @ + 1]
           ws == bs[i].words
<1>1. IsSeq(ws) /\ Bare(ws) /\ Len(ws) \in Nat
  BY SeqIs DEF BlockOk, Quiet
<1>2. SheetOk(r) /\ r.notes = << >>
  BY TurnQuiet
<1> HIDE DEF r
<1>3. SheetOk(t) /\ StaysOn(r, t, Len(ws), 0)
  <2>1. 0 \in 0 .. Len(ws) /\ HasRoom(r, ws, 0)
    BY <1>1 DEF HasRoom
  <2> QED
    BY <1>1, <1>2, <2>1, LinesPlain
<1>5. EmitText(bs, i, s) = u \/ EmitText(bs, i, s) = t
  BY DEF EmitText, r
<1> HIDE DEF t
<1>6. u.notes = t.notes
  BY <1>3, LowerIs DEF SheetOk
<1> QED
  BY <1>3, <1>5, <1>6 DEF StaysOn

LEMMA TableQuiet ==
  ASSUME NEW b, NEW s, SheetOk(s), s.notes = << >>, NEW i, BlockOk(b)
  PROVE  EmitTable(b, i, s).notes = << >>
<1> DEFINE ws == b.words  n == Len(ws)
           f == CHOOSE g : g = [k \in 0 .. n |->
                  IF k = 0 THEN s ELSE Draw(TurnIf(g[k - 1], Bottom(g[k - 1]) - g[k - 1].line < 1), 1, i, ws[k])]
           t == Advance(f[n])
           u == [t EXCEPT !.line = @ + 1]
<1>1. EmitTable(b, i, s) = u
  BY DEF EmitTable
<1>2. n \in Nat
  BY SeqIs DEF BlockOk
<1>3. \E g : g = [k \in 0 .. n |->
         IF k = 0 THEN s ELSE Draw(TurnIf(g[k - 1], Bottom(g[k - 1]) - g[k - 1].line < 1), 1, i, ws[k])]
  <2>1. PICK g : Puts("table", i, ws, s, n, g)
    BY <1>2, PutsExist
  <2>2. g = [k \in 0 .. n |->
          IF k = 0 THEN s ELSE Draw(TurnIf(g[k - 1], Bottom(g[k - 1]) - g[k - 1].line < 1), 1, i, ws[k])]
    BY <2>1 DEF Puts, Put
  <2> QED
    BY <2>2
<1>4. f = [k \in 0 .. n |->
         IF k = 0 THEN s ELSE Draw(TurnIf(f[k - 1], Bottom(f[k - 1]) - f[k - 1].line < 1), 1, i, ws[k])]
  BY <1>3
<1> HIDE DEF f
<1>5. Puts("table", i, ws, s, n, f)
  BY <1>4 DEF Puts, Put
<1>6. SheetOk(f[n]) /\ f[n].notes = << >>
  BY <1>2, <1>5, PutsQuiet
<1>7. SheetOk(t) /\ t.notes = << >>
  BY <1>6, TurnQuiet DEF Advance
<1> HIDE DEF t
<1>8. u.notes = t.notes
  BY <1>7, LowerIs DEF SheetOk
<1> QED
  BY <1>1, <1>7, <1>8

LEMMA FixedQuiet ==
  ASSUME NEW b, NEW s, SheetOk(s), s.notes = << >>, NEW i, BlockOk(b)
  PROVE  EmitFixed(b, i, s).notes = << >>
<1> DEFINE ws == b.words  n == Len(ws)
           f == CHOOSE g : g = [k \in 0 .. n |-> IF k = 0 THEN s ELSE Draw(Advance(g[k - 1]), 1, i, ws[k])]
           t == f[n]
           u == [t EXCEPT !.line = @ + 1]
<1>1. EmitFixed(b, i, s) = u
  BY DEF EmitFixed
<1>2. n \in Nat
  BY SeqIs DEF BlockOk
<1>3. \E g : g = [k \in 0 .. n |-> IF k = 0 THEN s ELSE Draw(Advance(g[k - 1]), 1, i, ws[k])]
  <2>1. PICK g : Puts("fixed", i, ws, s, n, g)
    BY <1>2, PutsExist
  <2>2. g = [k \in 0 .. n |-> IF k = 0 THEN s ELSE Draw(Advance(g[k - 1]), 1, i, ws[k])]
    BY <2>1 DEF Puts, Put
  <2> QED
    BY <2>2
<1>4. f = [k \in 0 .. n |-> IF k = 0 THEN s ELSE Draw(Advance(f[k - 1]), 1, i, ws[k])]
  BY <1>3
<1> HIDE DEF f
<1>5. Puts("fixed", i, ws, s, n, f)
  BY <1>4 DEF Puts, Put
<1>6. SheetOk(t) /\ t.notes = << >>
  BY <1>2, <1>5, PutsQuiet
<1> HIDE DEF t
<1>8. u.notes = t.notes
  BY <1>6, LowerIs DEF SheetOk
<1> QED
  BY <1>1, <1>6, <1>8

LEMMA CenterQuiet ==
  ASSUME NEW b, NEW s, SheetOk(s), s.notes = << >>, NEW i
  PROVE  EmitCenter(b, i, s).notes = << >>
<1> DEFINE t == TurnIf(s, s.line > Bottom(s))
<1>1. EmitCenter(b, i, s) = Draw(t, 1, i, Label(b))
  BY DEF EmitCenter, Advance
<1>2. SheetOk(t) /\ t.notes = << >>
  BY TurnQuiet
<1> HIDE DEF t
<1>3. Draw(t, 1, i, Label(b)).notes = t.notes
  BY <1>2, DrawIs
<1> QED
  BY <1>1, <1>2, <1>3

\* Where a block of signatures goes.
LEMMA SignGoes ==
  ASSUME NEW b, NEW s, SheetOk(s), s.notes = << >>, NEW i, NEW h,
         h = IF b.kind = "sign" THEN SignLines + b.n ELSE SignNeeded(b)
  PROVE  LET u == EmitSign(b, i, s) IN
         /\ u.notes = << >>
         /\ ~(s.line + h - 1 > LinesPerPage) => u.page = s.page /\ u.drawn[Len(s.drawn) + 1].page = s.page
<1> DEFINE c == s.line + h - 1 > LinesPerPage /\ (b.kind = "seal" => s.line # 1)
           t == TurnIf(s, c)
           d == Draw(t, h, i, Label(b))
           low == [d EXCEPT !.line = @ + 1]
           u == EmitSign(b, i, s)
<1>1. u = [d EXCEPT !.line = IF b.kind = "judge" THEN @ ELSE @ + 1]
  BY DEF EmitSign
<1>2. SheetOk(t) /\ t.notes = << >> /\ t.drawn = s.drawn /\ (~c => t = s)
  BY TurnQuiet
<1>3. ~(s.line + h - 1 > LinesPerPage) => ~c
  OBVIOUS
<1> HIDE DEF t, c
<1>4. /\ d = [page |-> d.page, line |-> d.line, notes |-> d.notes, drawn |-> d.drawn, foot |-> d.foot]
      /\ d.page = t.page /\ d.notes = t.notes /\ d.drawn = Append(t.drawn, Mark(t, t.line, h, i, Label(b)))
  BY <1>2, DrawIs
<1>5. d.drawn[Len(s.drawn) + 1].page = t.page
  <2>1. d.drawn[Len(s.drawn) + 1] = Mark(t, t.line, h, i, Label(b))
    BY <1>2, <1>4, Appended DEF SheetOk
  <2> QED
    BY <2>1 DEF Mark
<1> HIDE DEF d
<1>6. low.page = d.page /\ low.notes = d.notes /\ low.drawn = d.drawn
  BY <1>4, LowerIs
<1>7. u = low \/ u = d
  <2>1. CASE b.kind # "judge"
    BY <1>1, <2>1
  <2>2. CASE b.kind = "judge"
    <3>1. u = [d EXCEPT !.line = @]
      BY <1>1, <2>2
    <3> QED
      BY <1>4, <3>1
  <2> QED
    BY <2>1, <2>2
<1> HIDE DEF u, low
<1>8. u.page = t.page /\ u.notes = << >> /\ u.drawn = d.drawn
  BY <1>2, <1>4, <1>6, <1>7
<1>9. u.drawn[Len(s.drawn) + 1].page = t.page
  BY <1>5, <1>8
<1>10. ~(s.line + h - 1 > LinesPerPage) => u.page = s.page /\ u.drawn[Len(s.drawn) + 1].page = s.page
  BY <1>2, <1>3, <1>8, <1>9
<1> QED
  BY <1>8, <1>10 DEF u

LEMMA EmittedQuiet ==
  ASSUME NEW bs, NEW s, SheetOk(s), s.notes = << >>, NEW i, BlockOk(bs[i]), Quiet(bs[i])
  PROVE  Emitted(bs, i, s).notes = << >>
<1> DEFINE c == BreaksGroup(bs, i, s)  r == TurnIf(s, c)  b == bs[i]  u == Emitted(bs, i, s)
<1>1. SheetOk(r) /\ r.notes = << >>
  BY TurnQuiet
<1>3. u = CASE b.kind = "pagebreak" -> TurnIf(r, r.line # 1)
            [] b.kind \in SignKinds -> EmitSign(b, i, r)
            [] b.kind = "table"  -> EmitTable(b, i, r)
            [] b.kind = "fixed"  -> EmitFixed(b, i, r)
            [] b.kind = "center" -> EmitCenter(b, i, r)
            [] OTHER -> EmitText(bs, i, r)
  BY DEF Emitted
<1> HIDE DEF r, c, u
<1>4. b.kind \in Kinds
  BY DEF BlockOk
<1>5. u.notes = << >>
  <2>1. CASE b.kind = "pagebreak"
    <3>1. u = TurnIf(r, r.line # 1)
      BY <1>3, <2>1 DEF SignKinds
    <3>2. TurnIf(r, r.line # 1).notes = << >>
      BY <1>1, TurnQuiet
    <3> QED
      BY <3>1, <3>2
  <2>2. CASE b.kind \in SignKinds
    <3>1. u = EmitSign(b, i, r)
      BY <1>3, <2>2 DEF SignKinds
    <3>2. EmitSign(b, i, r).notes = << >>
      BY <1>1, SignGoes
    <3> QED
      BY <3>1, <3>2
  <2>3. CASE b.kind = "table"
    <3>1. u = EmitTable(b, i, r)
      BY <1>3, <2>3 DEF SignKinds
    <3> QED
      BY <1>1, <3>1, TableQuiet
  <2>4. CASE b.kind = "fixed"
    <3>1. u = EmitFixed(b, i, r)
      BY <1>3, <2>4 DEF SignKinds
    <3> QED
      BY <1>1, <3>1, FixedQuiet
  <2>5. CASE b.kind = "center"
    <3>1. u = EmitCenter(b, i, r)
      BY <1>3, <2>5 DEF SignKinds
    <3> QED
      BY <1>1, <3>1, CenterQuiet
  <2>6. CASE b.kind \in TextKinds
    <3>1. u = EmitText(bs, i, r)
      BY <1>3, <2>6 DEF SignKinds, TextKinds
    <3> QED
      BY <1>1, <2>6, <3>1, TextQuiet
  <2> QED
    BY <1>4, <2>1, <2>2, <2>3, <2>4, <2>5, <2>6 DEF Kinds
<1> QED
  BY <1>5 DEF u

\* A text that fits from its first line on has room for every line.
LEMMA WholeRoom ==
  ASSUME NEW s, SheetOk(s), NEW ws, IsSeq(ws), s.line + Len(ws) - 1 <= LinesPerPage
  PROVE  Len(ws) \in 0 .. Len(ws) /\ HasRoom(s, ws, Len(ws))
<1>1. Len(ws) \in Nat /\ s.line \in Nat \ {0} /\ LinesPerPage \in Nat
  BY SeqIs, PageAssumption DEF SheetOk
<1>2. ASSUME NEW k \in 1 .. Len(ws) PROVE s.line + (k - 1) + KeepRun(ws, k) - 1 <= LinesPerPage
  <2>1. KeepRun(ws, k) \in Nat \ {0} /\ KeepRun(ws, k) <= Len(ws) - k + 1
    BY RunIs
  <2> QED
    BY <1>1, <2>1
<1> QED
  BY <1>1, <1>2 DEF HasRoom

\* Where a text goes.
Goes(s, r, u, n, m) ==
  /\ \A j \in 1 .. m : u.drawn[Len(s.drawn) + j].page = r.page
  /\ m = n => u.page = r.page /\ u.line <= r.line + n + 1

LEMMA TextGoes ==
  ASSUME NEW bs, NEW s, SheetOk(s), s.notes = << >>, NEW i, BlockOk(bs[i]), bs[i].kind \in TextKinds, Quiet(bs[i]),
         NEW r, r = TurnIf(s, TurnsBefore(bs, i, s)), NEW m \in 0 .. Len(bs[i].words), HasRoom(r, bs[i].words, m)
  PROVE  Goes(s, r, EmitText(bs, i, s), Len(bs[i].words), m)
<1> DEFINE ws == bs[i].words
           t == PutLines(r, i, ws)
           low == [t EXCEPT !.line = @ + 1]
           u == EmitText(bs, i, s)
<1>1. IsSeq(ws) /\ Bare(ws) /\ Len(ws) \in Nat
  BY SeqIs DEF BlockOk, Quiet
<1>2. SheetOk(r) /\ r.notes = << >> /\ r.drawn = s.drawn
  BY TurnQuiet
<1>3. SheetOk(t) /\ StaysOn(r, t, Len(ws), m)
  BY <1>1, <1>2, LinesPlain
<1>4. u = low \/ u = t
  BY DEF EmitText
<1> HIDE DEF t
<1>5. low.page = t.page /\ low.drawn = t.drawn /\ low.line = t.line + 1
  BY <1>3, LowerIs DEF SheetOk
<1> HIDE DEF u, low
<1>6. u.page = t.page /\ u.drawn = t.drawn /\ (u.line = t.line + 1 \/ u.line = t.line)
  BY <1>4, <1>5
<1>7. \A j \in 1 .. m : u.drawn[Len(s.drawn) + j].page = r.page
  BY <1>2, <1>3, <1>6 DEF StaysOn
<1>8. ASSUME m = Len(ws) PROVE u.page = r.page /\ u.line <= r.line + Len(ws) + 1
  <2>1. t.page = r.page /\ t.line = r.line + Len(ws)
    BY <1>3, <1>8 DEF StaysOn
  <2>2. r.line \in Nat
    BY <1>2 DEF SheetOk
  <2> HIDE DEF ws
  <2> QED
    BY <1>1, <1>6, <2>1, <2>2
<1> QED
  BY <1>7, <1>8 DEF u, Goes

\* No page is turned before a text with room for what follows it.
LEMMA NoTurn ==
  ASSUME NEW bs, NEW s, SheetOk(s), s.notes = << >>, NEW i, BlockOk(bs[i]), bs[i].kind \in TextKinds,
         NEW rest \in Nat, rest > FollowingLines,
         i # Len(bs) /\ bs[i + 1].kind \in ListKinds => GridLines(bs[i + 1]) \in Nat /\ GridLines(bs[i + 1]) <= rest,
         s.line + GridLines(bs[i]) + rest - 1 <= LinesPerPage
  PROVE  ~TurnsBefore(bs, i, s)
<1>1. Bottom(s) = LinesPerPage
  BY BottomIs
<1>2. LinesPerPage \in Nat /\ FollowingLines \in Nat \ {0} /\ s.line \in Nat \ {0}
  BY PageAssumption DEF SheetOk
<1>3. GridLines(bs[i]) \in Nat \ {0} /\ GridLines(bs[i]) = Len(bs[i].words) + 1 /\ Len(bs[i].words) \in Nat
  BY GridIs
<1>4. s.line + (2 + FollowingLines) - 1 <= LinesPerPage
  BY <1>2, <1>3
<1>5. i # Len(bs) /\ bs[i + 1].kind \in ListKinds => s.line + (GridLines(bs[i]) + GridLines(bs[i + 1])) - 1 <= LinesPerPage
  BY <1>2, <1>3
<1>6. s.line + Len(bs[i].words) - 1 <= LinesPerPage
  BY <1>2, <1>3
<1> QED
  BY <1>1, <1>4, <1>5, <1>6 DEF TurnsBefore

\* A block with room for itself and for the rest leaves that room.
Leaves(bs, i, s, r, u, rest) ==
  /\ u.line + rest - 1 <= LinesPerPage
  /\ bs[i].kind # "pagebreak" =>
       u.page = r.page /\ \A j \in 1 .. Len(ToDraw(bs[i])) : u.drawn[Len(s.drawn) + j].page = r.page

LEMMA RoomKept ==
  ASSUME NEW bs, NEW s, SheetOk(s), s.notes = << >>, NEW i, BlockOk(bs[i]), Quiet(bs[i]),
         bs[i].kind \notin SignKinds \cup {"table", "fixed"},
         NEW r, r = TurnIf(s, BreaksGroup(bs, i, s)),
         NEW rest \in Nat, rest > FollowingLines,
         i # Len(bs) /\ bs[i + 1].kind \in ListKinds => GridLines(bs[i + 1]) \in Nat /\ GridLines(bs[i + 1]) <= rest,
         r.line + GridLines(bs[i]) + rest - 1 <= LinesPerPage
  PROVE  Leaves(bs, i, s, r, Emitted(bs, i, s), rest)
<1> DEFINE b == bs[i]  u == Emitted(bs, i, s)
<1>1. SheetOk(r) /\ r.notes = << >> /\ r.drawn = s.drawn
  BY TurnQuiet
<1>2. /\ b.kind = "pagebreak" => u = TurnIf(r, r.line # 1)
      /\ b.kind = "center" => u = EmitCenter(b, i, r)
      /\ b.kind \in TextKinds => u = EmitText(bs, i, r)
  BY DEF Emitted, SignKinds, TextKinds
<1> HIDE DEF u
<1>3. b.kind \in TextKinds \cup {"center", "pagebreak"}
  BY DEF BlockOk, Kinds
<1>4. LinesPerPage \in Nat /\ FollowingLines \in Nat \ {0} /\ r.line \in Nat \ {0} /\ GridLines(b) \in Nat \ {0}
  BY <1>1, GridIs, PageAssumption DEF SheetOk
<1>5. CASE b.kind = "pagebreak"
  <2> DEFINE t == TurnIf(r, r.line # 1)
  <2>1. t.line = 1
    <3>1. (r.line # 1 => t.line = 1) /\ (~(r.line # 1) => t = r)
      BY <1>1, TurnQuiet
    <3> QED
      BY <3>1
  <2>2. u.line = 1
    BY <1>2, <1>5, <2>1
  <2> QED
    BY <1>4, <1>5, <2>2 DEF u, Leaves
<1>6. CASE b.kind = "center"
  <2>1. ~(r.line > Bottom(r))
    <3>1. Bottom(r) = LinesPerPage
      BY <1>1, BottomIs
    <3> QED
      BY <1>4, <3>1
  <2>2. u = Draw(r, 1, i, Label(b))
    BY <1>2, <1>6, <2>1 DEF EmitCenter, Advance, TurnIf
  <2>3. u.page = r.page /\ u.line = r.line + 1 /\ u.drawn = Append(r.drawn, Mark(r, r.line, 1, i, Label(b)))
    BY <1>1, <2>2, DrawIs
  <2>4. u.drawn[Len(s.drawn) + 1].page = r.page
    <3>1. u.drawn[Len(s.drawn) + 1] = Mark(r, r.line, 1, i, Label(b))
      BY <1>1, <2>3, Appended DEF SheetOk
    <3> QED
      BY <3>1 DEF Mark
  <2>5. Len(ToDraw(b)) = 1
    BY <1>6 DEF ToDraw, SignKinds
  <2>6. u.line + rest - 1 <= LinesPerPage
    BY <1>4, <2>3
  <2>7. \A j \in 1 .. Len(ToDraw(b)) : u.drawn[Len(s.drawn) + j].page = r.page
    BY <2>4, <2>5
  <2> QED
    BY <2>3, <2>6, <2>7 DEF u, Leaves
<1>7. CASE b.kind \in TextKinds
  <2> DEFINE ws == b.words  v == EmitText(bs, i, r)
  <2>1. ~TurnsBefore(bs, i, r)
    BY <1>1, <1>7, NoTurn
  <2>2. r = TurnIf(r, TurnsBefore(bs, i, r))
    BY <2>1 DEF TurnIf
  <2>3. GridLines(b) = Len(ws) + 1 /\ Len(ws) \in Nat /\ IsSeq(ws)
    BY <1>7, GridIs DEF BlockOk
  <2>4. r.line + Len(ws) - 1 <= LinesPerPage
    BY <1>4, <2>3
  <2>5. Len(ws) \in 0 .. Len(ws) /\ HasRoom(r, ws, Len(ws))
    BY <1>1, <2>3, <2>4, WholeRoom
  <2>6. /\ \A j \in 1 .. Len(ws) : v.drawn[Len(r.drawn) + j].page = r.page
        /\ v.page = r.page /\ v.line <= r.line + Len(ws) + 1
    <3>1. Goes(r, r, v, Len(ws), Len(ws))
      BY <1>1, <1>7, <2>2, <2>5, TextGoes
    <3> QED
      BY <3>1 DEF Goes
  <2>7. u = v /\ ToDraw(b) = ws
    BY <1>2, <1>7 DEF ToDraw, TextKinds, SignKinds
  <2>8. SheetOk(u) /\ u.line \in Nat
    <3>1. SheetOk(Emitted(bs, i, s))
      BY EmittedOk DEF Puts1
    <3> QED
      BY <3>1 DEF SheetOk, u
  <2> HIDE DEF v, ws
  <2>9. u.line + rest - 1 <= LinesPerPage
    BY <1>4, <2>3, <2>6, <2>7, <2>8
  <2>10. \A j \in 1 .. Len(ToDraw(b)) : u.drawn[Len(s.drawn) + j].page = r.page
    BY <1>1, <2>6, <2>7
  <2>11. u.page = r.page
    BY <2>6, <2>7
  <2> QED
    BY <2>9, <2>10, <2>11 DEF u, Leaves
<1> QED
  BY <1>3, <1>5, <1>6, <1>7

\* Under a heading there are the lines it was given room for.
LEMMA HeadRoom ==
  ASSUME NEW bs, NEW s, SheetOk(s), s.notes = << >>, NEW i, BlockOk(bs[i]), Quiet(bs[i]),
         bs[i].kind = "heading", i # Len(bs), bs[i].words # << >>, Len(bs[i].words) <= FollowingLines
  PROVE  LET u == Emitted(bs, i, s)  w == Len(bs[i].words) IN
         /\ u.line + FollowingLines - w <= LinesPerPage
         /\ u.drawn[Len(s.drawn) + w].page = u.page
<1> DEFINE b == bs[i]  ws == b.words  w == Len(ws)  c == TurnIf(s, BreaksGroup(bs, i, s))
           r == TurnIf(c, TurnsBefore(bs, i, c))  u == EmitText(bs, i, c)
<1>1. Emitted(bs, i, s) = u
  BY DEF Emitted, SignKinds
<1>2. b.kind \in TextKinds
  BY DEF TextKinds
<1>3. SheetOk(c) /\ c.notes = << >> /\ c.drawn = s.drawn
  BY TurnQuiet
<1> HIDE DEF c
<1>4. SheetOk(r) /\ r.notes = << >> /\ r.drawn = c.drawn /\ (TurnsBefore(bs, i, c) => r.line = 1) /\ (~TurnsBefore(bs, i, c) => r = c)
  BY <1>3, TurnQuiet
<1>5. w \in Nat /\ IsSeq(ws) /\ w # 0
  <2>1. IsSeq(ws) /\ w \in Nat
    BY SeqIs DEF BlockOk
  <2>2. w = 0 => ws = << >>
    BY <2>1, NoneSeq, SeqEq
  <2> QED
    BY <2>1, <2>2
<1>6. LinesPerPage \in Nat /\ FollowingLines \in Nat \ {0} /\ FollowingLines + 3 <= LinesPerPage
  <2>1. {LinesPerPage, SignLines, MaxLeads, LeadLines, FollowingLines} \subseteq Nat \ {0}
        /\ MaxLeads * LeadLines + SignLines + 1 <= LinesPerPage /\ FollowingLines < SignLines
    BY PageAssumption
  <2>2. MaxLeads * LeadLines \in Nat \ {0}
    BY <2>1
  <2> QED
    BY <2>1, <2>2
<1>7. Bottom(c) = LinesPerPage
  BY <1>3, BottomIs
<1>8. c.line \in Nat \ {0} /\ r.line \in Nat \ {0}
  BY <1>3, <1>4 DEF SheetOk
<1>9. r.line + FollowingLines + 1 <= LinesPerPage
  <2>1. CASE r.line = 1
    BY <1>6, <2>1
  <2>2. CASE r.line # 1
    <3>1. r = c /\ ~TurnsBefore(bs, i, c)
      BY <1>4, <2>2
    <3>2. c.line + (2 + FollowingLines) - 1 <= LinesPerPage
      BY <1>7, <2>2, <3>1 DEF TurnsBefore
    <3> QED
      BY <1>6, <1>8, <3>1, <3>2
  <2> QED
    BY <2>1, <2>2
<1>10. r.line + w - 1 <= LinesPerPage
  BY <1>5, <1>6, <1>8, <1>9
<1>11. w \in 0 .. w /\ HasRoom(r, ws, w)
  BY <1>4, <1>5, <1>10, WholeRoom
<1>12. /\ \A j \in 1 .. w : u.drawn[Len(c.drawn) + j].page = r.page
       /\ u.page = r.page /\ u.line <= r.line + w + 1
  <2>1. Goes(c, r, u, w, w)
    BY <1>2, <1>3, <1>11, TextGoes
  <2> QED
    BY <2>1 DEF Goes
<1>13. SheetOk(u) /\ u.line \in Nat
  <2>1. SheetOk(Emitted(bs, i, s))
    BY EmittedOk DEF Puts1
  <2> QED
    BY <1>1, <2>1 DEF SheetOk
<1> HIDE DEF r, u, w
<1>14. u.line + FollowingLines - w <= LinesPerPage
  <2>1. w <= FollowingLines
    BY DEF w
  <2> QED
    BY <1>5, <1>6, <1>8, <1>9, <1>12, <1>13, <2>1
<1>15. w \in 1 .. w
  BY <1>5
<1>16. u.drawn[Len(s.drawn) + w].page = u.page
  BY <1>3, <1>12, <1>15
<1> QED
  BY <1>1, <1>14, <1>16 DEF w

\* And text that goes anywhere takes them.
LEMMA UnderHead ==
  ASSUME NEW bs, NEW s, SheetOk(s), s.notes = << >>, NEW i, BlockOk(bs[i]), Quiet(bs[i]),
         Unbound(bs, i), bs[i].words # << >>, NEW spare \in Nat, s.line + spare <= LinesPerPage
  PROVE  \A j \in 0 .. spare : j < Len(bs[i].words) => Emitted(bs, i, s).drawn[Len(s.drawn) + 1 + j].page = s.page
<1> DEFINE b == bs[i]  ws == b.words  n == Len(ws)  u == EmitText(bs, i, s)
           m == IF n <= spare THEN n ELSE spare + 1
<1>1. b.kind \in TextKinds \ {"heading"} /\ ToSet(ws) \cap (Ties \cup Colons) = {}
  BY DEF Unbound
<1>2. ~BreaksGroup(bs, i, s)
  BY DEF BreaksGroup, Unbound
<1>3. Emitted(bs, i, s) = u
  BY <1>1, <1>2 DEF Emitted, SignKinds, TextKinds, TurnIf
<1>4. n \in Nat /\ IsSeq(ws) /\ n # 0 /\ DOMAIN ws = 1 .. n
  <2>1. IsSeq(ws) /\ n \in Nat /\ DOMAIN ws = 1 .. n
    BY SeqIs DEF BlockOk
  <2>2. n = 0 => ws = << >>
    BY <2>1, NoneSeq, SeqEq
  <2> QED
    BY <2>1, <2>2
<1>5. \A k \in 1 .. n : ws[k] \notin Ties /\ ws[k] \notin Colons
  BY <1>1, <1>4 DEF ToSet
<1>6. ~TurnsBefore(bs, i, s)
  <2>1. b.words[Len(b.words)] \notin Colons
    BY <1>4, <1>5
  <2>2. ~\E k \in DOMAIN b.words : Tied(b.words, k)
    BY <1>4, <1>5 DEF Tied
  <2> QED
    BY <1>1, <2>1, <2>2 DEF TurnsBefore
<1>7. s = TurnIf(s, TurnsBefore(bs, i, s))
  BY <1>6 DEF TurnIf
<1>8. m \in 0 .. n /\ m <= spare + 1 /\ m \in Nat
  BY <1>4
<1>9. HasRoom(s, ws, m)
  <2>1. s.line \in Nat \ {0} /\ LinesPerPage \in Nat
    BY PageAssumption DEF SheetOk
  <2> SUFFICES ASSUME NEW k \in 1 .. m PROVE s.line + (k - 1) + KeepRun(ws, k) - 1 <= LinesPerPage
    BY DEF HasRoom
  <2>2. k \in 1 .. n
    BY <1>4, <1>8
  <2>3. KeepRun(ws, k) = 1
    BY <1>4, <1>5, <2>2, RunIs
  <2>4. k <= spare + 1
    BY <1>8
  <2> QED
    BY <2>1, <2>2, <2>3, <2>4
<1>10. \A j \in 1 .. m : u.drawn[Len(s.drawn) + j].page = s.page
  <2>1. Goes(s, s, u, n, m)
    BY <1>1, <1>7, <1>8, <1>9, TextGoes
  <2> QED
    BY <2>1 DEF Goes
<1>11. Len(s.drawn) \in Nat
  BY SeqIs DEF SheetOk
<1> HIDE DEF u
<1>12. ASSUME NEW j \in 0 .. spare, j < n PROVE u.drawn[Len(s.drawn) + 1 + j].page = s.page
  <2>1. j + 1 \in 1 .. m
    BY <1>4, <1>12
  <2>2. ASSUME NEW a \in Nat PROVE a + 1 + j = a + (j + 1)
    OBVIOUS
  <2>3. Len(s.drawn) + 1 + j = Len(s.drawn) + (j + 1)
    BY <1>11, <2>2
  <2> QED
    BY <1>10, <2>1, <2>3
<1> QED
  BY <1>3, <1>12

-----------------------------------------------------------------------------
(* What is kept together of a group.                                       *)

\* The lines that a group takes from its block p + 1 on.
Needs(bs, g, p) == LinesUpTo(bs)[g[2] - 1] - LinesUpTo(bs)[p] + SignNeeded(bs[g[2]])

\* What is drawn of a group is on the page that is being filled.
InOne(bs, s, g, p) ==
  \A k \in 1 .. Len(s.drawn) :
    s.drawn[k].block \in g[1] .. p /\ Unbroken(bs, s.drawn[k].block, p) => s.drawn[k].page = s.page

\* And the rest of it fits there.
HalfKept(bs, s, g, p) == s.line + Needs(bs, g, p) - 1 <= LinesPerPage /\ InOne(bs, s, g, p)

\* A group that is drawn is on one page.
WholeKept(bs, s, g) ==
  \A k, m \in 1 .. Len(s.drawn) :
    /\ s.drawn[m].block = g[2] /\ s.drawn[k].block \in g[1] .. g[2] - 1 /\ Unbroken(bs, s.drawn[k].block, g[2] - 1)
    => s.drawn[k].page = s.drawn[m].page

GroupKept(bs, s, g, p) ==
  /\ g[1] <= p /\ p < g[2] => HalfKept(bs, s, g, p)
  /\ g[2] <= p => WholeKept(bs, s, g)

LEMMA SignHeight ==
  ASSUME NEW b, BlockOk(b), b.kind \in SignKinds
  PROVE  /\ SignNeeded(b) \in Nat /\ SignNeeded(b) > FollowingLines
         /\ LET h == IF b.kind = "sign" THEN SignLines + b.n ELSE SignNeeded(b) IN h \in Nat /\ h <= SignNeeded(b)
<1>1. SignLines \in Nat /\ FollowingLines \in Nat /\ FollowingLines < SignLines
  BY PageAssumption
<1>2. CASE b.kind = "sign"
  BY <1>1, <1>2 DEF BlockOk, SignNeeded
<1>3. CASE b.kind = "judge"
  BY <1>1, <1>3 DEF SignNeeded
<1>4. CASE b.kind = "seal"
  BY <1>1, <1>4 DEF BlockOk, SignNeeded
<1> QED
  BY <1>2, <1>3, <1>4 DEF SignKinds

RestIs(bs, g, i) ==
  /\ i \in 1 .. Len(bs)
  /\ Needs(bs, g, i) \in Nat /\ Needs(bs, g, i) > FollowingLines
  /\ Needs(bs, g, i - 1) = GridLines(bs[i]) + Needs(bs, g, i)
  /\ i + 1 < g[2] => i + 1 \in 1 .. Len(bs) /\ GridLines(bs[i + 1]) \in Nat /\ GridLines(bs[i + 1]) <= Needs(bs, g, i)

LEMMA NeedsIs ==
  ASSUME NEW bs, BlocksOk(bs), NEW g \in KeepGroups(bs)
  PROVE  /\ g[1] \in 1 .. Len(bs) /\ g[2] \in 1 .. Len(bs) /\ g[1] < g[2] /\ Len(bs) \in Nat
         /\ bs[g[2]].kind \in SignKinds /\ \A i \in g[1] .. g[2] - 1 : bs[i].kind \notin SignKinds
         /\ GroupLines(bs, g) = Needs(bs, g, g[1] - 1)
         /\ Needs(bs, g, g[2] - 1) = SignNeeded(bs[g[2]])
         /\ \A i \in g[1] .. g[2] - 1 : RestIs(bs, g, i)
<1> DEFINE h == LinesUpTo(bs)  n == Len(bs)
<1>1. IsSeq(bs) /\ n \in Nat /\ \A k \in 1 .. n : BlockOk(bs[k])
  BY SeqIs DEF BlocksOk
<1>2. GroupIs(bs, g)
  BY <1>1, GroupsApart
<1>3. g[1] \in 1 .. n /\ g[2] \in 1 .. n /\ g[1] < g[2] /\ bs[g[2]].kind \in SignKinds
      /\ \A i \in g[1] .. g[2] - 1 : bs[i].kind \notin SignKinds
  BY <1>2 DEF GroupIs
<1>4. /\ \A k \in 0 .. n : h[k] \in Nat
      /\ \A k \in 1 .. n : h[k] = h[k - 1] + GridLines(bs[k])
      /\ \A k \in 0 .. n : \A j \in 0 .. k : h[j] <= h[k]
  BY LinesGrow
<1>5. \A k \in 1 .. n : GridLines(bs[k]) \in Nat \ {0}
  BY <1>1, GridIs
<1> DEFINE sn == SignNeeded(bs[g[2]])  a == g[1]  z == g[2]
<1>6. sn \in Nat /\ sn > FollowingLines /\ FollowingLines \in Nat
  BY <1>1, <1>3, SignHeight, PageAssumption
<1> HIDE DEF h, sn
<1>7. \A p : Needs(bs, g, p) = h[z - 1] - h[p] + sn
  BY DEF Needs, h, sn
<1>8. GroupLines(bs, g) = h[z - 1] - h[a - 1] + sn
  BY DEF GroupLines, Total, h, sn
<1>9. Needs(bs, g, z - 1) = sn
  <2>1. h[z - 1] \in Nat
    BY <1>1, <1>3, <1>4
  <2> QED
    BY <1>6, <1>7, <2>1
<1>10. ASSUME NEW i \in a .. z - 1 PROVE RestIs(bs, g, i)
  <2>1. i \in 1 .. n /\ i - 1 \in 0 .. n /\ i \in 0 .. z - 1 /\ z - 1 \in 0 .. n /\ i \in 0 .. n
    BY <1>1, <1>3
  <2>2. h[i] \in Nat /\ h[z - 1] \in Nat /\ h[i] <= h[z - 1] /\ h[i] = h[i - 1] + GridLines(bs[i]) /\ h[i - 1] \in Nat
        /\ GridLines(bs[i]) \in Nat
    BY <1>4, <1>5, <2>1
  <2>3. Needs(bs, g, i) \in Nat /\ Needs(bs, g, i) > FollowingLines
    BY <1>6, <1>7, <2>2
  <2>4. Needs(bs, g, i - 1) = GridLines(bs[i]) + Needs(bs, g, i)
    BY <1>6, <1>7, <2>2
  <2>5. ASSUME i + 1 < z PROVE i + 1 \in 1 .. n /\ GridLines(bs[i + 1]) \in Nat /\ GridLines(bs[i + 1]) <= Needs(bs, g, i)
    <3>1. i + 1 \in 1 .. n /\ i + 1 \in 0 .. z - 1 /\ (i + 1) - 1 = i
      BY <1>1, <1>3, <2>1, <2>5
    <3>2. h[i + 1] \in Nat /\ h[i + 1] <= h[z - 1] /\ h[i + 1] = h[(i + 1) - 1] + GridLines(bs[i + 1]) /\ GridLines(bs[i + 1]) \in Nat
      BY <1>1, <1>4, <1>5, <2>1, <3>1
    <3>3. h[i + 1] = h[i] + GridLines(bs[i + 1])
      BY <3>1, <3>2
    <3> QED
      <4>1. ASSUME NEW A \in Nat, NEW B \in Nat, NEW C \in Nat, NEW G \in Nat, A = B + G, A <= C PROVE G <= C - B + sn
        BY <1>6, <4>1
      <4>2. GridLines(bs[i + 1]) <= h[z - 1] - h[i] + sn
        BY <2>2, <3>2, <3>3, <4>1
      <4> QED
        BY <1>7, <3>1, <3>2, <4>2
  <2> QED
    BY <2>1, <2>3, <2>4, <2>5 DEF RestIs
<1>11. GroupLines(bs, g) = Needs(bs, g, a - 1)
  BY <1>7, <1>8
<1> QED
  BY <1>1, <1>3, <1>9, <1>10, <1>11 DEF sn

\* A mark is an old one, or one of the block.
OldOrNew(s, u, i, n, k) ==
  \/ k \in 1 .. Len(s.drawn) /\ u.drawn[k] = s.drawn[k]
  \/ \E j \in 1 .. n : k = Len(s.drawn) + j /\ u.drawn[k].block = i

LEMMA MarkIs ==
  ASSUME NEW s, NEW u, NEW i, NEW ws, NEW n \in Nat, IsSeq(s.drawn), Adds(s, u, i, ws, n), NEW k \in 1 .. Len(u.drawn)
  PROVE  OldOrNew(s, u, i, n, k)
<1>1. Len(s.drawn) \in Nat /\ Len(u.drawn) = Len(s.drawn) + n
  BY SeqIs DEF Adds
<1>2. CASE k \in 1 .. Len(s.drawn)
  BY <1>2 DEF Adds, OldOrNew
<1>3. CASE k \notin 1 .. Len(s.drawn)
  <2> DEFINE j == k - Len(s.drawn)
  <2>1. j \in 1 .. n /\ k = Len(s.drawn) + j
    BY <1>1, <1>3
  <2>2. u.drawn[Len(s.drawn) + j].block = i
    BY <2>1 DEF Adds
  <2> QED
    BY <2>1, <2>2 DEF OldOrNew
<1> QED
  BY <1>2, <1>3

\* What a block that is drawn has added.
LEMMA DrawsBlock ==
  ASSUME NEW bs, NEW s, SheetOk(s), NEW i, BlockOk(bs[i])
  PROVE  LET u == Emitted(bs, i, s)  n == Len(ToDraw(bs[i])) IN
         SheetOk(u) /\ Adds(s, u, i, ToDraw(bs[i]), n) /\ n \in Nat /\ IsSeq(s.drawn) /\ Len(s.drawn) \in Nat /\ Len(u.drawn) = Len(s.drawn) + n
<1> DEFINE u == Emitted(bs, i, s)  n == Len(ToDraw(bs[i]))
<1>1. SheetOk(u) /\ Adds(s, u, i, ToDraw(bs[i]), n)
  BY EmittedOk DEF Puts1
<1>2. n \in Nat
  BY ToDrawSeq, SeqIs
<1>3. IsSeq(s.drawn) /\ Len(s.drawn) \in Nat
  BY SeqIs DEF SheetOk
<1> QED
  BY <1>1, <1>2, <1>3 DEF Adds

\* One more block of a group.
LEMMA HalfMore ==
  ASSUME NEW bs, BlocksOk(bs), Unnoted(bs), NEW g \in KeepGroups(bs), FitsPage(bs, g), NEW i \in g[1] .. g[2] - 1,
         NEW s, SheetOk(s), s.notes = << >>, \A k \in 1 .. Len(s.drawn) : s.drawn[k].block \in 1 .. i - 1,
         NEW r, r = TurnIf(s, BreaksGroup(bs, i, s)), r.line + Needs(bs, g, i - 1) - 1 <= LinesPerPage,
         i # g[1] => r = s /\ InOne(bs, s, g, i - 1)
  PROVE  HalfKept(bs, Emitted(bs, i, s), g, i)
<1> DEFINE b == bs[i]  u == Emitted(bs, i, s)  rest == Needs(bs, g, i)  n == Len(ToDraw(b))
<1>1. /\ g[1] \in 1 .. Len(bs) /\ g[2] \in 1 .. Len(bs) /\ g[1] < g[2] /\ Len(bs) \in Nat
      /\ bs[g[2]].kind \in SignKinds /\ b.kind \notin SignKinds
      /\ i \in 1 .. Len(bs) /\ rest \in Nat /\ rest > FollowingLines
      /\ Needs(bs, g, i - 1) = GridLines(b) + rest
      /\ i + 1 < g[2] => GridLines(bs[i + 1]) \in Nat /\ GridLines(bs[i + 1]) <= rest
  BY NeedsIs DEF RestIs
<1>2. BlockOk(b) /\ Quiet(b)
  BY <1>1, QuietIs DEF BlocksOk
<1>3. b.kind \notin SignKinds \cup {"table", "fixed"}
  BY <1>1 DEF FitsPage
<1>4. i # Len(bs) /\ bs[i + 1].kind \in ListKinds => GridLines(bs[i + 1]) \in Nat /\ GridLines(bs[i + 1]) <= rest
  <2>1. bs[i + 1].kind \in ListKinds => i + 1 # g[2]
    BY <1>1 DEF ListKinds, SignKinds
  <2>2. i + 1 # g[2] => i + 1 < g[2]
    BY <1>1
  <2> QED
    BY <1>1, <2>1, <2>2
<1>5. r.line + GridLines(b) + rest - 1 <= LinesPerPage
  <2>1. r.line \in Nat /\ GridLines(b) \in Nat /\ LinesPerPage \in Nat
    <3>1. SheetOk(r)
      BY TurnQuiet
    <3> QED
      BY <1>2, <3>1, GridIs, PageAssumption DEF SheetOk
  <2> QED
    BY <1>1, <2>1
<1>6. /\ u.line + rest - 1 <= LinesPerPage
      /\ b.kind # "pagebreak" => u.page = r.page /\ \A j \in 1 .. n : u.drawn[Len(s.drawn) + j].page = r.page
  <2>1. Leaves(bs, i, s, r, u, rest)
    BY <1>1, <1>2, <1>3, <1>4, <1>5, RoomKept
  <2> QED
    BY <2>1 DEF Leaves
<1>7. Adds(s, u, i, ToDraw(b), n) /\ n \in Nat /\ IsSeq(s.drawn)
  BY <1>2, DrawsBlock
<1> HIDE DEF u, n, rest
<1>8. ASSUME NEW k \in 1 .. Len(u.drawn), u.drawn[k].block \in g[1] .. i, Unbroken(bs, u.drawn[k].block, i)
      PROVE  u.drawn[k].page = u.page
  <2>1. b.kind # "pagebreak"
    <3>1. i \in u.drawn[k].block .. i
      BY <1>1, <1>8
    <3> QED
      BY <1>8, <3>1 DEF Unbroken
  <2>2. u.page = r.page /\ \A j \in 1 .. n : u.drawn[Len(s.drawn) + j].page = r.page
    BY <1>6, <2>1
  <2>3. CASE k \in 1 .. Len(s.drawn) /\ u.drawn[k] = s.drawn[k]
    <3>1. s.drawn[k].block \in 1 .. i - 1 /\ s.drawn[k].block \in g[1] .. i
      BY <1>8, <2>3
    <3>2. i # g[1] /\ s.drawn[k].block \in g[1] .. i - 1
      BY <1>1, <3>1
    <3>3. Unbroken(bs, s.drawn[k].block, i - 1)
      <4>1. \A j \in s.drawn[k].block .. i - 1 : j \in s.drawn[k].block .. i
        BY <1>1, <3>1
      <4> QED
        BY <1>8, <2>3, <4>1 DEF Unbroken
    <3>4. r = s /\ s.drawn[k].page = s.page
      BY <2>3, <3>2, <3>3 DEF InOne
    <3> QED
      BY <2>2, <2>3, <3>4
  <2>4. CASE \E j \in 1 .. n : k = Len(s.drawn) + j
    BY <2>2, <2>4
  <2>5. OldOrNew(s, u, i, n, k)
    BY <1>7, MarkIs
  <2> QED
    BY <2>3, <2>4, <2>5 DEF OldOrNew
<1>9. InOne(bs, u, g, i)
  BY <1>8 DEF InOne
<1> QED
  BY <1>6, <1>9 DEF HalfKept, u, rest

\* No page is turned in the middle of a group for another one.
LEMMA NoBreak ==
  ASSUME NEW bs, IsSeq(bs), NEW g \in KeepGroups(bs), NEW i \in g[1] + 1 .. g[2], NEW s
  PROVE  TurnIf(s, BreaksGroup(bs, i, s)) = s
<1>1. GroupIs(bs, g) /\ \A h \in KeepGroups(bs) : h # g => h[1] \notin g[1] .. g[2]
  BY GroupsApart
<1>2. i \in g[1] .. g[2] /\ i # g[1]
  BY <1>1 DEF GroupIs
<1>3. ~BreaksGroup(bs, i, s)
  BY <1>1, <1>2 DEF BreaksGroup
<1> QED
  BY <1>3 DEF TurnIf

\* The signature is drawn where the rest of its group is.
LEMMA HalfWhole ==
  ASSUME NEW bs, BlocksOk(bs), NEW g \in KeepGroups(bs),
         NEW s, SheetOk(s), s.notes = << >>, \A k \in 1 .. Len(s.drawn) : s.drawn[k].block \in 1 .. g[2] - 1,
         HalfKept(bs, s, g, g[2] - 1)
  PROVE  WholeKept(bs, Emitted(bs, g[2], s), g)
<1> DEFINE i == g[2]  b == bs[i]  u == Emitted(bs, i, s)  n == Len(ToDraw(b))
           h == IF b.kind = "sign" THEN SignLines + b.n ELSE SignNeeded(b)
<1>1. i \in 1 .. Len(bs) /\ g[1] < i /\ g[1] \in 1 .. Len(bs) /\ b.kind \in SignKinds /\ Needs(bs, g, i - 1) = SignNeeded(b) /\ Len(bs) \in Nat
  BY NeedsIs
<1>2. IsSeq(bs) /\ BlockOk(b)
  BY <1>1 DEF BlocksOk
<1>3. u = EmitSign(b, i, s)
  <2>1. i \in g[1] + 1 .. g[2]
    BY <1>1
  <2>2. TurnIf(s, BreaksGroup(bs, i, s)) = s
    BY <1>2, <2>1, NoBreak
  <2> QED
    BY <1>1, <2>2 DEF Emitted, SignKinds
<1>4. ~(s.line + h - 1 > LinesPerPage)
  <2>1. h \in Nat /\ h <= SignNeeded(b) /\ SignNeeded(b) \in Nat
    BY <1>1, <1>2, SignHeight
  <2>2. s.line + SignNeeded(b) - 1 <= LinesPerPage
    BY <1>1 DEF HalfKept
  <2>3. s.line \in Nat /\ LinesPerPage \in Nat
    BY PageAssumption DEF SheetOk
  <2> HIDE DEF h
  <2> QED
    BY <2>1, <2>2, <2>3
<1>5. u.page = s.page /\ u.drawn[Len(s.drawn) + 1].page = s.page
  <2> HIDE DEF u
  <2>1. h = IF b.kind = "sign" THEN SignLines + b.n ELSE SignNeeded(b)
    OBVIOUS
  <2> HIDE DEF h, b
  <2> DEFINE v == EmitSign(b, i, s)
  <2>2. /\ v.notes = << >>
        /\ ~(s.line + h - 1 > LinesPerPage) => v.page = s.page /\ v.drawn[Len(s.drawn) + 1].page = s.page
    BY <2>1, SignGoes
  <2> HIDE DEF v
  <2>3. u = v
    BY <1>3 DEF v
  <2> QED
    BY <1>4, <2>2, <2>3
<1>6. n = 1 /\ Adds(s, u, i, ToDraw(b), n) /\ IsSeq(s.drawn)
  <2>1. n = 1
    BY <1>1 DEF ToDraw, SignKinds
  <2> QED
    BY <1>2, <2>1, DrawsBlock
<1>11. 1 \in Nat
  OBVIOUS
<1> HIDE DEF u, n
<1>7. \A k \in 1 .. Len(u.drawn) :
        \/ k \in 1 .. Len(s.drawn) /\ u.drawn[k] = s.drawn[k]
        \/ k = Len(s.drawn) + 1 /\ u.drawn[k].block = i
  <2> SUFFICES ASSUME NEW k \in 1 .. Len(u.drawn)
               PROVE  \/ k \in 1 .. Len(s.drawn) /\ u.drawn[k] = s.drawn[k]
                      \/ k = Len(s.drawn) + 1 /\ u.drawn[k].block = i
    OBVIOUS
  <2>1. OldOrNew(s, u, i, 1, k)
    BY <1>6, <1>11, MarkIs
  <2> QED
    BY <2>1 DEF OldOrNew
<1>8. ASSUME NEW k \in 1 .. Len(u.drawn), NEW m \in 1 .. Len(u.drawn),
             u.drawn[m].block = i, u.drawn[k].block \in g[1] .. i - 1, Unbroken(bs, u.drawn[k].block, i - 1)
      PROVE  u.drawn[k].page = u.drawn[m].page
  <2>1. u.drawn[k].block # i
    BY <1>1, <1>8
  <2>2. k \in 1 .. Len(s.drawn) /\ u.drawn[k] = s.drawn[k]
    BY <1>7, <2>1
  <2>3. u.drawn[k].page = s.page
    BY <1>8, <2>2 DEF HalfKept, InOne
  <2>4. ~(m \in 1 .. Len(s.drawn) /\ u.drawn[m] = s.drawn[m])
    <3>1. i \notin 1 .. i - 1
      BY <1>1
    <3> QED
      BY <1>8, <3>1
  <2>5. u.drawn[m].page = s.page
    BY <1>5, <1>7, <2>4
  <2> QED
    BY <2>3, <2>5
<1> QED
  BY <1>8 DEF WholeKept, u

\* The blocks up to p are drawn.
Upon(s, p) == SheetOk(s) /\ s.notes = << >> /\ \A k \in 1 .. Len(s.drawn) : s.drawn[k].block \in 1 .. p

\* A block more, of a group or not.
LEMMA GroupMore ==
  ASSUME NEW bs, BlocksOk(bs), Unnoted(bs), NEW g \in KeepGroups(bs), FitsPage(bs, g),
         NEW p \in Nat, p < Len(bs), NEW s, Upon(s, p), GroupKept(bs, s, g, p)
  PROVE  GroupKept(bs, Emitted(bs, p + 1, s), g, p + 1)
<1> DEFINE i == p + 1  u == Emitted(bs, i, s)  n == Len(ToDraw(bs[i]))
<1>1. /\ g[1] \in 1 .. Len(bs) /\ g[2] \in 1 .. Len(bs) /\ g[1] < g[2] /\ Len(bs) \in Nat
      /\ GroupLines(bs, g) = Needs(bs, g, g[1] - 1)
  BY NeedsIs
<1>2. i \in 1 .. Len(bs) /\ i - 1 = p /\ IsSeq(bs) /\ BlockOk(bs[i])
  <2>1. i \in 1 .. Len(bs) /\ i - 1 = p
    BY <1>1
  <2> QED
    BY <2>1 DEF BlocksOk
<1>3. SheetOk(s) /\ s.notes = << >> /\ \A k \in 1 .. Len(s.drawn) : s.drawn[k].block \in 1 .. i - 1
  BY <1>2 DEF Upon
<1>4. Adds(s, u, i, ToDraw(bs[i]), n) /\ n \in Nat /\ IsSeq(s.drawn)
  BY <1>2, <1>3, DrawsBlock
<1>5. CASE g[2] <= p
  <2> HIDE DEF u, n
  <2>1. ASSUME NEW k \in 1 .. Len(u.drawn), u.drawn[k].block <= p
        PROVE  k \in 1 .. Len(s.drawn) /\ u.drawn[k] = s.drawn[k]
    <3>1. OldOrNew(s, u, i, n, k)
      BY <1>4, MarkIs
    <3>2. u.drawn[k].block # i
      BY <2>1
    <3> QED
      BY <3>1, <3>2 DEF OldOrNew
  <2>2. WholeKept(bs, s, g)
    BY <1>5 DEF GroupKept
  <2>3. ASSUME NEW k \in 1 .. Len(u.drawn), NEW m \in 1 .. Len(u.drawn),
               u.drawn[m].block = g[2], u.drawn[k].block \in g[1] .. g[2] - 1, Unbroken(bs, u.drawn[k].block, g[2] - 1)
        PROVE  u.drawn[k].page = u.drawn[m].page
    <3>1. u.drawn[m].block <= p /\ u.drawn[k].block <= p
      BY <1>1, <1>5, <2>3
    <3>2. m \in 1 .. Len(s.drawn) /\ u.drawn[m] = s.drawn[m] /\ k \in 1 .. Len(s.drawn) /\ u.drawn[k] = s.drawn[k]
      BY <2>1, <3>1
    <3> QED
      BY <2>2, <2>3, <3>2 DEF WholeKept
  <2>4. WholeKept(bs, u, g)
    BY <2>3 DEF WholeKept
  <2>5. ~(i < g[2])
    BY <1>1, <1>5
  <2> QED
    BY <2>4, <2>5 DEF GroupKept, u
<1>6. CASE g[2] = i
  <2>1. g[1] <= p /\ p < g[2] /\ g[2] - 1 = p
    BY <1>1, <1>6
  <2>2. HalfKept(bs, s, g, g[2] - 1)
    BY <2>1 DEF GroupKept
  <2>3. WholeKept(bs, Emitted(bs, g[2], s), g)
    BY <1>2, <1>3, <1>6, <2>2, HalfWhole
  <2>4. ~(i < g[2])
    BY <1>1, <1>6
  <2> HIDE DEF i
  <2> QED
    BY <1>6, <2>3, <2>4 DEF GroupKept, i
<1>7. CASE g[1] <= i /\ i < g[2]
  <2> DEFINE r == TurnIf(s, BreaksGroup(bs, i, s))
  <2>1. i \in g[1] .. g[2] - 1
    BY <1>1, <1>7
  <2>2. ASSUME i # g[1] PROVE r = s /\ HalfKept(bs, s, g, i - 1)
    <3>1. g[1] <= p /\ p < g[2] /\ i \in g[1] + 1 .. g[2]
      BY <1>1, <1>7, <2>2
    <3>2. HalfKept(bs, s, g, i - 1)
      BY <1>2, <3>1 DEF GroupKept
    <3>3. r = s
      BY <1>2, <3>1, NoBreak
    <3> QED
      BY <3>2, <3>3
  <2>3. ASSUME i = g[1] PROVE r.line + Needs(bs, g, i - 1) - 1 <= LinesPerPage
    <3> DEFINE need == GroupLines(bs, g)
    <3>1. need = Needs(bs, g, i - 1) /\ need <= LinesPerPage
      BY <1>1, <2>3 DEF FitsPage
    <3>2. /\ BreaksGroup(bs, i, s) => r.line = 1
          /\ ~BreaksGroup(bs, i, s) => r = s
      BY <1>3, TurnQuiet
    <3>3. Bottom(s) = LinesPerPage
      BY <1>3, BottomIs
    <3>4. ~BreaksGroup(bs, i, s) => s.line = 1 \/ ~(s.line + need - 1 > LinesPerPage)
      BY <2>3, <3>1, <3>3 DEF BreaksGroup
    <3>5. need \in Nat
      <4>1. RestIs(bs, g, g[1]) /\ g[1] \in 1 .. Len(bs)
        <5>1. g[1] \in g[1] .. g[2] - 1
          BY <1>1
        <5> QED
          BY <1>1, <5>1, NeedsIs
      <4>2. GridLines(bs[g[1]]) \in Nat
        BY <4>1, GridIs DEF BlocksOk
      <4> QED
        BY <1>1, <4>1, <4>2 DEF RestIs
    <3>6. s.line \in Nat /\ LinesPerPage \in Nat
      BY <1>3, PageAssumption DEF SheetOk
    <3> HIDE DEF r, need
    <3>7. r.line + need - 1 <= LinesPerPage
      <4>1. CASE r.line = 1
        BY <3>1, <3>5, <3>6, <4>1
      <4>2. CASE r.line # 1
        BY <3>2, <3>4, <3>5, <3>6, <4>2
      <4> QED
        BY <4>1, <4>2
    <3> QED
      BY <3>1, <3>7
  <2>4. r.line + Needs(bs, g, i - 1) - 1 <= LinesPerPage
    BY <2>2, <2>3 DEF HalfKept
  <2>5. i # g[1] => r = s /\ InOne(bs, s, g, i - 1)
    BY <2>2 DEF HalfKept
  <2> HIDE DEF i
  <2>6. HalfKept(bs, u, g, i)
    BY <1>3, <2>1, <2>4, <2>5, HalfMore
  <2>7. ~(g[2] <= i)
    BY <1>1, <1>2, <1>7
  <2> QED
    BY <2>6, <2>7 DEF GroupKept, i
<1>8. CASE i < g[1]
  <2>1. ~(g[1] <= i) /\ ~(g[2] <= i)
    BY <1>1, <1>8
  <2> QED
    BY <2>1 DEF GroupKept
<1>9. g[2] <= p \/ g[2] = i \/ (g[1] <= i /\ i < g[2]) \/ i < g[1]
  BY <1>1
<1> QED
  BY <1>5, <1>6, <1>7, <1>8, <1>9

\* There is room under a heading that is drawn last.
HeadLast(bs, s, p) ==
  /\ p # 0 /\ p # Len(bs) /\ bs[p].kind = "heading" /\ Len(bs[p].words) <= FollowingLines
  /\ Len(s.drawn) # 0 /\ s.drawn[Len(s.drawn)].block = p
  => s.line + FollowingLines - Len(bs[p].words) <= LinesPerPage /\ s.drawn[Len(s.drawn)].page = s.page

\* The mark f is the first of the text of a heading.
FirstUnder(bs, s, f) ==
  s.drawn[f - 1].block = s.drawn[f].block - 1 /\ bs[s.drawn[f].block - 1].kind = "heading" /\ Unbound(bs, s.drawn[f].block)

Follows(bs, s, f) ==
  \A j \in 0 .. FollowingLines - Len(bs[s.drawn[f].block - 1].words) :
    j < Len(bs[s.drawn[f].block].words) => f + j \in 1 .. Len(s.drawn) /\ s.drawn[f + j].page = s.drawn[f - 1].page

HeadsKept(bs, s) == \A f \in 2 .. Len(s.drawn) : FirstUnder(bs, s, f) => Follows(bs, s, f)

LEMMA HeadMore ==
  ASSUME NEW bs, BlocksOk(bs), Unnoted(bs), NEW p \in Nat, p < Len(bs), NEW s, Upon(s, p)
  PROVE  HeadLast(bs, Emitted(bs, p + 1, s), p + 1)
<1> DEFINE i == p + 1  b == bs[i]  u == Emitted(bs, i, s)  n == Len(ToDraw(b))  w == Len(b.words)
<1>1. Len(bs) \in Nat /\ i \in 1 .. Len(bs) /\ BlockOk(b) /\ Quiet(b)
  <2>1. Len(bs) \in Nat /\ i \in 1 .. Len(bs)
    BY SeqIs DEF BlocksOk
  <2> QED
    BY <2>1, QuietIs DEF BlocksOk
<1>2. SheetOk(s) /\ s.notes = << >> /\ \A k \in 1 .. Len(s.drawn) : s.drawn[k].block \in 1 .. p
  BY DEF Upon
<1>3. Adds(s, u, i, ToDraw(b), n) /\ n \in Nat /\ Len(s.drawn) \in Nat /\ Len(u.drawn) = Len(s.drawn) + n
  BY <1>1, <1>2, DrawsBlock
<1> SUFFICES ASSUME i # Len(bs), b.kind = "heading", w <= FollowingLines, Len(u.drawn) # 0, u.drawn[Len(u.drawn)].block = i
             PROVE  u.line + FollowingLines - w <= LinesPerPage /\ u.drawn[Len(u.drawn)].page = u.page
  BY DEF HeadLast
<1>4. ToDraw(b) = b.words /\ n = w
  BY DEF ToDraw, SignKinds
<1>5. b.words # << >>
  <2> SUFFICES ASSUME b.words = << >> PROVE FALSE
    OBVIOUS
  <2>1. n = 0
    BY <1>4, NoneSeq
  <2>2. Len(u.drawn) = Len(s.drawn) /\ Len(s.drawn) \in 1 .. Len(s.drawn)
    BY <1>3, <2>1
  <2>3. u.drawn[Len(s.drawn)] = s.drawn[Len(s.drawn)]
    BY <1>3, <2>2 DEF Adds
  <2>4. s.drawn[Len(s.drawn)].block \in 1 .. p
    BY <1>2, <2>2
  <2> QED
    BY <2>2, <2>3, <2>4
<1>6. /\ u.line + FollowingLines - w <= LinesPerPage
      /\ u.drawn[Len(s.drawn) + w].page = u.page
  BY <1>1, <1>2, <1>5, HeadRoom
<1> QED
  BY <1>3, <1>4, <1>6

LEMMA HeadsMore ==
  ASSUME NEW bs, BlocksOk(bs), Unnoted(bs), NEW p \in Nat, p < Len(bs), NEW s, Upon(s, p), HeadLast(bs, s, p), HeadsKept(bs, s)
  PROVE  HeadsKept(bs, Emitted(bs, p + 1, s))
<1> DEFINE i == p + 1  b == bs[i]  u == Emitted(bs, i, s)  n == Len(ToDraw(b))
           o == Len(s.drawn)  l == Len(u.drawn)
<1>1. Len(bs) \in Nat /\ i \in 1 .. Len(bs) /\ BlockOk(b) /\ Quiet(b)
  <2>1. Len(bs) \in Nat /\ i \in 1 .. Len(bs)
    BY SeqIs DEF BlocksOk
  <2> QED
    BY <2>1, QuietIs DEF BlocksOk
<1>2. SheetOk(s) /\ s.notes = << >> /\ \A k \in 1 .. o : s.drawn[k].block \in 1 .. p
  BY DEF Upon
<1>3. Adds(s, u, i, ToDraw(b), n) /\ n \in Nat /\ o \in Nat /\ l = o + n /\ IsSeq(s.drawn)
  BY <1>1, <1>2, DrawsBlock
<1>4. \A k \in 1 .. o : u.drawn[k] = s.drawn[k]
  BY <1>3 DEF Adds
<1>5. \A k \in 1 .. l : k \notin 1 .. o => u.drawn[k].block = i
  <2> SUFFICES ASSUME NEW k \in 1 .. l, k \notin 1 .. o PROVE u.drawn[k].block = i
    OBVIOUS
  <2>1. OldOrNew(s, u, i, n, k)
    BY <1>3, MarkIs
  <2> QED
    BY <2>1 DEF OldOrNew
<1> SUFFICES ASSUME NEW f \in 2 .. l, FirstUnder(bs, u, f) PROVE Follows(bs, u, f)
  BY DEF HeadsKept
<1> HIDE DEF u, o, n, l
<1>6. CASE f \in 1 .. o
  <2>1. f \in 2 .. o /\ f - 1 \in 1 .. o
    BY <1>3, <1>6
  <2>2. u.drawn[f] = s.drawn[f] /\ u.drawn[f - 1] = s.drawn[f - 1]
    BY <1>4, <2>1
  <2>3. Follows(bs, s, f)
    BY <2>1, <2>2 DEF FirstUnder, HeadsKept, o
  <2>4. \A k \in 1 .. o : k \in 1 .. l
    BY <1>3
  <2> QED
    BY <1>4, <2>2, <2>3, <2>4 DEF Follows, o, l
<1>7. CASE f = o + 1
  <2>1. u.drawn[f].block = i /\ f - 1 = o /\ o \in 1 .. o /\ n # 0
    BY <1>3, <1>5, <1>7
  <2>2. u.drawn[f - 1] = s.drawn[o]
    BY <1>4, <2>1
  <2>3. i - 1 = p
    OBVIOUS
  <2>4. s.drawn[o].block = p /\ bs[p].kind = "heading" /\ Unbound(bs, i)
    BY <2>1, <2>2, <2>3 DEF FirstUnder
  <2>5. ToDraw(b) = b.words /\ b.words # << >>
    <3>1. b.kind \in TextKinds
      BY <2>4 DEF Unbound
    <3>2. ToDraw(b) = b.words
      BY <3>1 DEF ToDraw, TextKinds, SignKinds
    <3> QED
      BY <2>1, <3>2, NoneSeq DEF n
  <2> DEFINE w == Len(bs[p].words)  spare == FollowingLines - w
  <2>6. p \in 1 .. Len(bs) /\ p # Len(bs) /\ p # 0
    BY <1>1, <1>2, <2>1, <2>4
  <2>7. w \in Nat /\ FollowingLines \in Nat
    BY <2>6, GridIs, PageAssumption DEF BlocksOk
  <2>8. ASSUME NEW j \in 0 .. spare, j < Len(b.words)
        PROVE  f + j \in 1 .. l /\ u.drawn[f + j].page = u.drawn[f - 1].page
    <3>1. spare \in Nat /\ w <= FollowingLines
      BY <2>7, <2>8
    <3>2. s.line + FollowingLines - w <= LinesPerPage /\ s.drawn[o].page = s.page
      BY <2>1, <2>4, <2>6, <3>1 DEF HeadLast, o
    <3>3. s.line + spare <= LinesPerPage
      <4>1. s.line \in Nat /\ LinesPerPage \in Nat
        BY <1>2, PageAssumption DEF SheetOk
      <4> QED
        BY <2>7, <3>2, <4>1
    <3> HIDE DEF spare
    <3>4. \A x \in 0 .. spare : x < Len(bs[i].words) => Emitted(bs, i, s).drawn[Len(s.drawn) + 1 + x].page = s.page
      BY <1>1, <1>2, <2>4, <2>5, <3>1, <3>3, UnderHead, SMTT(60)
    <3>5. u.drawn[o + 1 + j].page = s.page
      BY <2>8, <3>4 DEF u, o
    <3>6. j \in Nat /\ j < n
      <4>1. n = Len(b.words)
        BY <2>5 DEF n
      <4> QED
        BY <2>8, <3>1, <4>1
    <3>7. f + j = o + 1 + j /\ f + j \in 1 .. l
      BY <1>3, <1>7, <3>6
    <3> QED
      BY <2>2, <3>2, <3>5, <3>7
  <2> HIDE DEF w
  <2>9. Follows(bs, u, f)
    BY <2>1, <2>3, <2>8 DEF Follows, w, l
  <2> QED
    BY <2>9
<1>8. CASE f \notin 1 .. o /\ f # o + 1
  <2>1. f \in 1 .. l /\ f - 1 \in 1 .. l /\ f - 1 \notin 1 .. o
    BY <1>3, <1>8
  <2>2. u.drawn[f].block = i /\ u.drawn[f - 1].block = i
    BY <1>5, <1>8, <2>1
  <2>3. i # i - 1
    OBVIOUS
  <2> QED
    BY <2>2, <2>3 DEF FirstUnder
<1> QED
  BY <1>6, <1>7, <1>8

-----------------------------------------------------------------------------
(* KeepInv: what is kept together as the body is laid out.                 *)

\* As far as the body is laid out, its groups are kept, and its headings.
KeepInv(bs, s, p) ==
  /\ s.notes = << >>
  /\ \A g \in KeepGroups(bs) : FitsPage(bs, g) => GroupKept(bs, s, g, p)
  /\ HeadLast(bs, s, p) /\ HeadsKept(bs, s)

LEMMA KeepFirst ==
  ASSUME NEW bs, BlocksOk(bs)
  PROVE  KeepInv(bs, FirstSheet, 0)
<1> DEFINE s == FirstSheet
<1>1. s.notes = << >> /\ s.drawn = << >>
  BY DEF FirstSheet
<1> HIDE DEF s
<1>2. Len(s.drawn) = 0
  BY <1>1, NoneSeq
<1>3. HeadsKept(bs, s) /\ HeadLast(bs, s, 0)
  BY <1>2 DEF HeadsKept, HeadLast
<1>4. ASSUME NEW g \in KeepGroups(bs) PROVE GroupKept(bs, s, g, 0)
  <2>1. g[1] \in 1 .. Len(bs) /\ g[2] \in 1 .. Len(bs)
    BY NeedsIs
  <2>2. ~(g[1] <= 0) /\ ~(g[2] <= 0)
    BY <2>1
  <2> QED
    BY <2>2 DEF GroupKept
<1> QED
  BY <1>1, <1>3, <1>4 DEF KeepInv, s

LEMMA KeepMore ==
  ASSUME NEW bs, BlocksOk(bs), Unnoted(bs), NEW p \in Nat, p < Len(bs), NEW s, LaidOut(bs, s, p), KeepInv(bs, s, p)
  PROVE  KeepInv(bs, Emitted(bs, p + 1, s), p + 1)
<1> DEFINE u == Emitted(bs, p + 1, s)
<1>1. Upon(s, p)
  BY DEF LaidOut, KeepInv, Upon
<1>2. u.notes = << >>
  <2>1. Len(bs) \in Nat
    BY SeqIs DEF BlocksOk
  <2>2. p + 1 \in 1 .. Len(bs)
    BY <2>1
  <2>3. BlockOk(bs[p + 1]) /\ Quiet(bs[p + 1])
    BY <2>2, QuietIs DEF BlocksOk
  <2> QED
    BY <1>1, <2>3, EmittedQuiet DEF Upon
<1>3. \A g \in KeepGroups(bs) : FitsPage(bs, g) => GroupKept(bs, u, g, p + 1)
  BY <1>1, GroupMore DEF KeepInv
<1>4. HeadLast(bs, u, p + 1)
  BY <1>1, HeadMore
<1>5. HeadsKept(bs, u)
  BY <1>1, HeadsMore DEF KeepInv
<1> QED
  BY <1>2, <1>3, <1>4, <1>5 DEF KeepInv

\* When the body is laid out, nothing of it is apart.
Together(bs, d) ==
  /\ \A g \in KeepGroups(bs) : FitsPage(bs, g) =>
       \A m, n \in ToSet(d) :
         /\ m.block = g[2] /\ n.block \in g[1] .. g[2] - 1 /\ Unbroken(bs, n.block, g[2] - 1)
         => n.page = m.page
  /\ \A f \in DOMAIN d \ {1} :
       LET text == d[f].block  above == bs[text - 1]
       IN  d[f - 1].block = text - 1 /\ above.kind = "heading" /\ Unbound(bs, text) =>
             \A j \in 0 .. FollowingLines - Len(above.words) :
               j < Len(bs[text].words) => d[f + j].page = d[f - 1].page

LEMMA KeepDone ==
  ASSUME NEW bs, BlocksOk(bs), NEW s, LaidOut(bs, s, Len(bs)), KeepInv(bs, s, Len(bs))
  PROVE  Together(bs, s.drawn)
<1> DEFINE d == s.drawn
<1>1. DOMAIN d = 1 .. Len(d) /\ Len(d) \in Nat
  BY SeqIs DEF LaidOut, SheetOk
<1>2. ASSUME NEW g \in KeepGroups(bs), FitsPage(bs, g), NEW m \in ToSet(d), NEW n \in ToSet(d),
             m.block = g[2], n.block \in g[1] .. g[2] - 1, Unbroken(bs, n.block, g[2] - 1)
      PROVE  n.page = m.page
  <2>1. g[2] <= Len(bs)
    <3>1. g[2] \in 1 .. Len(bs)
      BY NeedsIs
    <3> QED
      BY <3>1
  <2>2. WholeKept(bs, s, g)
    BY <1>2, <2>1 DEF KeepInv, GroupKept
  <2>3. PICK k \in 1 .. Len(d), l \in 1 .. Len(d) : n = d[k] /\ m = d[l]
    BY <1>1 DEF ToSet
  <2> QED
    BY <1>2, <2>2, <2>3 DEF WholeKept
<1>3. ASSUME NEW f \in DOMAIN d \ {1}, FirstUnder(bs, s, f) PROVE Follows(bs, s, f)
  <2>1. f \in 2 .. Len(d)
    BY <1>1
  <2> QED
    BY <1>3, <2>1 DEF KeepInv, HeadsKept
<1>4. ASSUME NEW f \in DOMAIN d \ {1}
      PROVE  LET text == d[f].block  above == bs[text - 1]
             IN  d[f - 1].block = text - 1 /\ above.kind = "heading" /\ Unbound(bs, text) =>
                   \A j \in 0 .. FollowingLines - Len(above.words) :
                     j < Len(bs[text].words) => d[f + j].page = d[f - 1].page
  BY <1>3 DEF FirstUnder, Follows
<1> QED
  BY <1>2, <1>4 DEF Together

\* What is kept at each stage, as far as the body is laid out.
TogetherInv ==
  /\ stage = "lay" /\ Unnoted(Numbered) => KeepInv(Numbered, sheet, placed)
  /\ stage = "merge" /\ Unnoted(Numbered) => Together(Numbered, sheet.drawn)

LEMMA LayTogether ==
  ASSUME LayInv, TogetherInv, Lay
  PROVE  TogetherInv'
<1> DEFINE n == Len(blocks)
<1>1. BlocksOk(blocks) /\ placed \in 0 .. n /\ LaidOut(Numbered, sheet, placed) /\ stage = "lay"
  BY DEF LayInv, Lay
<1>2. n \in Nat
  BY <1>1, SeqIs DEF BlocksOk
<1>3. Numbered' = Numbered
  BY DEF Lay, parseVars, Numbered
<1>4. BlocksOk(Numbered) /\ Len(Numbered) = n
  BY <1>1, NumberedOk DEF Numbered
<1>7. Unnoted(Numbered) => KeepInv(Numbered, sheet, placed)
  BY <1>1 DEF TogetherInv
<1>5. CASE EmitBlock(Numbered)
  <2>1. placed < n /\ placed' = placed + 1 /\ sheet' = Emitted(Numbered, placed + 1, sheet)
    BY <1>4, <1>5 DEF EmitBlock
  <2>2. placed \in Nat /\ placed # n
    BY <1>1, <1>2, <2>1
  <2>3. stage' = "lay"
    BY <1>1, <2>2 DEF Lay
  <2>4. Unnoted(Numbered) => KeepInv(Numbered, sheet', placed')
    BY <1>1, <1>4, <1>7, <2>1, <2>2, KeepMore
  <2> QED
    BY <1>3, <2>3, <2>4 DEF TogetherInv
<1>6. CASE EmitEnd(Numbered)
  <2>1. placed = n /\ sheet' = RenderNotes(sheet)
    BY <1>4, <1>6 DEF EmitEnd
  <2>2. stage' = "merge"
    BY <2>1 DEF Lay
  <2>3. sheet'.drawn = sheet.drawn
    <3>1. SheetOk(sheet)
      BY <1>1 DEF LaidOut
    <3> QED
      BY <2>1, <3>1, RenderedSame
  <2>4. Unnoted(Numbered) => Together(Numbered, sheet.drawn)
    BY <1>1, <1>4, <1>7, <2>1, KeepDone
  <2> QED
    BY <1>3, <2>2, <2>3, <2>4 DEF TogetherInv
<1> QED
  BY <1>5, <1>6 DEF Lay

LEMMA TogetherStep ==
  ASSUME LayInv, TogetherInv, [PleadNext]_pleadVars
  PROVE  TogetherInv'
<1>1. ASSUME NEW request, NEW fin, Begin(request, fin) PROVE TogetherInv'
  <2>1. stage' \in {"fill", "parse"}
    BY <1>1 DEF Begin
  <2> QED
    BY <2>1 DEF TogetherInv
<1>2. CASE Parse
  <2>1. stage' \in {"parse", "lay"}
    BY <1>2 DEF Parse
  <2>2. sheet' = FirstSheet /\ placed' = 0
    BY <1>2 DEF LayInv, Parse, layVars
  <2>3. CASE stage' = "lay"
    <3>1. BlocksOk(blocks')
      BY <2>3, LayStep DEF LayInv
    <3>2. BlocksOk(Numbered')
      BY <3>1, NumberedOk DEF Numbered
    <3>3. KeepInv(Numbered', sheet', placed')
      BY <2>2, <3>2, KeepFirst
    <3> QED
      BY <2>3, <3>3 DEF TogetherInv
  <2> QED
    BY <2>1, <2>3 DEF TogetherInv
<1>3. CASE Lay
  BY <1>3, LayTogether
<1>4. CASE Later \/ Stop
  <2>1. stage' \notin {"lay", "merge"}
    BY <1>4 DEF Later, Stop, Merge, Fill, WriteKey, Prepend, Notices, StampPacket, StampNotices, WriteFields, WriteLog
  <2> QED
    BY <2>1 DEF TogetherInv
<1>5. CASE Edit
  <2>1. stage' = "idle"
    BY <1>5 DEF Edit
  <2> QED
    BY <2>1 DEF TogetherInv
<1>6. CASE UNCHANGED <<parseVars, layVars, srcVars, stage, disk>>
  <2>1. blocks' = blocks /\ sheet' = sheet /\ placed' = placed /\ stage' = stage
    BY <1>6 DEF parseVars, layVars
  <2> QED
    BY <2>1 DEF TogetherInv, Numbered
<1> QED
  BY <1>1, <1>2, <1>3, <1>4, <1>5, <1>6, StepIs

\* A signature stands on one page with its leads and with what they follow,
\* and under a heading is its text, when no footnote takes the room that was
\* counted (_compute_keep_groups, emit_body).
THEOREM TogetherKept == PleadSpec => []KeptTogether
<1>1. PleadInit => TogetherInv
  BY DEF PleadInit, TogetherInv
<1>2. LayInv /\ TogetherInv /\ [PleadNext]_pleadVars => TogetherInv'
  BY TogetherStep
<1>3. TogetherInv => KeptTogether
  BY DEF TogetherInv, KeptTogether, Together, Marks
<1> QED
  BY <1>1, <1>2, <1>3, LayHolds, PTL DEF PleadSpec

-----------------------------------------------------------------------------
(* The cover sheet.                                                        *)

LEMMA MaxOne ==
  ASSUME NEW x \in Nat
  PROVE  Max({1, x}) \in Nat \ {0}
<1> DEFINE S == {1, x}
<1>1. \E m \in S : \A y \in S : m >= y
  <2>1. CASE x >= 1
    BY <2>1
  <2>2. CASE ~(x >= 1)
    BY <2>2
  <2> QED
    BY <2>1, <2>2
<1>2. Max(S) \in S /\ \A y \in S : Max(S) >= y
  BY <1>1 DEF Max
<1> QED
  BY <1>2

LEMMA ParaWrapped ==
  ASSUME NEW para, IsSeq(para), NEW n \in Nat \ {0}
  PROVE  IsSeq(Wrapped(para, n))
<1>1. CASE para = << >>
  <2>1. Wrapped(para, n) = << << >> >>
    BY <1>1 DEF Wrapped
  <2> QED
    BY <2>1, OneSeq
<1>2. CASE para # << >>
  <2> DEFINE w == Wrapped(para, n)  m == (Len(para) + n - 1) \div n
  <2>1. w = [i \in 1 .. m |-> SubSeq(para, (i - 1) * n + 1, Min({i * n, Len(para)}))]
    BY <1>2 DEF Wrapped
  <2>2. w = [i \in 1 .. m |-> w[i]]
    BY <2>1
  <2>3. m \in Nat
    <3>1. Len(para) \in Nat
      BY SeqIs
    <3>2. \A l \in Nat : (l + n - 1) \div n \in Nat
      OBVIOUS
    <3> QED
      BY <3>1, <3>2
  <2> HIDE DEF w, m
  <2>4. IsSeq(w)
    BY <2>2, <2>3, FcnSeq
  <2> QED
    BY <2>4 DEF w
<1> QED
  BY <1>1, <1>2

\* The sheets of a text are a list of pages.
LEMMA SheetsSeq ==
  ASSUME NEW text, IsSeqs(text), NEW label
  PROVE  IsSeq(Sheets(text, label))
<1> DEFINE n == Max({1, Sheet[1] \div FullSize})  per == PerSheet
           ws == [k \in 1 .. Len(text) |-> Wrapped(text[k], n)]
           broken == FlattenSeq(ws)
           s == Sheets(text, label)
           total == (Len(broken) + per - 1) \div per
<1>1. n \in Nat \ {0} /\ per \in Nat \ {0}
  <2>1. \A a, b \in Nat \ {0} : a \div b \in Nat
    OBVIOUS
  <2>2. Sheet[1] \div FullSize \in Nat /\ Sheet[2] \div FullSize \in Nat
    BY <2>1, SheetAssumption
  <2> QED
    BY <2>2, MaxOne DEF PerSheet
<1>2. Len(text) \in Nat /\ DOMAIN text = 1 .. Len(text) /\ \A k \in 1 .. Len(text) : IsSeq(text[k])
  BY SeqIs DEF IsSeqs
<1> DEFINE page(i) == [of |-> 0, printed |-> {}, label |-> label, number |-> i, total |-> total, ticked |-> {},
          drawn |-> {[field |-> 0, fit |->
            Fit(SubSeq(broken, (i - 1) * PerSheet + 1, Min({i * PerSheet, Len(broken)})),
                [width |-> Sheet[1], height |-> Sheet[2], fit |-> "shrink_wrap", multiline |-> FALSE,
                 font |-> FullSize, floor |-> FloorSize])]}]
<1>3. s = [i \in 1 .. total |-> page(i)]
  <2>1. [k \in DOMAIN text |-> Wrapped(text[k], n)] = ws
    BY <1>2
  <2> QED
    BY <2>1 DEF Sheets
<1> HIDE DEF page
<1>4. s = [i \in 1 .. total |-> s[i]]
  BY <1>3
<1> HIDE DEF n
<1>5. IsSeq(ws) /\ Len(ws) = Len(text) /\ \A k \in 1 .. Len(text) : ws[k] = Wrapped(text[k], n)
  BY <1>2, FcnSeq
<1> HIDE DEF ws
<1>6. IsSeqs(ws)
  BY <1>1, <1>2, <1>5, ParaWrapped DEF IsSeqs
<1>7. Len(broken) \in Nat
  BY <1>6, Flattened, SeqIs
<1>8. total \in Nat
  <2>1. \A l \in Nat, q \in Nat \ {0} : (l + q - 1) \div q \in Nat
    OBVIOUS
  <2> HIDE DEF broken, per
  <2> QED
    BY <1>1, <1>7, <2>1
<1> HIDE DEF total, s
<1>9. IsSeq(s)
  BY <1>4, <1>8, FcnSeq
<1> QED
  BY <1>9 DEF s

LEMMA FormWordsSeq ==
  ASSUME src \in Sources
  PROVE  IsSeq(FormWords)
<1>1. IsSeq(src.form)
  BY SourceAssumption DEF IsSeq
<1>2. IsSeq(FormText.text)
  BY <1>1, RedactedOk DEF FormText, ReadOk
<1> QED
  BY <1>2, CitedOk DEF FormWords

LEMMA FieldDefault ==
  ASSUME NEW k \in DOMAIN CoverForm.fields
  PROVE  CoverForm.fields[k] \in FieldSpec /\ CoverForm.fields[k].default \in Seq(Seq(STRING))
<1>1. CoverForm.fields[k] \in FieldSpec
  BY CoverAssumption
<1>2. \A f \in FieldSpec : f.default \in Seq(Seq(STRING))
  BY DEF FieldSpec
<1> QED
  BY <1>1, <1>2

LEMMA CoverTexts ==
  ASSUME src \in Sources
  PROVE  LET texts == Texts(CoverForm, CoverMeta, NoData) IN
         IsSeqs(texts) /\ DOMAIN texts = 1 .. Len(texts) /\ \A k \in 1 .. Len(texts) : IsSeqs(texts[k])
<1> DEFINE texts == Texts(CoverForm, CoverMeta, NoData)  fs == CoverForm.fields  n == Len(fs)
<1>1. IsSeq(fs)
  BY CoverAssumption DEF IsSeq
<1>2. n \in Nat /\ DOMAIN fs = 1 .. n
  BY <1>1, SeqIs
<1>3. texts = [k \in 1 .. n |-> Value(fs[k], CoverMeta, NoData)]
  BY <1>2 DEF Texts
<1>4. ASSUME NEW k \in 1 .. n PROVE IsSeqs(Value(fs[k], CoverMeta, NoData))
  <2> DEFINE spec == fs[k]
  <2>1. IsSeqs(<< >>)
    BY NoneSeq DEF IsSeqs
  <2>2. IsSeqs(<<FormWords>>)
    <3> DEFINE one == <<FormWords>>
    <3>1. IsSeq(one) /\ Len(one) = 1 /\ one[1] = FormWords
      BY OneSeq
    <3> HIDE DEF one
    <3>2. IsSeqs(one)
      BY <3>1, FormWordsSeq DEF IsSeqs
    <3> QED
      BY <3>2 DEF one
  <2>3. IsSeqs(spec.default)
    <3>1. spec.default \in Seq(Seq(STRING))
      BY <1>2, FieldDefault
    <3> DEFINE x == spec.default
    <3> HIDE DEF x
    <3>2. x \in Seq(Seq(STRING))
      BY <3>1 DEF x
    <3>3. IsSeq(x) /\ \A i \in 1 .. Len(x) : x[i] \in Seq(STRING)
      BY <3>2 DEF IsSeq
    <3>4. IsSeqs(x)
      BY <3>3 DEF IsSeqs, IsSeq
    <3> QED
      BY <3>4 DEF x
  <2>4. DOMAIN NoData = {}
    BY DEF NoData
  <2>5. CoverMeta.block = [m \in {"body"} |-> <<FormWords>>] /\ CoverMeta.auto = [m \in {} |-> << >>] /\ CoverMeta.keys = {}
    BY DEF CoverMeta
  <2> DEFINE blk == CoverMeta.block  aut == CoverMeta.auto
  <2>6. DOMAIN blk = {"body"} /\ DOMAIN aut = {} /\ blk["body"] = <<FormWords>>
    BY <2>5
  <2> HIDE DEF spec, blk, aut
  <2>7. Given(spec, CoverMeta, NoData) \in {spec.default, <<FormWords>>}
    <3>1. CASE spec.name = "body"
      <4>1. Given(spec, CoverMeta, NoData) = CoverMeta.block[spec.name]
        BY <2>4, <2>6, <3>1 DEF Given, blk
      <4> QED
        BY <2>6, <3>1, <4>1 DEF blk
    <3>2. CASE spec.name # "body"
      <4>1. Given(spec, CoverMeta, NoData) = spec.default
        BY <2>4, <2>6, <3>2 DEF Given, blk, aut
      <4> QED
        BY <4>1
    <3> QED
      BY <3>1, <3>2
  <2>8. IsSeqs(Value(spec, CoverMeta, NoData))
    BY <2>1, <2>2, <2>3, <2>7 DEF Value, spec
  <2> QED
    BY <2>8 DEF spec
<1>5. IsSeq(texts) /\ Len(texts) = n /\ \A k \in 1 .. n : texts[k] = Value(fs[k], CoverMeta, NoData)
  BY <1>2, <1>3, FcnSeq
<1> HIDE DEF texts
<1>8. \A k \in 1 .. Len(texts) : IsSeqs(texts[k])
  BY <1>4, <1>5
<1>6. IsSeqs(texts)
  BY <1>5, <1>8 DEF IsSeqs
<1>7. DOMAIN texts = 1 .. Len(texts)
  BY <1>5, SeqIs
<1> QED
  BY <1>6, <1>7, <1>8 DEF texts

\* A cover sheet that is filled has the pages of its form that are filed.
Filled(pages) == IsSeq(pages) /\ Len(KeptPages(CoverForm, << >>)) <= Len(pages)

LEMMA CoverFilled ==
  ASSUME src \in Sources
  PROVE  Filled(CoverFill)
<1> DEFINE front == FormPages(CoverForm, CoverMeta, NoData, << >>, FALSE)  back == Attachments(CoverForm, CoverMeta, NoData)
           keep == KeptPages(CoverForm, << >>)  texts == Texts(CoverForm, CoverMeta, NoData)
           over == Overflows(CoverForm, texts)
<1>1. IsSeq(keep)
  BY CoverAssumption DEF IsSeq
<1>2. Len(keep) \in Nat /\ DOMAIN keep = 1 .. Len(keep)
  BY <1>1, SeqIs
<1>3. front = [i \in 1 .. Len(keep) |-> front[i]]
  BY <1>2 DEF FormPages
<1> HIDE DEF front
<1>4. IsSeq(front) /\ Len(front) = Len(keep)
  BY <1>2, <1>3, FcnSeq
<1>5. IsSeqs(texts) /\ DOMAIN texts = 1 .. Len(texts) /\ \A k \in 1 .. Len(texts) : IsSeqs(texts[k])
  BY CoverTexts
<1> HIDE DEF texts
<1> DEFINE ss == [k \in 1 .. Len(texts) |-> IF k \in over THEN Sheets(texts[k], CoverForm.fields[k].label) ELSE << >>]
<1>6. back = FlattenSeq(ss)
  BY <1>5 DEF Attachments, texts
<1> HIDE DEF back, over
<1>7. IsSeq(ss) /\ Len(ss) = Len(texts)
      /\ \A k \in 1 .. Len(texts) : ss[k] = IF k \in over THEN Sheets(texts[k], CoverForm.fields[k].label) ELSE << >>
  <2>1. Len(texts) \in Nat
    BY <1>5, SeqIs DEF IsSeqs
  <2> QED
    BY <2>1, FcnSeq
<1> HIDE DEF ss
<1>8. ASSUME NEW k \in 1 .. Len(texts) PROVE IsSeq(ss[k])
  <2>1. IsSeqs(texts[k])
    BY <1>5
  <2>2. CASE k \in over
    BY <1>7, <2>1, <2>2, SheetsSeq
  <2>3. CASE k \notin over
    BY <1>7, <2>3, NoneSeq
  <2> QED
    BY <2>2, <2>3
<1>9. IsSeqs(ss)
  BY <1>7, <1>8 DEF IsSeqs
<1>10. IsSeq(back)
  BY <1>6, <1>9, Flattened
<1>11. IsSeq(front \o back) /\ Len(front \o back) = Len(front) + Len(back)
  BY <1>4, <1>10, Joined
<1>12. Len(back) \in Nat
  BY <1>10, SeqIs
<1>13. Len(keep) <= Len(front \o back)
  BY <1>2, <1>4, <1>11, <1>12
<1>14. CoverFill = front \o back
  BY DEF CoverFill, front, back
<1> QED
  BY <1>11, <1>13, <1>14 DEF Filled

-----------------------------------------------------------------------------
(* What is at the output's place.                                          *)

CacheIs(c) == c = [pages |-> c.pages, key |-> c.key, old |-> c.old, torn |-> c.torn]

DiskIs(d) ==
  d = [packet |-> d.packet, notices |-> d.notices, fields |-> d.fields, log |-> d.log, cache |-> d.cache] /\ CacheIs(d.cache)

LEMMA PacketPut ==
  ASSUME NEW d, DiskIs(d), NEW x
  PROVE  LET e == [d EXCEPT !.packet = x] IN
         DiskIs(e) /\ e.packet = x /\ e.notices = d.notices /\ e.fields = d.fields /\ e.log = d.log /\ e.cache = d.cache
<1> DEFINE e == [d EXCEPT !.packet = x]
<1>1. d = [packet |-> d.packet, notices |-> d.notices, fields |-> d.fields, log |-> d.log, cache |-> d.cache]
  BY DEF DiskIs
<1>2. e = [packet |-> x, notices |-> d.notices, fields |-> d.fields, log |-> d.log, cache |-> d.cache]
  BY <1>1
<1> HIDE DEF e
<1>3. /\ e = [packet |-> e.packet, notices |-> e.notices, fields |-> e.fields, log |-> e.log, cache |-> e.cache]
      /\ e.packet = x /\ e.notices = d.notices /\ e.fields = d.fields /\ e.log = d.log /\ e.cache = d.cache
  BY <1>2
<1>4. DiskIs(e)
  BY <1>3 DEF DiskIs
<1> QED
  BY <1>3, <1>4 DEF e

LEMMA NoticesPut ==
  ASSUME NEW d, DiskIs(d), NEW x
  PROVE  LET e == [d EXCEPT !.notices = x] IN
         DiskIs(e) /\ e.notices = x /\ e.packet = d.packet /\ e.fields = d.fields /\ e.log = d.log /\ e.cache = d.cache
<1> DEFINE e == [d EXCEPT !.notices = x]
<1>1. d = [packet |-> d.packet, notices |-> d.notices, fields |-> d.fields, log |-> d.log, cache |-> d.cache]
  BY DEF DiskIs
<1>2. e = [packet |-> d.packet, notices |-> x, fields |-> d.fields, log |-> d.log, cache |-> d.cache]
  BY <1>1
<1> HIDE DEF e
<1>3. /\ e = [packet |-> e.packet, notices |-> e.notices, fields |-> e.fields, log |-> e.log, cache |-> e.cache]
      /\ e.notices = x /\ e.packet = d.packet /\ e.fields = d.fields /\ e.log = d.log /\ e.cache = d.cache
  BY <1>2
<1>4. DiskIs(e)
  BY <1>3 DEF DiskIs
<1> QED
  BY <1>3, <1>4 DEF e

LEMMA FieldsPut ==
  ASSUME NEW d, DiskIs(d), NEW x
  PROVE  LET e == [d EXCEPT !.fields = x] IN
         DiskIs(e) /\ e.fields = x /\ e.packet = d.packet /\ e.notices = d.notices /\ e.log = d.log /\ e.cache = d.cache
<1> DEFINE e == [d EXCEPT !.fields = x]
<1>1. d = [packet |-> d.packet, notices |-> d.notices, fields |-> d.fields, log |-> d.log, cache |-> d.cache]
  BY DEF DiskIs
<1>2. e = [packet |-> d.packet, notices |-> d.notices, fields |-> x, log |-> d.log, cache |-> d.cache]
  BY <1>1
<1> HIDE DEF e
<1>3. /\ e = [packet |-> e.packet, notices |-> e.notices, fields |-> e.fields, log |-> e.log, cache |-> e.cache]
      /\ e.fields = x /\ e.packet = d.packet /\ e.notices = d.notices /\ e.log = d.log /\ e.cache = d.cache
  BY <1>2
<1>4. DiskIs(e)
  BY <1>3 DEF DiskIs
<1> QED
  BY <1>3, <1>4 DEF e

LEMMA LogPut ==
  ASSUME NEW d, DiskIs(d), NEW x
  PROVE  LET e == [d EXCEPT !.log = x] IN
         DiskIs(e) /\ e.log = x /\ e.packet = d.packet /\ e.notices = d.notices /\ e.fields = d.fields /\ e.cache = d.cache
<1> DEFINE e == [d EXCEPT !.log = x]
<1>1. d = [packet |-> d.packet, notices |-> d.notices, fields |-> d.fields, log |-> d.log, cache |-> d.cache]
  BY DEF DiskIs
<1>2. e = [packet |-> d.packet, notices |-> d.notices, fields |-> d.fields, log |-> x, cache |-> d.cache]
  BY <1>1
<1> HIDE DEF e
<1>3. /\ e = [packet |-> e.packet, notices |-> e.notices, fields |-> e.fields, log |-> e.log, cache |-> e.cache]
      /\ e.log = x /\ e.packet = d.packet /\ e.notices = d.notices /\ e.fields = d.fields /\ e.cache = d.cache
  BY <1>2
<1>4. DiskIs(e)
  BY <1>3 DEF DiskIs
<1> QED
  BY <1>3, <1>4 DEF e

LEMMA CachePut ==
  ASSUME NEW d, DiskIs(d), NEW x, CacheIs(x)
  PROVE  LET e == [d EXCEPT !.cache = x] IN
         DiskIs(e) /\ e.cache = x /\ e.packet = d.packet /\ e.notices = d.notices /\ e.fields = d.fields /\ e.log = d.log
<1> DEFINE e == [d EXCEPT !.cache = x]
<1>1. d = [packet |-> d.packet, notices |-> d.notices, fields |-> d.fields, log |-> d.log, cache |-> d.cache]
  BY DEF DiskIs
<1>2. e = [packet |-> d.packet, notices |-> d.notices, fields |-> d.fields, log |-> d.log, cache |-> x]
  BY <1>1
<1> HIDE DEF e
<1>3. /\ e = [packet |-> e.packet, notices |-> e.notices, fields |-> e.fields, log |-> e.log, cache |-> e.cache]
      /\ e.cache = x /\ e.packet = d.packet /\ e.notices = d.notices /\ e.fields = d.fields /\ e.log = d.log
  BY <1>2
<1>4. DiskIs(e)
  BY <1>3 DEF DiskIs
<1> QED
  BY <1>3, <1>4 DEF e

LEMMA CacheFilled ==
  ASSUME NEW c, CacheIs(c), NEW x
  PROVE  LET e == [c EXCEPT !.pages = x, !.old = FALSE, !.torn = TRUE] IN CacheIs(e) /\ e.pages = x /\ e.key = c.key /\ e.torn = TRUE
<1> DEFINE one == [c EXCEPT !.pages = x]  two == [one EXCEPT !.old = FALSE]  e == [two EXCEPT !.torn = TRUE]
<1>1. c = [pages |-> c.pages, key |-> c.key, old |-> c.old, torn |-> c.torn]
  BY DEF CacheIs
<1>0. [c EXCEPT !.pages = x, !.old = FALSE, !.torn = TRUE] = e
  BY <1>1
<1>2. one = [pages |-> x, key |-> c.key, old |-> c.old, torn |-> c.torn]
  BY <1>1
<1> HIDE DEF one
<1>3. \A b : [one EXCEPT !.old = b] = [pages |-> x, key |-> c.key, old |-> b, torn |-> c.torn]
  BY <1>2
<1>4. two = [pages |-> x, key |-> c.key, old |-> FALSE, torn |-> c.torn]
  BY <1>3
<1> HIDE DEF two
<1>8. two = [pages |-> x, key |-> c.key, old |-> two.old, torn |-> c.torn]
  BY <1>4
<1>5. \A b : [two EXCEPT !.torn = b] = [pages |-> x, key |-> c.key, old |-> two.old, torn |-> b]
  BY <1>8
<1>6. e = [pages |-> x, key |-> c.key, old |-> two.old, torn |-> TRUE]
  BY <1>5
<1> HIDE DEF e
<1>7. e = [pages |-> e.pages, key |-> e.key, old |-> e.old, torn |-> e.torn] /\ e.pages = x /\ e.key = c.key /\ e.torn = TRUE
  BY <1>6
<1> QED
  BY <1>0, <1>7 DEF CacheIs

LEMMA CacheKeyed ==
  ASSUME NEW c, CacheIs(c), NEW x
  PROVE  LET e == [c EXCEPT !.key = x, !.torn = FALSE] IN CacheIs(e) /\ e.pages = c.pages /\ e.key = x /\ e.torn = FALSE
<1> DEFINE one == [c EXCEPT !.key = x]  e == [one EXCEPT !.torn = FALSE]
<1>1. c = [pages |-> c.pages, key |-> c.key, old |-> c.old, torn |-> c.torn]
  BY DEF CacheIs
<1>0. [c EXCEPT !.key = x, !.torn = FALSE] = e
  BY <1>1
<1>2. one = [pages |-> c.pages, key |-> x, old |-> c.old, torn |-> c.torn]
  BY <1>1
<1> HIDE DEF one
<1>3. \A b : [one EXCEPT !.torn = b] = [pages |-> c.pages, key |-> x, old |-> c.old, torn |-> b]
  BY <1>2
<1>4. e = [pages |-> c.pages, key |-> x, old |-> c.old, torn |-> FALSE]
  BY <1>3
<1> HIDE DEF e
<1>5. e = [pages |-> e.pages, key |-> e.key, old |-> e.old, torn |-> e.torn] /\ e.pages = c.pages /\ e.key = x /\ e.torn = FALSE
  BY <1>4
<1> QED
  BY <1>0, <1>5 DEF CacheIs

LEMMA CacheOld ==
  ASSUME NEW d, DiskIs(d)
  PROVE  LET e == [d EXCEPT !.cache.old = TRUE] IN
         /\ DiskIs(e) /\ e.packet = d.packet /\ e.notices = d.notices /\ e.fields = d.fields
         /\ e.cache.pages = d.cache.pages /\ e.cache.key = d.cache.key /\ e.cache.torn = d.cache.torn
<1> DEFINE c == d.cache  o == [c EXCEPT !.old = TRUE]  e == [d EXCEPT !.cache = o]
<1>1. d = [packet |-> d.packet, notices |-> d.notices, fields |-> d.fields, log |-> d.log, cache |-> d.cache]
      /\ c = [pages |-> c.pages, key |-> c.key, old |-> c.old, torn |-> c.torn]
  BY DEF DiskIs, CacheIs
<1>0. [d EXCEPT !.cache.old = TRUE] = e
  BY <1>1
<1> HIDE DEF c
<1>3. \A b : [c EXCEPT !.old = b] = [pages |-> c.pages, key |-> c.key, old |-> b, torn |-> c.torn]
  BY <1>1
<1>4. o = [pages |-> c.pages, key |-> c.key, old |-> TRUE, torn |-> c.torn]
  BY <1>3
<1> HIDE DEF o
<1>5. o = [pages |-> o.pages, key |-> o.key, old |-> o.old, torn |-> o.torn] /\ o.pages = c.pages /\ o.key = c.key /\ o.torn = c.torn
  BY <1>4
<1>6. CacheIs(o)
  BY <1>5 DEF CacheIs
<1>7. DiskIs(e) /\ e.cache = o /\ e.packet = d.packet /\ e.notices = d.notices /\ e.fields = d.fields
  BY <1>6, CachePut
<1> HIDE DEF e
<1> QED
  BY <1>0, <1>5, <1>7 DEF c

Middle == (IF src.coverOnly THEN << >> ELSE BodyPages) \o Attached

\* The whole packet, as it is before the banner and as it is behind it.
Assembled  == (IF src.cover THEN Cover ELSE << >>) \o Middle
Banner == IF final THEN Assembled ELSE Stamped(Assembled)

Ready == {"notices", "failed", "stamp", "stamp notices", "fields", "log", "done"}

\* What is at the output's place, and in the cover's cache, at each stage.
PackInv ==
  /\ DiskIs(disk) /\ final \in BOOLEAN
  /\ stage # "idle" => own = ExhibitsOf(src, variant) /\ (src.coverOnly => src.cover /\ blocks = << >>)
  /\ stage \in {"parse", "lay", "merge"} => ~src.coverOnly
  /\ stage \in {"fill", "key", "prepend"} => src.cover /\ (~src.coverOnly => disk.packet = Middle)
  /\ disk.cache.key # << >> => Filled(disk.cache.pages)
  /\ stage \in {"key", "prepend"} => Filled(disk.cache.pages)
  /\ stage \in Ready /\ src.cover => Filled(disk.cache.pages)
  /\ stage \in {"notices", "stamp"} => disk.packet = Assembled
  /\ stage \in {"stamp notices", "fields", "log", "done"} => disk.packet = Banner
  /\ stage = "stamp notices" => ~final
  /\ stage \in {"log", "done"} => disk.fields = FieldsOf(SignMarks)

LEMMA Frame ==
  ASSUME src' = src, own' = own, variant' = variant, final' = final, sheet' = sheet, blocks' = blocks,
         disk'.cache.pages = disk.cache.pages
  PROVE  Assembled' = Assembled /\ Middle' = Middle /\ Banner' = Banner /\ FieldsOf(SignMarks)' = FieldsOf(SignMarks)
<1>1. Cover' = Cover /\ CoverPages' = CoverPages
  BY DEF Cover, CoverPages, Page
<1>2. Middle' = Middle
  BY DEF Middle, BodyPages, Attached, ListPages, ExhibitPages, Page
<1>3. Assembled' = Assembled
  BY <1>1, <1>2 DEF Assembled
<1>4. Banner' = Banner
  BY <1>3 DEF Banner, Stamped
<1>5. SignMarks' = SignMarks
  BY DEF SignMarks
<1>6. CoverFields' = CoverFields
  BY DEF CoverFields, CoverMeta, FormWords, FormText
<1>7. FieldsOf(SignMarks)' = FieldsOf(SignMarks)
  BY <1>1, <1>5, <1>6 DEF FieldsOf, Field
<1> QED
  BY <1>2, <1>3, <1>4, <1>7

LEMMA PackFirst ==
  ASSUME PleadInit
  PROVE  PackInv
<1>1. stage = "idle" /\ disk = EmptyDisk /\ final = FALSE
  BY DEF PleadInit
<1> DEFINE c == [pages |-> << >>, key |-> << >>, old |-> FALSE, torn |-> FALSE]
<1>2. c = [pages |-> c.pages, key |-> c.key, old |-> c.old, torn |-> c.torn] /\ c.key = << >>
  OBVIOUS
<1>3. CacheIs(c)
  BY <1>2 DEF CacheIs
<1> HIDE DEF c
<1>4. disk = [packet |-> << >>, notices |-> {}, fields |-> {}, log |-> << >>, cache |-> c]
  BY <1>1 DEF EmptyDisk, c
<1>5. disk = [packet |-> disk.packet, notices |-> disk.notices, fields |-> disk.fields, log |-> disk.log, cache |-> disk.cache]
      /\ disk.cache = c
  BY <1>4
<1>6. DiskIs(disk) /\ disk.cache.key = << >>
  BY <1>2, <1>3, <1>5 DEF DiskIs
<1> QED
  BY <1>1, <1>6 DEF PackInv, Ready

LEMMA BeginPack ==
  ASSUME LayInv, PackInv, NEW request, NEW fin \in BOOLEAN, Begin(request, fin)
  PROVE  PackInv'
<1>1. /\ src' = src /\ disk' = disk /\ final' = fin /\ variant' = Effective(src, request)
      /\ own' = ExhibitsOf(src, Effective(src, request))
      /\ stage' = IF src.coverOnly THEN "fill" ELSE "parse"
      /\ src.coverOnly => src.cover
      /\ blocks' = << >>
  BY DEF Begin, Accepts, AtRest
<1>2. own' = ExhibitsOf(src', variant')
  BY <1>1
<1>3. DiskIs(disk') /\ (disk'.cache.key # << >> => Filled(disk'.cache.pages)) /\ final' \in BOOLEAN
  BY <1>1 DEF PackInv
<1> QED
  BY <1>1, <1>2, <1>3 DEF PackInv, Ready

LEMMA ReadPack ==
  ASSUME LayInv, PackInv, Parse \/ Lay
  PROVE  PackInv'
<1>1. /\ src' = src /\ disk' = disk /\ final' = final /\ variant' = variant /\ own' = own
      /\ stage \in {"parse", "lay"} /\ stage' \in {"parse", "lay", "merge"}
  BY DEF Parse, Lay, srcVars
<1>2. own' = ExhibitsOf(src', variant') /\ ~src'.coverOnly /\ DiskIs(disk') /\ final' \in BOOLEAN
      /\ (disk'.cache.key # << >> => Filled(disk'.cache.pages))
  BY <1>1 DEF PackInv
<1> QED
  BY <1>1, <1>2 DEF PackInv, Ready

\* The pages of an exhibit, of the list, and of the body are lists.
LEMMA AttachedSeq ==
  ASSUME src \in Sources, own = ExhibitsOf(src, variant)
  PROVE  IsSeq(Attached)
<1>1. IsSeq(own)
  BY ExhibitsSeq
<1> DEFINE n == Len(own)  ps == [k \in 1 .. n |-> ExhibitPages(own[k])]
<1>2. n \in Nat /\ DOMAIN own = 1 .. n
  BY <1>1, SeqIs
<1>3. ASSUME NEW ex PROVE IsSeq(ExhibitPages(ex))
  <2> DEFINE a == IF ex.sealed /\ variant = "sealed" THEN << >> ELSE <<Page("tab", ex.name, {ex.letter})>>
             b == IF ex.sealed THEN << >> ELSE <<Page(ex.file, ex.name, {})>>
  <2>1. IsSeq(a) /\ IsSeq(b)
    BY OneSeq, NoneSeq
  <2>2. ExhibitPages(ex) = a \o b
    BY DEF ExhibitPages
  <2> HIDE DEF a, b
  <2> QED
    BY <2>1, <2>2, Joined
<1>4. IsSeq(ps) /\ Len(ps) = n /\ \A k \in 1 .. n : ps[k] = ExhibitPages(own[k])
  BY <1>2, FcnSeq
<1>5. Attached = ListPages \o FlattenSeq(ps)
  BY <1>2 DEF Attached
<1> HIDE DEF ps
<1>6. IsSeqs(ps)
  BY <1>3, <1>4 DEF IsSeqs
<1>7. IsSeq(FlattenSeq(ps))
  BY <1>6, Flattened
<1>8. IsSeq(ListPages)
  BY OneSeq, NoneSeq DEF ListPages
<1> QED
  BY <1>5, <1>7, <1>8, Joined

LEMMA BodySeq ==
  ASSUME SheetOk(sheet)
  PROVE  IsSeq(BodyPages) /\ Len(BodyPages) = sheet.page
<1> DEFINE b == BodyPages
<1>1. sheet.page \in Nat /\ b = [p \in 1 .. sheet.page |-> b[p]]
  BY DEF SheetOk, BodyPages
<1> HIDE DEF b
<1>2. IsSeq(b) /\ Len(b) = sheet.page
  BY <1>1, FcnSeq
<1> QED
  BY <1>2 DEF b

LEMMA NoneJoin ==
  ASSUME NEW s, IsSeq(s)
  PROVE  << >> \o s = s
<1>1. PICK S : s \in Seq(S)
  BY DEF IsSeq
<1> QED
  BY <1>1

LEMMA MiddleSeq ==
  ASSUME LayInv, stage \in Late, own = ExhibitsOf(src, variant)
  PROVE  IsSeq(Middle) /\ IsSeq(Attached) /\ IsSeq(BodyPages) /\ (src.coverOnly => Middle = Attached)
         /\ (~src.coverOnly => Middle = BodyPages \o Attached) /\ Len(BodyPages) = sheet.page
<1>1. IsSeq(Attached)
  BY AttachedSeq DEF LayInv
<1>2. IsSeq(BodyPages) /\ Len(BodyPages) = sheet.page
  BY BodySeq DEF LayInv, Finished
<1>3. src.coverOnly => Middle = << >> \o Attached
  BY DEF Middle
<1>4. ~src.coverOnly => Middle = BodyPages \o Attached
  BY DEF Middle
<1>5. << >> \o Attached = Attached
  BY <1>1, NoneJoin
<1>6. IsSeq(BodyPages \o Attached)
  BY <1>1, <1>2, Joined
<1> QED
  BY <1>1, <1>2, <1>3, <1>4, <1>5, <1>6

LEMMA MergePack ==
  ASSUME LayInv, PackInv, Merge
  PROVE  PackInv'
<1>1. /\ src' = src /\ final' = final /\ variant' = variant /\ own' = own /\ sheet' = sheet /\ blocks' = blocks
      /\ stage = "merge" /\ stage' = IF src.cover THEN "fill" ELSE "notices"
      /\ disk' = [disk EXCEPT !.packet = BodyPages \o Attached]
  BY DEF Merge, Keep, srcVars, layVars, parseVars
<1>2. DiskIs(disk') /\ disk'.packet = BodyPages \o Attached /\ disk'.cache = disk.cache
  BY <1>1, PacketPut DEF PackInv
<1>3. own = ExhibitsOf(src, variant) /\ ~src.coverOnly
  BY <1>1 DEF PackInv
<1>4. stage \in Late
  BY <1>1 DEF Late
<1>5. Middle = BodyPages \o Attached /\ IsSeq(Middle)
  BY <1>3, <1>4, MiddleSeq
<1>6. Assembled' = Assembled /\ Middle' = Middle
  BY <1>1, <1>2, Frame
<1>7. ~src.cover => Assembled = Middle
  <2>1. ~src.cover => Assembled = << >> \o Middle
    BY DEF Assembled
  <2>2. << >> \o Middle = Middle
    BY <1>5, NoneJoin
  <2> QED
    BY <2>1, <2>2
<1>8. disk'.packet = Middle' /\ (~src.cover => disk'.packet = Assembled')
  BY <1>2, <1>5, <1>6, <1>7
<1>9. own' = ExhibitsOf(src', variant') /\ ~src'.coverOnly /\ DiskIs(disk') /\ final' \in BOOLEAN
      /\ (disk'.cache.key # << >> => Filled(disk'.cache.pages))
  BY <1>1, <1>2, <1>3 DEF PackInv
<1>10. CASE src.cover
  BY <1>1, <1>8, <1>9, <1>10 DEF PackInv, Ready
<1>11. CASE ~src.cover
  BY <1>1, <1>8, <1>9, <1>11 DEF PackInv, Ready
<1> QED
  BY <1>10, <1>11

LEMMA FillPack ==
  ASSUME LayInv, PackInv, Fill
  PROVE  PackInv'
<1>1. /\ src' = src /\ final' = final /\ variant' = variant /\ own' = own /\ sheet' = sheet /\ blocks' = blocks
      /\ stage = "fill"
  BY DEF Fill, layVars, parseVars
<1>2. own = ExhibitsOf(src, variant) /\ src.cover /\ (~src.coverOnly => disk.packet = Middle) /\ (src.coverOnly => src.cover /\ blocks = << >>)
      /\ DiskIs(disk) /\ final \in BOOLEAN /\ (disk.cache.key # << >> => Filled(disk.cache.pages))
  BY <1>1 DEF PackInv
<1> DEFINE entries == log \o FormText.log  key == FillKey(entries)
<1>3. CASE disk.cache.key = key /\ ~disk.cache.old
  <2>1. stage' = "prepend" /\ disk' = disk
    BY <1>3 DEF Fill
  <2>2. key # << >>
    BY DEF FillKey
  <2>3. Filled(disk.cache.pages)
    BY <1>2, <1>3, <2>2
  <2>4. Middle' = Middle
    BY <1>1, <2>1, Frame
  <2> QED
    BY <1>1, <1>2, <2>1, <2>3, <2>4 DEF PackInv, Ready
<1>4. CASE ~(disk.cache.key = key /\ ~disk.cache.old)
  <2> DEFINE c == [disk.cache EXCEPT !.pages = CoverFill, !.old = FALSE, !.torn = TRUE]
  <2>1. stage' = "key" /\ disk' = [disk EXCEPT !.cache = [@ EXCEPT !.pages = CoverFill, !.old = FALSE, !.torn = TRUE]]
    BY <1>4 DEF Fill
  <2>2. disk' = [disk EXCEPT !.cache = c]
    BY <2>1
  <2>3. CacheIs(c) /\ c.pages = CoverFill
    BY <1>2, CacheFilled DEF DiskIs
  <2> HIDE DEF c
  <2>4. DiskIs(disk') /\ disk'.cache = c /\ disk'.packet = disk.packet
    BY <1>2, <2>2, <2>3, CachePut
  <2>5. Filled(disk'.cache.pages)
    BY <2>3, <2>4, CoverFilled DEF LayInv
  <2>6. Middle' = Middle
    BY <1>1 DEF Middle, BodyPages, Attached, ListPages, ExhibitPages, Page
  <2> QED
    BY <1>1, <1>2, <2>1, <2>4, <2>5, <2>6 DEF PackInv, Ready
<1> QED
  BY <1>3, <1>4

LEMMA KeyPack ==
  ASSUME LayInv, PackInv, WriteKey
  PROVE  PackInv'
<1>1. /\ src' = src /\ final' = final /\ variant' = variant /\ own' = own /\ sheet' = sheet /\ blocks' = blocks
      /\ stage = "key" /\ stage' = "prepend"
  BY DEF WriteKey, Keep, srcVars, layVars, parseVars
<1>2. own = ExhibitsOf(src, variant) /\ src.cover /\ (~src.coverOnly => disk.packet = Middle) /\ (src.coverOnly => src.cover /\ blocks = << >>)
      /\ DiskIs(disk) /\ final \in BOOLEAN /\ Filled(disk.cache.pages)
  BY <1>1 DEF PackInv
<1> DEFINE c == [disk.cache EXCEPT !.key = FillKey(log), !.torn = FALSE]
<1>3. disk' = [disk EXCEPT !.cache = c]
  BY DEF WriteKey
<1>4. CacheIs(c) /\ c.pages = disk.cache.pages
  BY <1>2, CacheKeyed DEF DiskIs
<1> HIDE DEF c
<1>5. DiskIs(disk') /\ disk'.cache = c /\ disk'.packet = disk.packet
  BY <1>2, <1>3, <1>4, CachePut
<1>6. Middle' = Middle
  BY <1>1, <1>4, <1>5, Frame
<1> QED
  BY <1>1, <1>2, <1>4, <1>5, <1>6 DEF PackInv, Ready

LEMMA PrependPack ==
  ASSUME LayInv, PackInv, Prepend
  PROVE  PackInv'
<1>1. /\ src' = src /\ final' = final /\ variant' = variant /\ own' = own /\ sheet' = sheet /\ blocks' = blocks
      /\ stage = "prepend" /\ stage' = "notices"
  BY DEF Prepend, Keep, srcVars, layVars, parseVars
<1>2. own = ExhibitsOf(src, variant) /\ src.cover /\ (~src.coverOnly => disk.packet = Middle)
      /\ (src.coverOnly => blocks = << >>) /\ DiskIs(disk) /\ final \in BOOLEAN /\ Filled(disk.cache.pages)
  BY <1>1 DEF PackInv
<1> DEFINE x == Cover \o (IF src.coverOnly THEN Attached ELSE disk.packet)
<1>3. disk' = [disk EXCEPT !.packet = x]
  BY DEF Prepend
<1>4. stage \in Late
  BY <1>1 DEF Late
<1>5. x = Cover \o Middle
  BY <1>2, <1>4, MiddleSeq
<1>6. x = Assembled
  BY <1>2, <1>5 DEF Assembled
<1> HIDE DEF x
<1>7. DiskIs(disk') /\ disk'.cache = disk.cache /\ disk'.packet = x
  BY <1>2, <1>3, PacketPut
<1>8. Assembled' = Assembled
  BY <1>1, <1>7, Frame
<1> QED
  BY <1>1, <1>2, <1>6, <1>7, <1>8 DEF PackInv, Ready

\* From here on the packet changes only by the banner.
LEMMA ReadyPack ==
  ASSUME LayInv, PackInv, Notices \/ StampPacket \/ StampNotices \/ WriteFields \/ WriteLog
  PROVE  PackInv'
<1>1. /\ src' = src /\ final' = final /\ variant' = variant /\ own' = own /\ sheet' = sheet /\ blocks' = blocks
      /\ stage \in Ready /\ stage' \in Ready
  BY DEF Notices, StampPacket, StampNotices, WriteFields, WriteLog, Keep, srcVars, layVars, parseVars, Ready
<1>2. own = ExhibitsOf(src, variant) /\ (src.coverOnly => src.cover /\ blocks = << >>) /\ DiskIs(disk) /\ final \in BOOLEAN
      /\ (src.cover => Filled(disk.cache.pages)) /\ (disk.cache.key # << >> => Filled(disk.cache.pages))
  BY <1>1 DEF PackInv, Ready
<1>3. ASSUME DiskIs(disk'), disk'.cache = disk.cache,
             stage' \in {"notices", "stamp"} => disk'.packet = Assembled,
             stage' \in {"stamp notices", "fields", "log", "done"} => disk'.packet = Banner,
             stage' = "stamp notices" => ~final,
             stage' \in {"log", "done"} => disk'.fields = FieldsOf(SignMarks)
      PROVE  PackInv'
  <2>1. Assembled' = Assembled /\ Banner' = Banner /\ FieldsOf(SignMarks)' = FieldsOf(SignMarks)
    BY <1>1, <1>3, Frame
  <2> QED
    BY <1>1, <1>2, <1>3, <2>1 DEF PackInv, Ready
<1>4. CASE Notices
  <2>1. stage = "notices" /\ stage' \in {"stamp", "failed"}
    BY <1>4 DEF Notices
  <2>2. \E x : disk' = [disk EXCEPT !.notices = x]
    BY <1>4 DEF Notices
  <2>3. DiskIs(disk') /\ disk'.cache = disk.cache /\ disk'.packet = disk.packet
    BY <1>2, <2>2, NoticesPut
  <2>4. disk.packet = Assembled
    BY <2>1 DEF PackInv
  <2> QED
    BY <1>3, <2>1, <2>3, <2>4
<1>5. CASE StampPacket
  <2>1. stage = "stamp" /\ stage' = (IF final THEN "fields" ELSE "stamp notices") /\ disk.packet = Assembled
    BY <1>5 DEF StampPacket, PackInv
  <2>2. CASE final
    <3>1. disk' = disk /\ stage' = "fields"
      BY <1>5, <2>2 DEF StampPacket
    <3>2. disk.packet = Banner
      BY <2>1, <2>2 DEF Banner
    <3> QED
      BY <1>2, <1>3, <3>1, <3>2
  <2>3. CASE ~final
    <3> DEFINE x == Stamped(disk.packet)
    <3>1. disk' = [disk EXCEPT !.packet = x] /\ stage' = "stamp notices"
      BY <1>5, <2>3 DEF StampPacket
    <3>2. x = Banner
      BY <2>1, <2>3 DEF Banner
    <3> HIDE DEF x
    <3>3. DiskIs(disk') /\ disk'.cache = disk.cache /\ disk'.packet = x
      BY <1>2, <3>1, PacketPut
    <3> QED
      BY <1>3, <2>3, <3>1, <3>2, <3>3
  <2> QED
    BY <2>2, <2>3
<1>6. CASE StampNotices
  <2>1. stage = "stamp notices" /\ stage' = "fields" /\ disk.packet = Banner
    BY <1>6 DEF StampNotices, PackInv
  <2>2. \E x : disk' = [disk EXCEPT !.notices = x]
    BY <1>6 DEF StampNotices
  <2>3. DiskIs(disk') /\ disk'.cache = disk.cache /\ disk'.packet = disk.packet
    BY <1>2, <2>2, NoticesPut
  <2> QED
    BY <1>3, <2>1, <2>3
<1>7. CASE WriteFields
  <2>1. stage = "fields" /\ stage' = "log" /\ disk.packet = Banner
    BY <1>7 DEF WriteFields, PackInv
  <2> DEFINE x == FieldsOf(SignMarks)
  <2>2. disk' = [disk EXCEPT !.fields = x]
    BY <1>7 DEF WriteFields
  <2> HIDE DEF x
  <2>3. DiskIs(disk') /\ disk'.cache = disk.cache /\ disk'.packet = disk.packet /\ disk'.fields = x
    BY <1>2, <2>2, FieldsPut
  <2> QED
    BY <1>3, <2>1, <2>3 DEF x
<1>8. CASE WriteLog
  <2>1. stage = "log" /\ stage' = "done" /\ disk.packet = Banner /\ disk.fields = FieldsOf(SignMarks)
    BY <1>8 DEF WriteLog, PackInv
  <2>2. \E x : disk' = [disk EXCEPT !.log = x]
    BY <1>8 DEF WriteLog
  <2>3. DiskIs(disk') /\ disk'.cache = disk.cache /\ disk'.packet = disk.packet /\ disk'.fields = disk.fields
    BY <1>2, <2>2, LogPut
  <2> QED
    BY <1>3, <2>1, <2>3
<1> QED
  BY <1>4, <1>5, <1>6, <1>7, <1>8

LEMMA EndPack ==
  ASSUME LayInv, PackInv, Stop \/ Edit
  PROVE  PackInv'
<1>1. stage' = "idle" /\ final' = final
  BY DEF Stop, Edit, Forget, srcVars
<1>2. DiskIs(disk) /\ final \in BOOLEAN /\ (disk.cache.key # << >> => Filled(disk.cache.pages))
  BY DEF PackInv
<1>3. DiskIs(disk') /\ disk'.cache.pages = disk.cache.pages /\ disk'.cache.key = disk.cache.key
  <2>1. CASE Stop
    BY <1>2, <2>1 DEF Stop
  <2>2. CASE Edit
    <3>1. disk' = [disk EXCEPT !.cache.old = TRUE]
      BY <2>2 DEF Edit
    <3> QED
      BY <1>2, <3>1, CacheOld
  <2> QED
    BY <2>1, <2>2
<1> QED
  BY <1>1, <1>2, <1>3 DEF PackInv, Ready

LEMMA AsidePack ==
  ASSUME PackInv, UNCHANGED <<parseVars, layVars, srcVars, stage, disk>>
  PROVE  PackInv'
<1>1. /\ src' = src /\ final' = final /\ variant' = variant /\ own' = own /\ sheet' = sheet /\ blocks' = blocks
      /\ stage' = stage /\ disk' = disk
  BY DEF srcVars, layVars, parseVars
<1>2. Assembled' = Assembled /\ Middle' = Middle /\ Banner' = Banner /\ FieldsOf(SignMarks)' = FieldsOf(SignMarks)
  BY <1>1, Frame
<1> QED
  BY <1>1, <1>2 DEF PackInv

LEMMA StepOf ==
  ASSUME [PleadNext]_pleadVars
  PROVE  \/ (\E request : \E fin \in BOOLEAN : Begin(request, fin)) \/ (Parse \/ Lay)
         \/ Merge \/ Fill \/ WriteKey \/ Prepend
         \/ (Notices \/ StampPacket \/ StampNotices \/ WriteFields \/ WriteLog) \/ (Stop \/ Edit)
         \/ UNCHANGED <<parseVars, layVars, srcVars, stage, disk>>
  BY DEF PleadNext, pleadVars, Build, Export, FillAlone

LEMMA PackStep ==
  ASSUME LayInv, PackInv, [PleadNext]_pleadVars
  PROVE  PackInv'
  BY StepOf, BeginPack, ReadPack, MergePack, FillPack, KeyPack, PrependPack, ReadyPack, EndPack, AsidePack

\* The packet and the cache are at every stage what the stages before made.
THEOREM PackHolds == PleadSpec => []PackInv
<1>1. PleadInit => PackInv
  BY PackFirst
<1>2. LayInv /\ PackInv /\ [PleadNext]_pleadVars => PackInv'
  BY PackStep
<1> QED
  BY <1>1, <1>2, LayHolds, PTL DEF PleadSpec

-----------------------------------------------------------------------------
(* The notices.                                                            *)

NoticeIs(n) == n = [to |-> n.to, stamped |-> n.stamped, of |-> n.of] /\ n.of \in Nat /\ n.of <= builds

Unnoticed == {"parse", "lay", "merge", "fill", "key", "prepend", "notices"}
Noticed  == {"stamp", "stamp notices", "fields", "log", "done"}

\* The notices of this build, and what is there from earlier ones.
NoteInv ==
  /\ builds \in Nat /\ \A n \in disk.notices : NoticeIs(n)
  /\ stage \in Unnoticed => \A n \in disk.notices : n.of < builds
  /\ stage \in {"stamp", "stamp notices"} => \A n \in disk.notices : n.of = builds => n.stamped = FALSE
  /\ stage \in {"fields", "log", "done"} => \A n \in disk.notices : n.of = builds => n.stamped = ~final
  /\ stage \in Noticed => {n.to : n \in {n \in disk.notices : n.of = builds}} = {src.notices[k].to : k \in DOMAIN src.notices}

LEMMA NoteFirst ==
  ASSUME PleadInit
  PROVE  NoteInv
<1>1. stage = "idle" /\ builds = 0 /\ disk.notices = {}
  BY DEF PleadInit, EmptyDisk
<1> QED
  BY <1>1 DEF NoteInv, Unnoticed, Noticed

LEMMA BeginNote ==
  ASSUME NoteInv, NEW request, NEW fin \in BOOLEAN, Begin(request, fin)
  PROVE  NoteInv'
<1>1. disk' = disk /\ builds' = builds + 1 /\ stage' \in {"fill", "parse"}
  BY DEF Begin
<1>2. ASSUME NEW n \in disk'.notices PROVE NoticeIs(n)' /\ n.of < builds'
  <2>1. n = [to |-> n.to, stamped |-> n.stamped, of |-> n.of] /\ n.of \in Nat /\ n.of <= builds /\ builds \in Nat
    BY <1>1, <1>2 DEF NoteInv, NoticeIs
  <2>2. n.of <= builds' /\ n.of < builds'
    BY <1>1, <2>1
  <2> QED
    BY <2>1, <2>2 DEF NoticeIs
<1>3. builds' \in Nat
  <2>1. builds \in Nat
    BY DEF NoteInv
  <2> QED
    BY <1>1, <2>1
<1> QED
  BY <1>1, <1>2, <1>3 DEF NoteInv, Unnoticed, Noticed

\* Where the notices are let alone.
LEMMA StillNote ==
  ASSUME NoteInv, builds' = builds, final' = final, disk'.notices = disk.notices,
         \/ stage \in Unnoticed /\ stage' \in Unnoticed
         \/ stage' = "idle"
         \/ stage = "stamp" /\ final = TRUE /\ stage' = "fields" /\ src' = src
         \/ stage = "stamp" /\ stage' = "stamp notices" /\ src' = src
         \/ stage \in {"fields", "log", "done"} /\ stage' \in {"fields", "log", "done"} /\ src' = src
         \/ stage' = stage /\ src' = src
  PROVE  NoteInv'
<1>1. builds' \in Nat /\ \A n \in disk'.notices : NoticeIs(n)'
  BY DEF NoteInv, NoticeIs
<1> QED
  BY <1>1 DEF NoteInv, Unnoticed, Noticed

LEMMA MinOne ==
  ASSUME NEW x
  PROVE  Min({} \cup {x}) = x
  BY DEF Min

LEMMA NoticesNote ==
  ASSUME LayInv, PackInv, NoteInv, Notices
  PROVE  NoteInv'
<1> DEFINE ns == src.notices  m == Len(ns)
           stray == {k \in DOMAIN ns : ns[k].field = Stray}
           filled == {Notice(k) : k \in 1 .. Min(stray \cup {m})}
           stay == {n \in disk.notices : \A f \in filled : f.to # n.to}
           x == stay \cup filled
<1>1. stage = "notices" /\ src' = src /\ builds' = builds /\ final' = final
      /\ disk' = [disk EXCEPT !.notices = x] /\ stage' = IF stray = {} THEN "stamp" ELSE "failed"
  BY DEF Notices, Keep, srcVars
<1>2. m \in Nat /\ DOMAIN ns = 1 .. m
  <2>1. IsSeq(ns)
    BY SourceAssumption DEF LayInv, IsSeq
  <2> QED
    BY <2>1, SeqIs
<1>3. \A n \in disk.notices : NoticeIs(n) /\ n.of < builds
  BY <1>1 DEF NoteInv, Unnoticed
<1>4. builds \in Nat
  BY DEF NoteInv
<1>5. ASSUME NEW n \in filled PROVE NoticeIs(n) /\ n.of = builds /\ n.stamped = FALSE
  <2>1. PICK k : n = [to |-> ns[k].to, stamped |-> FALSE, of |-> builds]
    BY <1>5 DEF Notice
  <2>2. n = [to |-> n.to, stamped |-> n.stamped, of |-> n.of] /\ n.of = builds /\ n.stamped = FALSE
    BY <2>1
  <2> QED
    BY <1>4, <2>2 DEF NoticeIs
<1>6. disk'.notices = x
  BY <1>1, NoticesPut DEF PackInv
<1>7. \A n \in x : NoticeIs(n)' /\ (n.of = builds => n.stamped = FALSE)
  <2> SUFFICES ASSUME NEW n \in x PROVE NoticeIs(n)' /\ (n.of = builds => n.stamped = FALSE)
    OBVIOUS
  <2>1. NoticeIs(n) /\ (n.of = builds => n.stamped = FALSE)
    <3>1. CASE n \in filled
      BY <1>5, <3>1
    <3>2. CASE n \notin filled
      <4>1. n \in disk.notices
        BY <3>2
      <4>2. NoticeIs(n) /\ n.of < builds /\ n.of \in Nat
        BY <1>3, <4>1 DEF NoticeIs
      <4> QED
        BY <1>4, <4>2
    <3> QED
      BY <3>1, <3>2
  <2> QED
    BY <1>1, <2>1 DEF NoticeIs
<1>8. CASE stray # {}
  BY <1>1, <1>4, <1>6, <1>7, <1>8 DEF NoteInv, Unnoticed, Noticed
<1>9. CASE stray = {}
  <2>1. filled = {Notice(k) : k \in 1 .. m}
    BY <1>9, MinOne
  <2>2. {n \in x : n.of = builds} = filled
    <3>1. ASSUME NEW n \in x, n.of = builds PROVE n \in filled
      <4>1. ASSUME n \notin filled PROVE FALSE
        <5>1. n \in disk.notices
          BY <4>1
        <5>2. n.of < builds
          BY <1>3, <5>1
        <5> QED
          BY <1>4, <3>1, <5>2
      <4> QED
        BY <4>1
    <3>2. \A n \in filled : n \in x /\ n.of = builds
      BY <1>5
    <3> QED
      BY <3>1, <3>2
  <2>3. {n.to : n \in filled} = {ns[k].to : k \in 1 .. m}
    <3>1. \A k \in 1 .. m : Notice(k).to = ns[k].to
      BY DEF Notice
    <3> HIDE DEF filled
    <3> QED
      BY <2>1, <3>1
  <2> HIDE DEF filled, x, stray
  <2>4. {n.to : n \in {n \in disk'.notices : n.of = builds'}} = {src'.notices[k].to : k \in DOMAIN src'.notices}
    BY <1>1, <1>2, <1>6, <2>2, <2>3
  <2>5. stage' = "stamp"
    BY <1>1, <1>9
  <2> QED
    BY <1>1, <1>4, <1>6, <1>7, <2>4, <2>5 DEF NoteInv, Unnoticed, Noticed
<1> QED
  BY <1>8, <1>9

LEMMA StampNote ==
  ASSUME LayInv, PackInv, NoteInv, StampNotices
  PROVE  NoteInv'
<1> DEFINE d == disk.notices
           st(n) == [n EXCEPT !.stamped = @ \/ n.of = builds]
           x == {st(n) : n \in d}
<1>1. stage = "stamp notices" /\ stage' = "fields" /\ src' = src /\ builds' = builds /\ final' = final
      /\ disk' = [disk EXCEPT !.notices = x]
  BY DEF StampNotices, Keep, srcVars
<1>2. disk'.notices = x
  BY <1>1, NoticesPut DEF PackInv
<1>3. builds \in Nat /\ final = FALSE
  BY <1>1 DEF NoteInv, PackInv
<1>4. ASSUME NEW n \in d PROVE NoticeIs(st(n)) /\ st(n).to = n.to /\ st(n).of = n.of /\ (n.of = builds => st(n).stamped = TRUE)
  <2>1. n = [to |-> n.to, stamped |-> n.stamped, of |-> n.of] /\ n.of \in Nat /\ n.of <= builds
    BY <1>4 DEF NoteInv, NoticeIs
  <2> DEFINE c == n.stamped \/ n.of = builds  e == [n EXCEPT !.stamped = c]
  <2>2. st(n) = e
    BY <2>1
  <2>3. n.of = builds => c = TRUE
    OBVIOUS
  <2> HIDE DEF c, st
  <2>4. e = [to |-> n.to, stamped |-> c, of |-> n.of]
    BY <2>1
  <2> HIDE DEF e
  <2>5. e = [to |-> e.to, stamped |-> e.stamped, of |-> e.of] /\ e.to = n.to /\ e.of = n.of /\ e.stamped = c
    BY <2>4
  <2>6. NoticeIs(e)
    BY <2>1, <2>5 DEF NoticeIs
  <2>7. n.of = builds => e.stamped = TRUE
    BY <2>3, <2>5, Zenon
  <2> QED
    BY <2>2, <2>5, <2>6, <2>7
<1> HIDE DEF st
<1>5. ASSUME NEW n \in x PROVE NoticeIs(n)' /\ (n.of = builds => n.stamped = TRUE)
  <2>1. PICK m \in d : n = st(m)
    OBVIOUS
  <2>2. NoticeIs(st(m)) /\ st(m).of = m.of /\ (m.of = builds => st(m).stamped = TRUE)
    BY <1>4
  <2>3. NoticeIs(n) /\ (n.of = builds => n.stamped = TRUE)
    BY <2>1, <2>2
  <2> QED
    BY <1>1, <2>3 DEF NoticeIs
<1>6. {n.to : n \in {n \in x : n.of = builds}} = {n.to : n \in {n \in d : n.of = builds}}
  <2>1. ASSUME NEW n \in x, n.of = builds PROVE \E m \in d : m.of = builds /\ n.to = m.to
    BY <1>4, <2>1
  <2>2. ASSUME NEW m \in d, m.of = builds PROVE \E n \in x : n.of = builds /\ n.to = m.to
    <3>1. st(m) \in x /\ st(m).of = builds /\ st(m).to = m.to
      BY <1>4, <2>2
    <3> QED
      BY <3>1
  <2> HIDE DEF x, d
  <2> QED
    BY <2>1, <2>2
<1>7. {n.to : n \in {n \in d : n.of = builds}} = {src.notices[k].to : k \in DOMAIN src.notices}
  BY <1>1 DEF NoteInv, Noticed
<1> HIDE DEF x
<1>8. {n.to : n \in {n \in disk'.notices : n.of = builds'}} = {src'.notices[k].to : k \in DOMAIN src'.notices}
  BY <1>1, <1>2, <1>6, <1>7
<1>9. \A n \in disk'.notices : n.of = builds' => n.stamped = ~final'
  BY <1>1, <1>2, <1>3, <1>5
<1> QED
  BY <1>1, <1>2, <1>3, <1>5, <1>8, <1>9 DEF NoteInv, Unnoticed, Noticed

LEMMA OtherNote ==
  ASSUME LayInv, PackInv, NoteInv,
         \/ Parse \/ Lay \/ Merge \/ Fill \/ WriteKey \/ Prepend \/ StampPacket \/ WriteFields \/ WriteLog
         \/ Stop \/ Edit \/ UNCHANGED <<parseVars, layVars, srcVars, stage, disk>>
  PROVE  NoteInv'
<1>1. DiskIs(disk) /\ final \in BOOLEAN
  BY DEF PackInv
<1>2. CASE Parse \/ Lay
  <2>1. stage \in Unnoticed /\ stage' \in Unnoticed /\ builds' = builds /\ final' = final /\ disk' = disk
    BY <1>2 DEF Parse, Lay, srcVars, Unnoticed
  <2> QED
    BY <2>1, StillNote
<1>3. CASE Merge \/ Prepend
  <2>1. stage \in Unnoticed /\ stage' \in Unnoticed /\ builds' = builds /\ final' = final
    BY <1>3 DEF Merge, Prepend, Keep, srcVars, Unnoticed
  <2>2. \E x : disk' = [disk EXCEPT !.packet = x]
    BY <1>3 DEF Merge, Prepend
  <2>3. disk'.notices = disk.notices
    BY <1>1, <2>2, PacketPut
  <2> QED
    BY <2>1, <2>3, StillNote
<1>4. CASE Fill
  <2>1. stage \in Unnoticed /\ stage' \in Unnoticed /\ builds' = builds /\ final' = final
    BY <1>4 DEF Fill, Unnoticed
  <2>2. disk'.notices = disk.notices
    <3> DEFINE c == [disk.cache EXCEPT !.pages = CoverFill, !.old = FALSE, !.torn = TRUE]
    <3>1. disk' = disk \/ disk' = [disk EXCEPT !.cache = c]
      BY <1>4 DEF Fill
    <3>2. CacheIs(c)
      BY <1>1, CacheFilled DEF DiskIs
    <3> HIDE DEF c
    <3>3. [disk EXCEPT !.cache = c].notices = disk.notices
      BY <1>1, <3>2, CachePut
    <3> QED
      BY <3>1, <3>3
  <2> QED
    BY <2>1, <2>2, StillNote
<1>5. CASE WriteKey
  <2>1. stage \in Unnoticed /\ stage' \in Unnoticed /\ builds' = builds /\ final' = final
    BY <1>5 DEF WriteKey, Keep, srcVars, Unnoticed
  <2>2. disk'.notices = disk.notices
    <3> DEFINE c == [disk.cache EXCEPT !.key = FillKey(log), !.torn = FALSE]
    <3>1. disk' = [disk EXCEPT !.cache = c]
      BY <1>5 DEF WriteKey
    <3>2. CacheIs(c)
      BY <1>1, CacheKeyed DEF DiskIs
    <3> HIDE DEF c
    <3> QED
      BY <1>1, <3>1, <3>2, CachePut
  <2> QED
    BY <2>1, <2>2, StillNote
<1>6. CASE StampPacket
  <2>1. stage = "stamp" /\ builds' = builds /\ final' = final /\ src' = src
        /\ stage' = (IF final THEN "fields" ELSE "stamp notices")
    BY <1>6 DEF StampPacket, Keep, srcVars
  <2>2. disk' = disk \/ \E x : disk' = [disk EXCEPT !.packet = x]
    BY <1>6 DEF StampPacket
  <2>3. disk'.notices = disk.notices
    <3>1. CASE disk' = disk
      BY <3>1
    <3>2. CASE disk' # disk
      <4>1. PICK x : disk' = [disk EXCEPT !.packet = x]
        BY <2>2, <3>2
      <4> QED
        BY <1>1, <4>1, PacketPut
    <3> QED
      BY <3>1, <3>2
  <2>4. CASE final
    BY <1>1, <2>1, <2>3, <2>4, StillNote
  <2>5. CASE ~final
    BY <1>1, <2>1, <2>3, <2>5, StillNote
  <2> QED
    BY <2>4, <2>5
<1>7. CASE WriteFields \/ WriteLog
  <2>1. stage \in {"fields", "log", "done"} /\ stage' \in {"fields", "log", "done"} /\ builds' = builds /\ final' = final /\ src' = src
    BY <1>7 DEF WriteFields, WriteLog, Keep, srcVars
  <2>2. PICK x : disk' = [disk EXCEPT !.fields = x] \/ disk' = [disk EXCEPT !.log = x]
    BY <1>7 DEF WriteFields, WriteLog
  <2>4. [disk EXCEPT !.fields = x].notices = disk.notices
    BY <1>1, FieldsPut
  <2>5. [disk EXCEPT !.log = x].notices = disk.notices
    BY <1>1, LogPut
  <2>3. disk'.notices = disk.notices
    BY <2>2, <2>4, <2>5
  <2> QED
    BY <2>1, <2>3, StillNote
<1>8. CASE Stop
  <2>1. stage' = "idle" /\ builds' = builds /\ final' = final /\ disk' = disk
    BY <1>8 DEF Stop, Forget, srcVars
  <2> QED
    BY <2>1, StillNote
<1>9. CASE Edit
  <2>1. stage' = "idle" /\ builds' = builds /\ final' = final /\ disk' = [disk EXCEPT !.cache.old = TRUE]
    BY <1>9 DEF Edit
  <2>2. disk'.notices = disk.notices
    BY <1>1, <2>1, CacheOld
  <2> QED
    BY <2>1, <2>2, StillNote
<1>10. CASE UNCHANGED <<parseVars, layVars, srcVars, stage, disk>>
  <2>1. stage' = stage /\ src' = src /\ builds' = builds /\ final' = final /\ disk' = disk
    BY <1>10 DEF srcVars
  <2> QED
    BY <2>1, StillNote
<1> QED
  BY <1>2, <1>3, <1>4, <1>5, <1>6, <1>7, <1>8, <1>9, <1>10

LEMMA NoteStep ==
  ASSUME LayInv, PackInv, NoteInv, [PleadNext]_pleadVars
  PROVE  NoteInv'
  BY StepOf, BeginNote, NoticesNote, StampNote, OtherNote

\* The notices of this build are there, and stamped when it is a draft.
THEOREM NoteHolds == PleadSpec => []NoteInv
<1>1. PleadInit => NoteInv
  BY NoteFirst
<1>2. LayInv /\ PackInv /\ NoteInv /\ [PleadNext]_pleadVars => NoteInv'
  BY NoteStep
<1> QED
  BY <1>1, <1>2, LayHolds, PackHolds, PTL DEF PleadSpec

-----------------------------------------------------------------------------
(* The packet, page by page.                                               *)

\* A page as merge_outputs leaves it.
PageIs(e) == e = [part |-> e.part, name |-> e.name, words |-> e.words, stamped |-> FALSE] /\ e.stamped = FALSE

PagesOk(ps) == IsSeq(ps) /\ \A k \in 1 .. Len(ps) : PageIs(ps[k])

LEMMA PageOk ==
  ASSUME NEW part, NEW name, NEW words
  PROVE  LET e == Page(part, name, words) IN PageIs(e) /\ e.part = part /\ e.name = name /\ e.words = words
<1> DEFINE e == Page(part, name, words)
<1>1. e = [part |-> part, name |-> name, words |-> words, stamped |-> FALSE]
  BY DEF Page
<1> HIDE DEF e
<1>2. e.part = part /\ e.name = name /\ e.words = words /\ e.stamped = FALSE
  BY <1>1
<1>3. e = [part |-> e.part, name |-> e.name, words |-> e.words, stamped |-> FALSE]
  BY <1>1, <1>2
<1> QED
  BY <1>2, <1>3 DEF PageIs, e

LEMMA OnePage ==
  ASSUME NEW part, NEW name, NEW words
  PROVE  LET ps == <<Page(part, name, words)>> IN PagesOk(ps) /\ Len(ps) = 1 /\ ps[1] = Page(part, name, words)
<1> DEFINE e == Page(part, name, words)  ps == <<e>>
<1>1. PageIs(e)
  BY PageOk
<1> HIDE DEF e
<1>2. IsSeq(ps) /\ Len(ps) = 1 /\ ps[1] = e
  BY OneSeq
<1> HIDE DEF ps
<1>3. PagesOk(ps)
  BY <1>1, <1>2 DEF PagesOk
<1> QED
  BY <1>2, <1>3 DEF ps, e

LEMMA NoPages == PagesOk(<< >>)
  BY NoneSeq DEF PagesOk

LEMMA PagesJoin ==
  ASSUME NEW a, PagesOk(a), NEW b, PagesOk(b)
  PROVE  /\ PagesOk(a \o b) /\ Len(a \o b) = Len(a) + Len(b) /\ Len(a) \in Nat /\ Len(b) \in Nat
         /\ \A k \in 1 .. Len(a) : (a \o b)[k] = a[k]
         /\ \A k \in 1 .. Len(b) : (a \o b)[Len(a) + k] = b[k]
<1>1. IsSeq(a) /\ IsSeq(b) /\ Len(a) \in Nat /\ Len(b) \in Nat
  BY SeqIs DEF PagesOk
<1>2. IsSeq(a \o b) /\ Len(a \o b) = Len(a) + Len(b) /\ \A k \in 1 .. Len(a) : (a \o b)[k] = a[k]
  BY <1>1, Joined
<1>3. \A k \in 1 .. Len(b) : (a \o b)[Len(a) + k] = b[k]
  BY <1>1, JoinedAt
<1> DEFINE u == a \o b
<1> HIDE DEF u
<1>4. ASSUME NEW k \in 1 .. Len(u) PROVE PageIs(u[k])
  <2>1. k \in 1 .. Len(a) \/ (k - Len(a) \in 1 .. Len(b) /\ Len(a) + (k - Len(a)) = k)
    BY <1>1, <1>2, Halves DEF u
  <2>2. CASE k \in 1 .. Len(a)
    BY <1>2, <2>2 DEF PagesOk, u
  <2>3. CASE k - Len(a) \in 1 .. Len(b) /\ Len(a) + (k - Len(a)) = k
    BY <1>3, <2>3 DEF PagesOk, u
  <2> QED
    BY <2>1, <2>2, <2>3
<1>5. PagesOk(u)
  BY <1>2, <1>4 DEF PagesOk, u
<1> QED
  BY <1>1, <1>2, <1>3, <1>5 DEF u

LEMMA FlatPages ==
  ASSUME NEW ps, IsSeq(ps), \A i \in 1 .. Len(ps) : PagesOk(ps[i])
  PROVE  PagesOk(FlattenSeq(ps)) /\ \A i \in 1 .. Len(ps) : \A j \in 1 .. Len(ps[i]) : ps[i][j] \in ToSet(FlattenSeq(ps))
<1> DEFINE l == FlattenSeq(ps)  n == Len(ps)
<1>1. IsSeqs(ps)
  BY DEF IsSeqs, PagesOk
<1>2. IsSeq(l) /\ ToSet(l) = UNION {ToSet(ps[i]) : i \in 1 .. n}
  BY <1>1, Flattened
<1> HIDE DEF l
<1>3. \A i \in 1 .. n : DOMAIN ps[i] = 1 .. Len(ps[i])
  BY SeqIs DEF PagesOk
<1>4. ASSUME NEW k \in 1 .. Len(l) PROVE PageIs(l[k])
  <2>1. l[k] \in ToSet(l)
    BY <1>2, SeqIs DEF ToSet
  <2>2. PICK i \in 1 .. n : l[k] \in ToSet(ps[i])
    BY <1>2, <2>1
  <2>3. PICK j \in 1 .. Len(ps[i]) : l[k] = ps[i][j]
    BY <1>3, <2>2 DEF ToSet
  <2> QED
    BY <2>3 DEF PagesOk
<1>5. ASSUME NEW i \in 1 .. n, NEW j \in 1 .. Len(ps[i]) PROVE ps[i][j] \in ToSet(l)
  <2>1. ps[i][j] \in ToSet(ps[i])
    BY <1>3 DEF ToSet
  <2> QED
    BY <1>2, <2>1
<1>6. PagesOk(l)
  BY <1>2, <1>4 DEF PagesOk
<1> QED
  BY <1>5, <1>6 DEF l

\* What is attached: pages, and among them the tab of each exhibit.
LEMMA AttachedOk ==
  ASSUME src \in Sources, own = ExhibitsOf(src, variant)
  PROVE  /\ PagesOk(Attached)
         /\ \A k \in DOMAIN own : ~(own[k].sealed /\ variant = "sealed") =>
              \E j \in 1 .. Len(Attached) : Attached[j] = Page("tab", own[k].name, {own[k].letter})
<1>1. IsSeq(own)
  BY ExhibitsSeq
<1> DEFINE n == Len(own)  ps == [k \in 1 .. n |-> ExhibitPages(own[k])]
           tab(ex) == Page("tab", ex.name, {ex.letter})
<1>2. n \in Nat /\ DOMAIN own = 1 .. n
  BY <1>1, SeqIs
<1>3. ASSUME NEW ex
      PROVE  /\ PagesOk(ExhibitPages(ex))
             /\ ~(ex.sealed /\ variant = "sealed") =>
                  1 \in 1 .. Len(ExhibitPages(ex)) /\ ExhibitPages(ex)[1] = tab(ex)
  <2> DEFINE a == IF ex.sealed /\ variant = "sealed" THEN << >> ELSE <<tab(ex)>>
             b == IF ex.sealed THEN << >> ELSE <<Page(ex.file, ex.name, {})>>
  <2>1. PagesOk(a) /\ (~(ex.sealed /\ variant = "sealed") => Len(a) = 1 /\ a[1] = tab(ex))
    BY OnePage, NoPages
  <2>2. PagesOk(b)
    BY OnePage, NoPages
  <2>3. ExhibitPages(ex) = a \o b
    BY DEF ExhibitPages
  <2> HIDE DEF a, b, tab
  <2>4. PagesOk(a \o b) /\ Len(a \o b) = Len(a) + Len(b) /\ Len(b) \in Nat /\ \A k \in 1 .. Len(a) : (a \o b)[k] = a[k]
    BY <2>1, <2>2, PagesJoin
  <2>5. ASSUME ~(ex.sealed /\ variant = "sealed") PROVE 1 \in 1 .. Len(a \o b) /\ (a \o b)[1] = tab(ex)
    <3>1. Len(a) = 1 /\ a[1] = tab(ex)
      BY <2>1, <2>5
    <3>2. 1 \in 1 .. Len(a)
      BY <3>1
    <3>3. (a \o b)[1] = tab(ex)
      BY <2>4, <3>1, <3>2
    <3>4. Len(a \o b) \in Nat /\ Len(a \o b) >= 1
      BY <2>4, <3>1
    <3> QED
      BY <3>3, <3>4
  <2> QED
    BY <2>3, <2>4, <2>5
<1>4. IsSeq(ps) /\ Len(ps) = n /\ \A k \in 1 .. n : ps[k] = ExhibitPages(own[k])
  BY <1>2, FcnSeq
<1>5. Attached = ListPages \o FlattenSeq(ps)
  BY <1>2 DEF Attached
<1> HIDE DEF ps, tab
<1> DEFINE l == FlattenSeq(ps)
<1>6. PagesOk(l) /\ \A i \in 1 .. n : \A j \in 1 .. Len(ps[i]) : ps[i][j] \in ToSet(l)
  BY <1>3, <1>4, FlatPages
<1> HIDE DEF l
<1>7. PagesOk(ListPages)
  BY OnePage, NoPages DEF ListPages
<1> DEFINE ls == ListPages
<1> HIDE DEF ls
<1>8. PagesOk(ls \o l) /\ Len(ls \o l) = Len(ls) + Len(l) /\ Len(ls) \in Nat /\ Len(l) \in Nat
      /\ \A k \in 1 .. Len(l) : (ls \o l)[Len(ls) + k] = l[k]
  BY <1>6, <1>7, PagesJoin DEF ls
<1>9. Attached = ls \o l
  BY <1>5 DEF ls, l
<1>10. ASSUME NEW k \in 1 .. n, ~(own[k].sealed /\ variant = "sealed")
       PROVE  \E j \in 1 .. Len(Attached) : Attached[j] = tab(own[k])
  <2>1. 1 \in 1 .. Len(ps[k]) /\ ps[k][1] = tab(own[k])
    BY <1>3, <1>4, <1>10
  <2>2. tab(own[k]) \in ToSet(l)
    BY <1>6, <2>1
  <2>3. PICK j \in 1 .. Len(l) : l[j] = tab(own[k])
    BY <1>6, <2>2, SeqIs DEF ToSet, PagesOk
  <2>4. (ls \o l)[Len(ls) + j] = tab(own[k]) /\ Len(ls) + j \in 1 .. Len(ls \o l)
    BY <1>8, <2>3
  <2> QED
    BY <1>9, <2>4
<1> QED
  BY <1>2, <1>8, <1>9, <1>10 DEF tab

LEMMA BodyOkPages ==
  ASSUME SheetOk(sheet)
  PROVE  /\ PagesOk(BodyPages) /\ Len(BodyPages) = sheet.page
         /\ \A p \in 1 .. sheet.page : BodyPages[p].part = "body"
              /\ BodyPages[p].words = {m.what : m \in {m \in ToSet(sheet.drawn) \cup sheet.foot : m.page = p}}
<1> DEFINE b == BodyPages
           ws(p) == {m.what : m \in {m \in ToSet(sheet.drawn) \cup sheet.foot : m.page = p}}
<1>1. IsSeq(b) /\ Len(b) = sheet.page
  BY BodySeq
<1>2. \A p \in 1 .. sheet.page : b[p] = Page("body", "none", ws(p))
  BY DEF BodyPages
<1> HIDE DEF b, ws
<1>3. \A p \in 1 .. sheet.page : PageIs(b[p]) /\ b[p].part = "body" /\ b[p].words = ws(p)
  BY <1>2, PageOk
<1>4. PagesOk(b)
  BY <1>1, <1>3 DEF PagesOk
<1> QED
  BY <1>1, <1>3, <1>4 DEF b, ws

LEMMA CoverOkPages ==
  ASSUME IsSeq(disk.cache.pages)
  PROVE  PagesOk(Cover) /\ Len(Cover) = Len(disk.cache.pages) /\ \A p \in 1 .. Len(Cover) : Cover[p].part = "cover"
<1> DEFINE c == Cover  n == Len(disk.cache.pages)
           ws(p) == PageWords(disk.cache.pages[p])
<1>1. n \in Nat /\ DOMAIN disk.cache.pages = 1 .. n
  BY SeqIs
<1>2. c = [p \in 1 .. n |-> Page("cover", "none", ws(p))]
  BY <1>1 DEF Cover
<1> HIDE DEF c, ws
<1>3. IsSeq(c) /\ Len(c) = n /\ \A p \in 1 .. n : c[p] = Page("cover", "none", ws(p))
  <2>1. c = [p \in 1 .. n |-> c[p]] /\ \A p \in 1 .. n : c[p] = Page("cover", "none", ws(p))
    BY <1>2
  <2> QED
    BY <1>1, <2>1, FcnSeq
<1>4. \A p \in 1 .. n : PageIs(c[p]) /\ c[p].part = "cover"
  BY <1>3, PageOk
<1>5. PagesOk(c)
  BY <1>3, <1>4 DEF PagesOk
<1> QED
  BY <1>3, <1>4, <1>5 DEF c

LEMMA Behind ==
  ASSUME NEW a \in Nat, NEW b \in Nat, NEW i \in 1 .. b
  PROVE  a + i \in 1 .. a + b
  OBVIOUS

\* The packet page by page: the cover sheet, the body behind it, the rest.
LEMMA AssembledIs ==
  ASSUME LayInv, PackInv, stage = "done"
  PROVE  /\ PagesOk(Assembled) /\ CoverPages \in Nat /\ CoverPages <= Len(Assembled)
         /\ \A p \in 1 .. CoverPages : Assembled[p].part = "cover"
         /\ src.cover => Len(KeptPages(CoverForm, << >>)) <= CoverPages
         /\ ~src.coverOnly => \A p \in 1 .. sheet.page :
              CoverPages + p \in 1 .. Len(Assembled) /\ Assembled[CoverPages + p] = BodyPages[p]
         /\ \A j \in 1 .. Len(Attached) : \E p \in 1 .. Len(Assembled) : Assembled[p] = Attached[j]
<1> DEFINE front == IF src.cover THEN Cover ELSE << >>
           body == IF src.coverOnly THEN << >> ELSE BodyPages
           att == Attached
<1>1. SheetOk(sheet) /\ src \in Sources
  BY DEF LayInv, Late, Finished
<1>2. own = ExhibitsOf(src, variant) /\ (src.cover => Filled(disk.cache.pages))
  BY DEF PackInv, Ready
<1>3. PagesOk(att)
  BY <1>1, <1>2, AttachedOk
<1>4. PagesOk(body) /\ (~src.coverOnly => body = BodyPages /\ Len(body) = sheet.page)
  BY <1>1, BodyOkPages, NoPages
<1>5. PagesOk(front) /\ Len(front) = CoverPages /\ \A p \in 1 .. CoverPages : front[p].part = "cover"
  <2>1. CASE src.cover
    BY <1>2, <2>1, CoverOkPages DEF Filled, CoverPages
  <2>2. CASE ~src.cover
    <3>1. front = << >> /\ CoverPages = 0
      BY <2>2 DEF CoverPages
    <3>2. Len(front) = 0
      BY <3>1, NoneSeq
    <3> QED
      BY <3>1, <3>2, NoPages
  <2> QED
    BY <2>1, <2>2
<1>6. src.cover => Len(KeptPages(CoverForm, << >>)) <= CoverPages
  BY <1>2 DEF Filled, CoverPages
<1>7. Assembled = front \o (body \o att)
  BY DEF Assembled, Middle
<1> HIDE DEF front, body, att
<1> DEFINE mid == body \o att
<1>8. /\ PagesOk(mid) /\ Len(mid) = Len(body) + Len(att) /\ Len(body) \in Nat /\ Len(att) \in Nat
      /\ \A k \in 1 .. Len(body) : mid[k] = body[k]
      /\ \A k \in 1 .. Len(att) : mid[Len(body) + k] = att[k]
  BY <1>3, <1>4, PagesJoin
<1> HIDE DEF mid
<1> DEFINE w == front \o mid
<1>9. /\ PagesOk(w) /\ Len(w) = Len(front) + Len(mid) /\ Len(front) \in Nat /\ Len(mid) \in Nat
      /\ \A k \in 1 .. Len(front) : w[k] = front[k]
      /\ \A k \in 1 .. Len(mid) : w[Len(front) + k] = mid[k]
  <2>1. PagesOk(front) /\ PagesOk(mid)
    BY <1>5, <1>8
  <2> QED
    BY <2>1, PagesJoin
<1>10. Assembled = w
  BY <1>7 DEF mid
<1> HIDE DEF w
<1>11. ASSUME NEW k \in 1 .. Len(mid) PROVE Len(front) + k \in 1 .. Len(w) /\ w[Len(front) + k] = mid[k]
  <2>2. Len(front) + k \in 1 .. Len(front) + Len(mid)
    BY <1>9, Behind
  <2> QED
    BY <1>9, <2>2
<1>12. ASSUME ~src.coverOnly, NEW p \in 1 .. sheet.page
       PROVE  CoverPages + p \in 1 .. Len(w) /\ w[CoverPages + p] = BodyPages[p]
  <2>1. p \in 1 .. Len(body) /\ body[p] = BodyPages[p]
    BY <1>4, <1>12
  <2>2. p \in 1 .. Len(mid) /\ mid[p] = body[p]
    BY <1>8, <2>1
  <2> QED
    BY <1>5, <1>11, <2>1, <2>2
<1>13. ASSUME NEW j \in 1 .. Len(att) PROVE \E p \in 1 .. Len(w) : w[p] = att[j]
  <2>2. Len(body) + j \in 1 .. Len(mid) /\ mid[Len(body) + j] = att[j]
    BY <1>8, Behind
  <2> QED
    BY <1>11, <2>2
<1>14. CoverPages \in Nat /\ CoverPages <= Len(w) /\ \A p \in 1 .. CoverPages : w[p].part = "cover"
  BY <1>5, <1>9
<1> QED
  BY <1>6, <1>9, <1>10, <1>12, <1>13, <1>14 DEF att

\* The banner stamps a page and changes nothing else of it.
LEMMA BannerIs ==
  ASSUME PagesOk(Assembled), final \in BOOLEAN
  PROVE  /\ DOMAIN Banner = 1 .. Len(Assembled)
         /\ \A p \in 1 .. Len(Assembled) :
              /\ Banner[p].stamped = ~final /\ Banner[p].part = Assembled[p].part
              /\ Banner[p].name = Assembled[p].name /\ Banner[p].words = Assembled[p].words
<1> DEFINE w == Assembled  b == Banner
<1>1. DOMAIN w = 1 .. Len(w)
  BY SeqIs DEF PagesOk
<1>2. CASE final = TRUE
  <2>1. b = w
    BY <1>2 DEF Banner
  <2>2. \A p \in 1 .. Len(w) : w[p].stamped = FALSE
    BY DEF PagesOk, PageIs
  <2> HIDE DEF w, b
  <2>3. DOMAIN b = 1 .. Len(w) /\ \A p \in 1 .. Len(w) :
          b[p].stamped = ~final /\ b[p].part = w[p].part /\ b[p].name = w[p].name /\ b[p].words = w[p].words
    BY <1>1, <1>2, <2>1, <2>2
  <2> QED
    BY <2>3 DEF w, b
<1>3. CASE final = FALSE
  <2>1. b = [k \in 1 .. Len(w) |-> [w[k] EXCEPT !.stamped = TRUE]]
    BY <1>1, <1>3 DEF Banner, Stamped
  <2> HIDE DEF b
  <2>2. ASSUME NEW p \in 1 .. Len(w)
        PROVE  b[p].stamped = TRUE /\ b[p].part = w[p].part /\ b[p].name = w[p].name /\ b[p].words = w[p].words
    <3> DEFINE e == w[p]
    <3>1. e = [part |-> e.part, name |-> e.name, words |-> e.words, stamped |-> FALSE]
      BY DEF PagesOk, PageIs
    <3>2. b[p] = [e EXCEPT !.stamped = TRUE]
      BY <2>1
    <3> HIDE DEF e
    <3>3. \A c : [e EXCEPT !.stamped = c] = [part |-> e.part, name |-> e.name, words |-> e.words, stamped |-> c]
      BY <3>1
    <3>4. b[p] = [part |-> e.part, name |-> e.name, words |-> e.words, stamped |-> TRUE]
      BY <3>2, <3>3
    <3> QED
      BY <3>4 DEF e
  <2>3. DOMAIN b = 1 .. Len(w)
    BY <2>1
  <2> QED
    BY <1>3, <2>2, <2>3 DEF b
<1> QED
  BY <1>2, <1>3

\* A letter is that of the first exhibit of the name, in every list of the
\* same names and letters.
LEMMA LetterSame ==
  ASSUME NEW a, NEW b, DOMAIN a = DOMAIN b, NEW ext, NEW n,
         DOMAIN a \subseteq Nat,
         \A k \in DOMAIN a : a[k].name = b[k].name /\ a[k].letter = b[k].letter
  PROVE  Letter(a, ext, n) = Letter(b, ext, n)
<1> DEFINE ka == {k \in DOMAIN a : a[k].name = n}  kb == {k \in DOMAIN b : b[k].name = n}
<1>1. ka = kb
  OBVIOUS
<1>2. {a[k].name : k \in DOMAIN a} = {b[k].name : k \in DOMAIN b}
  OBVIOUS
<1>3. ASSUME n \in {a[k].name : k \in DOMAIN a} PROVE a[Min(ka)].letter = b[Min(ka)].letter
  <2>1. ka # {} /\ ka \subseteq Nat
    BY <1>3
  <2>2. Min(ka) \in ka
    BY <2>1, MinIs
  <2> QED
    BY <2>2
<1> QED
  BY <1>1, <1>2, <1>3 DEF Letter

LEMMA OneLetterEach ==
  ASSUME NEW s \in Sources, NEW v, NEW n
  PROVE  Letter(ExhibitsOf(s, v), s.external, n) = Letter(DocxMap(s), s.external, n)
<1> DEFINE a == ExhibitsOf(s, v)  b == DocxMap(s)
<1>1. DOMAIN s.exhibits \subseteq Nat
  BY ExhibitsSeq
<1>2. DOMAIN a = DOMAIN s.exhibits /\ DOMAIN b = DOMAIN s.exhibits
  BY DEF ExhibitsOf, DocxMap
<1>3. \A k \in DOMAIN a : a[k].name = b[k].name /\ a[k].letter = b[k].letter
  BY <1>2 DEF ExhibitsOf, DocxMap
<1> HIDE DEF a, b
<1>4. Letter(a, s.external, n) = Letter(b, s.external, n)
  BY <1>1, <1>2, <1>3, LetterSame
<1> QED
  BY <1>4 DEF a, b

\* An exhibit has one letter in both variants, on its tab and in the .docx,
\* and its tab is in the packet (_parse_exhibits, merge_outputs).
THEOREM LettersAgree == PleadSpec => []OneLetter
<1>1. LayInv /\ PackInv => OneLetter
  <2> SUFFICES ASSUME LayInv, PackInv, stage = "done", ~src.coverOnly PROVE OneLetter
    BY DEF OneLetter
  <2>1. src \in Sources /\ own = ExhibitsOf(src, variant) /\ disk.packet = Banner /\ final \in BOOLEAN
    BY DEF LayInv, PackInv
  <2>2. PagesOk(Assembled) /\ \A j \in 1 .. Len(Attached) : \E p \in 1 .. Len(Assembled) : Assembled[p] = Attached[j]
    BY AssembledIs
  <2>3. /\ DOMAIN disk.packet = 1 .. Len(Assembled)
        /\ \A p \in 1 .. Len(Assembled) :
             /\ disk.packet[p].part = Assembled[p].part /\ disk.packet[p].name = Assembled[p].name
             /\ disk.packet[p].words = Assembled[p].words
    BY <2>1, <2>2, BannerIs
  <2>4. \A n \in CitedNames : \A v \in Variants : Letter(ExhibitsOf(src, v), src.external, n) = Letter(DocxMap(src), src.external, n)
    BY <2>1, OneLetterEach
  <2>5. ASSUME NEW n \in {own[k].name : k \in DOMAIN own}
        PROVE  \/ \E p \in DOMAIN disk.packet : disk.packet[p].part = "tab" /\ disk.packet[p].name = n
                    /\ disk.packet[p].words = {Letter(own, src.external, n)}
               \/ variant = "sealed" /\ \E k \in DOMAIN own : own[k].name = n /\ own[k].sealed
    <3> DEFINE ks == {k \in DOMAIN own : own[k].name = n}  k1 == Min(ks)
    <3>1. ks # {} /\ ks \subseteq Nat
      <4>1. DOMAIN own \subseteq Nat
        BY <2>1, ExhibitsSeq, SeqIs
      <4> QED
        BY <4>1
    <3>2. k1 \in ks
      BY <3>1, MinIs
    <3>3. k1 \in DOMAIN own /\ own[k1].name = n
      BY <3>2
    <3>4. Letter(own, src.external, n) = own[k1].letter
      BY DEF Letter
    <3> HIDE DEF k1, ks
    <3>5. CASE own[k1].sealed /\ variant = "sealed"
      BY <3>3, <3>5
    <3>6. CASE ~(own[k1].sealed /\ variant = "sealed")
      <4> DEFINE e == Page("tab", own[k1].name, {own[k1].letter})
      <4>1. PICK j \in 1 .. Len(Attached) : Attached[j] = e
        BY <2>1, <3>3, <3>6, AttachedOk
      <4>2. e.part = "tab" /\ e.name = n /\ e.words = {own[k1].letter}
        BY <3>3, PageOk
      <4> HIDE DEF e
      <4>3. PICK p \in 1 .. Len(Assembled) : Assembled[p] = e
        BY <2>2, <4>1
      <4> QED
        BY <2>3, <3>4, <4>2, <4>3
    <3> QED
      BY <3>5, <3>6
  <2> QED
    BY <2>4, <2>5 DEF OneLetter
<1> QED
  BY <1>1, LayHolds, PackHolds, PTL

\* A form that is filed in part is filed with the pages that are signed, and
\* its pages stand first in the packet, in their order.
SignedKept ==
  \A k \in DOMAIN CoverForm.fields : CoverForm.fields[k].esign.party # "" =>
    CoverForm.fields[k].page \in 1 .. Len(KeptPages(CoverForm, << >>))

LEMMA FieldIs ==
  ASSUME NEW part, NEW what, NEW page
  PROVE  LET f == Field(part, what, page) IN f.part = part /\ f.what = what /\ f.page = page /\ f.moved = ~final
  BY DEF Field

LEMMA CoverFieldsOn ==
  ASSUME SignedKept, NEW f \in CoverFields
  PROVE  src.cover /\ f.page \in 1 .. Len(KeptPages(CoverForm, << >>))
<1> DEFINE n == CoverForm.pages  keep == [i \in 1 .. n |-> i]
<1>1. src.cover /\ f \in SignFields(CoverForm, CoverMeta, keep)
  BY DEF CoverFields
<1>2. PICK k \in DOMAIN CoverForm.fields :
        /\ CoverForm.fields[k].esign.party # "" /\ CoverForm.fields[k].page \in ToSet(keep)
        /\ f.page = PlaceOf(keep, CoverForm.fields[k].page)
  <2> HIDE DEF keep
  <2> DEFINE role(k) == IF CoverForm.fields[k].esign.party \in ToSet(CoverForm.parties)
                        THEN CHOOSE i \in DOMAIN CoverForm.parties : CoverForm.parties[i] = CoverForm.fields[k].esign.party ELSE 1
  <2>1. PICK k \in DOMAIN CoverForm.fields :
          /\ CoverForm.fields[k].esign.party # "" /\ CoverForm.fields[k].page \in ToSet(keep)
          /\ f = [field |-> k, page |-> PlaceOf(keep, CoverForm.fields[k].page), role |-> role(k)]
    BY <1>1, Zenon DEF SignFields
  <2> HIDE DEF role
  <2> QED
    BY <2>1
<1> DEFINE p == CoverForm.fields[k].page
<1>3. p \in 1 .. n
  BY <1>2 DEF ToSet
<1> HIDE DEF p
<1>4. PlaceOf(keep, p) = p
  BY <1>3 DEF PlaceOf
<1>5. p \in 1 .. Len(KeptPages(CoverForm, << >>))
  BY <1>2 DEF SignedKept, p
<1> QED
  BY <1>1, <1>2, <1>4, <1>5 DEF p

\* Where a place to sign is in the packet.
LEMMA FieldsOn ==
  ASSUME SignedKept, LayInv, PackInv, stage = "done", NEW f \in FieldsOf(SignMarks)
  PROVE  /\ f.page \in 1 .. Len(Assembled) /\ f.moved = ~final /\ Assembled[f.page].part = f.part
         /\ f.part = "body" => f.what \in Assembled[f.page].words
<1>1. SheetOk(sheet) /\ Finished(blocks, sheet) /\ BlocksOk(blocks)
  BY DEF LayInv, Late, Finished
<1>2. /\ PagesOk(Assembled) /\ CoverPages \in Nat /\ CoverPages <= Len(Assembled)
      /\ \A p \in 1 .. CoverPages : Assembled[p].part = "cover"
      /\ src.cover => Len(KeptPages(CoverForm, << >>)) <= CoverPages
      /\ ~src.coverOnly => \A p \in 1 .. sheet.page :
           CoverPages + p \in 1 .. Len(Assembled) /\ Assembled[CoverPages + p] = BodyPages[p]
  BY AssembledIs
<1>3. CASE f \in {Field("body", m.what, m.page + CoverPages) : m \in SignMarks}
  <2>1. PICK m \in SignMarks : f = Field("body", m.what, m.page + CoverPages)
    BY <1>3
  <2>2. f.part = "body" /\ f.what = m.what /\ f.page = m.page + CoverPages /\ f.moved = ~final
    BY <2>1, FieldIs
  <2>3. m \in ToSet(sheet.drawn)
    BY DEF SignMarks
  <2>4. PICK k \in 1 .. Len(sheet.drawn) : m = sheet.drawn[k]
    BY <1>1, <2>3, SeqIs DEF ToSet, SheetOk
  <2>5. m.page \in 1 .. sheet.page /\ sheet.page \in Nat /\ m.block \in 1 .. Len(blocks)
    BY <1>1, <2>4 DEF SheetOk, Finished
  <2>6. ~src.coverOnly
    <3>1. src.coverOnly => blocks = << >>
      BY DEF PackInv
    <3>2. 1 .. Len(<< >>) = {}
      BY NoneSeq
    <3> QED
      BY <2>5, <3>1, <3>2
  <2>7. f.page = CoverPages + m.page
    BY <1>2, <2>2, <2>5
  <2>8. f.page \in 1 .. Len(Assembled) /\ Assembled[f.page] = BodyPages[m.page]
    BY <1>2, <2>5, <2>6, <2>7
  <2>9. BodyPages[m.page].part = "body" /\ m.what \in BodyPages[m.page].words
    <3>1. /\ BodyPages[m.page].part = "body"
          /\ BodyPages[m.page].words = {o.what : o \in {o \in ToSet(sheet.drawn) \cup sheet.foot : o.page = m.page}}
      BY <1>1, <2>5, BodyOkPages
    <3> QED
      BY <2>3, <3>1
  <2> QED
    BY <2>2, <2>8, <2>9
<1>4. CASE f \in {Field("cover", "cover", c.page) : c \in CoverFields}
  <2>1. PICK c \in CoverFields : f = Field("cover", "cover", c.page)
    BY <1>4
  <2>2. f.part = "cover" /\ f.page = c.page /\ f.moved = ~final
    BY <2>1, FieldIs
  <2>3. src.cover /\ c.page \in 1 .. Len(KeptPages(CoverForm, << >>))
    BY CoverFieldsOn
  <2>4. Len(KeptPages(CoverForm, << >>)) \in Nat /\ Len(Assembled) \in Nat
    BY <1>2, CoverAssumption, SeqIs DEF PagesOk, IsSeq
  <2>5. f.page \in 1 .. CoverPages /\ f.page \in 1 .. Len(Assembled)
    BY <1>2, <2>2, <2>3, <2>4
  <2> QED
    BY <1>2, <2>2, <2>5
<1> QED
  BY <1>3, <1>4 DEF FieldsOf

\* A draft is marked on each page and notice, a final document on none, and
\* each place to sign is on the page of its block, when the pages of the form
\* that are filed hold those that are signed (stamp_draft_banner,
\* transform_esign_fields).
THEOREM MarkedThrough ==
  ASSUME SignedKept
  PROVE  PleadSpec => []DraftMarked
<1>1. LayInv /\ PackInv /\ NoteInv => DraftMarked
  <2> SUFFICES ASSUME LayInv, PackInv, NoteInv, stage = "done" PROVE DraftMarked
    BY DEF DraftMarked
  <2>1. disk.packet = Banner /\ final \in BOOLEAN /\ disk.fields = FieldsOf(SignMarks)
    BY DEF PackInv
  <2>2. PagesOk(Assembled)
    BY AssembledIs
  <2>3. /\ DOMAIN disk.packet = 1 .. Len(Assembled)
        /\ \A p \in 1 .. Len(Assembled) :
             /\ disk.packet[p].stamped = ~final /\ disk.packet[p].part = Assembled[p].part
             /\ disk.packet[p].words = Assembled[p].words
    BY <2>1, <2>2, BannerIs
  <2>4. \A n \in disk.notices : n.of = builds => n.stamped = ~final
    BY DEF NoteInv
  <2>5. {n.to : n \in {n \in disk.notices : n.of = builds}} = {src.notices[k].to : k \in DOMAIN src.notices}
    BY DEF NoteInv, Noticed
  <2>6. ASSUME NEW f \in disk.fields
        PROVE  /\ f.page \in DOMAIN disk.packet /\ disk.packet[f.page].stamped = f.moved
               /\ disk.packet[f.page].part = f.part /\ (f.part = "body" => f.what \in disk.packet[f.page].words)
    BY <2>1, <2>3, <2>6, FieldsOn
  <2>7. ASSUME NEW b \in DOMAIN blocks, blocks[b].kind = "sign"
        PROVE  \E f \in disk.fields : f.part = "body" /\ f.what = Label(blocks[b])
    <3>1. IsSeq(blocks) /\ Finished(blocks, sheet) /\ IsSeq(sheet.drawn)
      BY DEF LayInv, Late, BlocksOk, Finished, SheetOk
    <3>2. b \in 1 .. Len(blocks)
      BY <3>1, SeqIs
    <3>3. PICK k \in 1 .. Len(sheet.drawn) : sheet.drawn[k].block = b /\ sheet.drawn[k].what = Label(blocks[b])
      BY <2>7, <3>1, <3>2 DEF Finished
    <3> DEFINE m == sheet.drawn[k]  f == Field("body", m.what, m.page + CoverPages)
    <3>4. m \in ToSet(sheet.drawn)
      BY <3>1, SeqIs DEF ToSet
    <3>5. m \in SignMarks
      BY <2>7, <3>3, <3>4 DEF SignMarks
    <3>6. f \in disk.fields
      BY <2>1, <3>5 DEF FieldsOf
    <3>7. f.part = "body" /\ f.what = m.what
      BY FieldIs
    <3> HIDE DEF f
    <3> QED
      BY <3>3, <3>6, <3>7
  <2> QED
    BY <2>3, <2>4, <2>5, <2>6, <2>7 DEF DraftMarked
<1> QED
  BY <1>1, LayHolds, PackHolds, NoteHolds, PTL
=============================================================================
