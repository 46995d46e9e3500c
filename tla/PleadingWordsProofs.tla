------------------------ MODULE PleadingWordsProofs ------------------------
(***************************************************************************)
(* Theorems about the words of a Pleading, for any sources that meet       *)
(* SecretAssumption, any number of builds and any page.                    *)
(*                                                                         *)
(* What is sealed does not show in a public build (PublicClean).  A text   *)
(* is Guarded when no secret stands in it before a warning word; what the  *)
(* macros make of a line of a public build is (Redacted), and no step of   *)
(* the parser, of the citations, of the cover sheet's fill or of the other *)
(* renderers takes a word from before another.  CleanInv says so of what   *)
(* is read and laid out, CacheInv of the cover sheet's cache and ExportInv *)
(* of the .docx and the .txt.                                              *)
(*                                                                         *)
(* The words of a body in order are all drawn, once and in their order     *)
(* (InOrder).  OrderInv says what is read at each line: the words of the   *)
(* blocks and those still awaited are those of the lines before it.        *)
(*                                                                         *)
(* A form holds what it is filled with (FormsKept).  FormInv says what is  *)
(* in the file when it is done; of the words of a value nothing is lost    *)
(* when its paragraphs are broken into lines, the lines cut into sheets    *)
(* and the sheets put one after the other, since joining lists loses       *)
(* nothing (Upto, FlatBy).  It fits a smaller size when it fits a size.    *)
(***************************************************************************)
EXTENDS PleadingProofs, FiniteSetTheorems

-----------------------------------------------------------------------------
(* What is left of a line when its redactions are taken out (Redacted).    *)

LEMMA CountNone ==
  ASSUME NEW t, NEW w, NEW i \in Nat
  PROVE  Count(t, w, i, i - 1) = 0
<1>1. {k \in i .. i - 1 : t[k] = w} = {}
  OBVIOUS
<1> QED
  BY <1>1, FS_EmptySet DEF Count

LEMMA CountMore ==
  ASSUME NEW t, NEW w, NEW i \in Nat \ {0}, NEW j \in Nat, i <= j
  PROVE  /\ Count(t, w, i, j - 1) \in Nat
         /\ Count(t, w, i, j) = Count(t, w, i, j - 1) + (IF t[j] = w THEN 1 ELSE 0)
<1> DEFINE S(n) == {k \in i .. n : t[k] = w}
<1>1. IsFiniteSet(S(j - 1)) /\ Cardinality(S(j - 1)) \in Nat
  <2>1. IsFiniteSet(i .. j - 1)
    BY FS_Interval
  <2>2. S(j - 1) \in SUBSET (i .. j - 1)
    OBVIOUS
  <2> QED
    BY <2>1, <2>2, FS_Subset, FS_CardinalityType
<1>2. t[j] = w => S(j) = S(j - 1) \cup {j} /\ j \notin S(j - 1)
  OBVIOUS
<1>3. t[j] # w => S(j) = S(j - 1)
  OBVIOUS
<1>4. Count(t, w, i, j) = Cardinality(S(j)) /\ Count(t, w, i, j - 1) = Cardinality(S(j - 1))
  BY DEF Count
<1> HIDE DEF S
<1>5. Cardinality(S(j - 1) \cup {j}) = IF j \in S(j - 1) THEN Cardinality(S(j - 1)) ELSE Cardinality(S(j - 1)) + 1
  BY <1>1, FS_AddElement
<1>6. CASE t[j] = w
  <2>1. Cardinality(S(j)) = Cardinality(S(j - 1)) + 1
    BY <1>2, <1>5, <1>6
  <2> QED
    BY <1>1, <1>4, <1>6, <2>1
<1>7. CASE t[j] # w
  <2>1. Cardinality(S(j)) = Cardinality(S(j - 1))
    BY <1>3, <1>7
  <2> QED
    BY <1>1, <1>4, <1>7, <2>1
<1> QED
  BY <1>6, <1>7

\* How many of a and not b there are from p to j; the first place at which
\* they are even.
Bal(t, a, b, p, j) == Count(t, a, p, j) - Count(t, b, p, j)

Shut(t, a, b, i) ==
  LET ends == {j \in i .. Len(t) : Count(t, a, i, j) = Count(t, b, i, j)}
  IN  IF ends = {} THEN 0 ELSE Min(ends)

LEMMA BalMore ==
  ASSUME NEW t, NEW a, NEW b, a # b, NEW p \in Nat \ {0}, NEW j \in Nat, p <= j
  PROVE  /\ Bal(t, a, b, p, p - 1) = 0 /\ Bal(t, a, b, p, j) \in Int /\ Bal(t, a, b, p, j - 1) \in Int
         /\ t[j] = a => Bal(t, a, b, p, j) = Bal(t, a, b, p, j - 1) + 1
         /\ t[j] = b => Bal(t, a, b, p, j) = Bal(t, a, b, p, j - 1) - 1
         /\ t[j] \notin {a, b} => Bal(t, a, b, p, j) = Bal(t, a, b, p, j - 1)
<1>1. Count(t, a, p, p - 1) = 0 /\ Count(t, b, p, p - 1) = 0
  BY CountNone
<1>2. /\ Count(t, a, p, j - 1) \in Nat
      /\ Count(t, a, p, j) = Count(t, a, p, j - 1) + (IF t[j] = a THEN 1 ELSE 0)
  BY CountMore
<1>3. /\ Count(t, b, p, j - 1) \in Nat
      /\ Count(t, b, p, j) = Count(t, b, p, j - 1) + (IF t[j] = b THEN 1 ELSE 0)
  BY CountMore
<1> QED
  BY <1>1, <1>2, <1>3 DEF Bal

LEMMA BalZero ==
  ASSUME NEW t, NEW a, NEW b, NEW p \in Nat \ {0}, NEW j \in Nat, p <= j
  PROVE  Bal(t, a, b, p, j) = 0 <=> Count(t, a, p, j) = Count(t, b, p, j)
<1>1. Count(t, a, p, j - 1) \in Nat /\ Count(t, b, p, j - 1) \in Nat
  BY CountMore
<1>2. Count(t, a, p, j) = Count(t, a, p, j - 1) + (IF t[j] = a THEN 1 ELSE 0)
  BY CountMore
<1>3. Count(t, b, p, j) = Count(t, b, p, j - 1) + (IF t[j] = b THEN 1 ELSE 0)
  BY CountMore
<1>4. Count(t, a, p, j) \in Nat /\ Count(t, b, p, j) \in Nat
  BY <1>1, <1>2, <1>3
<1> QED
  BY <1>4 DEF Bal

\* Until it is closed, what a opens at p is open.
LEMMA BalWithin ==
  ASSUME NEW t, NEW a, NEW b, a # b, NEW p \in Nat \ {0}, t[p] = a, NEW q \in Nat, p <= q,
         \A j \in p .. q : Bal(t, a, b, p, j) # 0
  PROVE  Bal(t, a, b, p, q) >= 1
<1> DEFINE P == {m \in 0 .. q - p : Bal(t, a, b, p, p + m) >= 1}
<1>1. 0 \in P
  <2>1. Bal(t, a, b, p, p) = 1
    BY BalMore
  <2>2. p + 0 = p
    OBVIOUS
  <2> QED
    BY <2>1, <2>2
<1>2. ASSUME NEW m \in 1 .. q - p, m - 1 \in P PROVE m \in P
  <2> DEFINE j == p + m
  <2>1. j \in Nat /\ p <= j /\ p + (m - 1) = j - 1 /\ j \in p .. q
    OBVIOUS
  <2> HIDE DEF j
  <2>2. Bal(t, a, b, p, j - 1) >= 1
    BY <1>2, <2>1
  <2>3. /\ Bal(t, a, b, p, j) \in Int /\ Bal(t, a, b, p, j - 1) \in Int
        /\ t[j] = a => Bal(t, a, b, p, j) = Bal(t, a, b, p, j - 1) + 1
        /\ t[j] = b => Bal(t, a, b, p, j) = Bal(t, a, b, p, j - 1) - 1
        /\ t[j] \notin {a, b} => Bal(t, a, b, p, j) = Bal(t, a, b, p, j - 1)
    BY <2>1, BalMore
  <2>4. Bal(t, a, b, p, j) # 0
    BY <2>1
  <2>5. Bal(t, a, b, p, j) >= 1
    BY <2>2, <2>3, <2>4
  <2> QED
    BY <2>5 DEF j
<1> HIDE DEF P
<1>3. q - p \in Nat
  OBVIOUS
<1>4. \A m \in 0 .. q - p : m \in P
  BY <1>1, <1>2, <1>3, Induct
<1>5. q - p \in P /\ p + (q - p) = q
  BY <1>3, <1>4
<1> QED
  BY <1>5 DEF P

\* The balance from m on is what the balance from p on gains there.
LEMMA BalSplit ==
  ASSUME NEW t, NEW a, NEW b, a # b, NEW p \in Nat \ {0}, NEW m \in Nat, p < m, NEW q \in Nat, m <= q
  PROVE  Bal(t, a, b, p, q) = Bal(t, a, b, p, m - 1) + Bal(t, a, b, m, q) /\ Bal(t, a, b, m, q) \in Int
<1> DEFINE B(j) == Bal(t, a, b, p, j)  C(j) == Bal(t, a, b, m, j)
           P == {k \in 0 .. q - m + 1 : B(m - 1 + k) = B(m - 1) + C(m - 1 + k) /\ C(m - 1 + k) \in Int}
<1>0. B(m - 1) \in Int
  BY BalMore
<1>1. 0 \in P
  <2>1. C(m - 1) = 0
    BY BalMore
  <2>2. m - 1 + 0 = m - 1
    OBVIOUS
  <2> HIDE DEF B, C
  <2> QED
    BY <1>0, <2>1, <2>2
<1>2. ASSUME NEW k \in 1 .. q - m + 1, k - 1 \in P PROVE k \in P
  <2> DEFINE j == m - 1 + k
  <2>1. j \in Nat /\ p <= j /\ m <= j /\ m - 1 + (k - 1) = j - 1
    OBVIOUS
  <2> HIDE DEF j
  <2>2. /\ B(j) \in Int /\ B(j - 1) \in Int
        /\ t[j] = a => B(j) = B(j - 1) + 1
        /\ t[j] = b => B(j) = B(j - 1) - 1
        /\ t[j] \notin {a, b} => B(j) = B(j - 1)
    BY <2>1, BalMore
  <2>3. /\ C(j) \in Int /\ C(j - 1) \in Int
        /\ t[j] = a => C(j) = C(j - 1) + 1
        /\ t[j] = b => C(j) = C(j - 1) - 1
        /\ t[j] \notin {a, b} => C(j) = C(j - 1)
    BY <2>1, BalMore
  <2> HIDE DEF B, C
  <2>4. B(j - 1) = B(m - 1) + C(j - 1)
    BY <1>2, <2>1
  <2>5. B(j) = B(m - 1) + C(j)
    BY <1>0, <2>2, <2>3, <2>4
  <2> QED
    BY <2>3, <2>5 DEF j
<1> HIDE DEF P
<1>3. q - m + 1 \in Nat
  OBVIOUS
<1>4. \A k \in 0 .. q - m + 1 : k \in P
  BY <1>1, <1>2, <1>3, Induct
<1>5. q - m + 1 \in P /\ m - 1 + (q - m + 1) = q
  BY <1>3, <1>4
<1> QED
  BY <1>5 DEF P

\* What opens within is closed within.
LEMMA Nested ==
  ASSUME NEW t, IsSeq(t), NEW a, NEW b, a # b, NEW p \in 1 .. Len(t), t[p] = a, NEW q, q = Shut(t, a, b, p), q # 0
  PROVE  /\ q \in p + 1 .. Len(t) /\ t[q] = b
         /\ \A m \in p + 1 .. q : t[m] = a => Shut(t, a, b, m) < q
<1> DEFINE ends(i) == {j \in i .. Len(t) : Count(t, a, i, j) = Count(t, b, i, j)}
           B(j) == Bal(t, a, b, p, j)
<1>0. Len(t) \in Nat
  BY SeqIs
<1>1. \A i \in 1 .. Len(t) : Shut(t, a, b, i) = IF ends(i) = {} THEN 0 ELSE Min(ends(i))
  BY DEF Shut
<1>2. \A i \in 1 .. Len(t) : ends(i) \subseteq Nat /\ ends(i) \subseteq i .. Len(t)
  BY <1>0
<1>3. \A i \in 1 .. Len(t) : \A j \in i .. Len(t) : Bal(t, a, b, i, j) = 0 <=> j \in ends(i)
  <2> SUFFICES ASSUME NEW i \in 1 .. Len(t), NEW j \in i .. Len(t) PROVE Bal(t, a, b, i, j) = 0 <=> j \in ends(i)
    OBVIOUS
  <2>1. i \in Nat \ {0} /\ j \in Nat /\ i <= j
    BY <1>0
  <2>2. Bal(t, a, b, i, j) = 0 <=> Count(t, a, i, j) = Count(t, b, i, j)
    BY <2>1, BalZero
  <2>3. j \in ends(i) <=> Count(t, a, i, j) = Count(t, b, i, j)
    BY Zenon
  <2> QED
    BY <2>2, <2>3, Zenon
<1> HIDE DEF ends
<1>4. q \in ends(p) /\ \A y \in ends(p) : q <= y
  BY <1>1, <1>2, MinIs
<1>5. q \in p .. Len(t) /\ B(q) = 0
  BY <1>2, <1>3, <1>4
<1>6. \A j \in p .. q - 1 : B(j) # 0
  BY <1>0, <1>3, <1>4, <1>5
<1>7. B(p) = 1
  <2>1. p \in Nat \ {0} /\ p \in Nat /\ p <= p
    BY <1>0
  <2>2. B(p - 1) = 0 /\ B(p) = B(p - 1) + 1
    BY <2>1, BalMore
  <2> QED
    BY <2>2
<1>8. q # p
  BY <1>5, <1>7
<1>9. \A j \in p .. q - 1 : B(j) >= 1 /\ B(j) \in Int
  <2> SUFFICES ASSUME NEW j \in p .. q - 1 PROVE B(j) >= 1 /\ B(j) \in Int
    OBVIOUS
  <2>1. \A k \in p .. j : B(k) # 0
    <3>1. \A k \in p .. j : k \in p .. q - 1
      BY <1>0, <1>5
    <3> HIDE DEF B
    <3> QED
      BY <1>6, <3>1
  <2>2. p \in Nat \ {0} /\ j \in Nat /\ p <= j
    BY <1>0
  <2> HIDE DEF B
  <2>3. B(j) >= 1
    BY <2>1, <2>2, BalWithin DEF B
  <2>4. B(j) \in Int
    BY <2>2, BalMore DEF B
  <2> QED
    BY <2>3, <2>4
<1>10. q \in Nat /\ p <= q /\ p \in Nat \ {0} /\ q - 1 \in p .. q - 1 /\ q \in p + 1 .. Len(t)
  BY <1>0, <1>5, <1>8
<1>11. t[q] = b
  <2>1. /\ B(q) \in Int /\ B(q - 1) \in Int
        /\ t[q] = a => B(q) = B(q - 1) + 1
        /\ t[q] \notin {a, b} => B(q) = B(q - 1)
    BY <1>10, BalMore
  <2> HIDE DEF B
  <2>2. B(q - 1) >= 1
    BY <1>9, <1>10
  <2> QED
    BY <1>5, <2>1, <2>2
<1>12. ASSUME NEW m \in p + 1 .. q, t[m] = a PROVE Shut(t, a, b, m) < q
  <2> DEFINE C(j) == Bal(t, a, b, m, j)
  <2>0. m \in 1 .. Len(t) /\ m \in Nat \ {0} /\ m < q /\ m - 1 \in p .. q - 1 /\ p < m
    BY <1>0, <1>10, <1>11, <1>12
  <2>1. B(q) = B(m - 1) + C(q) /\ C(q) \in Int
    BY <1>10, <2>0, BalSplit
  <2>2. C(q) < 0
    <3> HIDE DEF B, C
    <3> QED
      BY <1>5, <1>9, <2>0, <2>1
  <2>3. \E j \in m .. q : C(j) = 0
    <3> SUFFICES ASSUME \A j \in m .. q : C(j) # 0 PROVE FALSE
      OBVIOUS
    <3>1. C(q) >= 1
      BY <1>10, <1>12, <2>0, BalWithin
    <3> HIDE DEF C
    <3> QED
      BY <2>1, <2>2, <3>1
  <2>4. PICK j \in m .. q : C(j) = 0
    BY <2>3
  <2>5. j # q
    <3> HIDE DEF C
    <3> QED
      BY <2>1, <2>2, <2>4
  <2>6. j \in m .. Len(t) /\ j < q
    BY <1>0, <1>10, <2>0, <2>5
  <2>7. j \in ends(m)
    BY <1>3, <2>0, <2>4, <2>6
  <2>8. Shut(t, a, b, m) = Min(ends(m)) /\ Min(ends(m)) \in Nat /\ Min(ends(m)) <= j
    BY <1>1, <1>2, <2>0, <2>7, MinIs
  <2> QED
    BY <1>0, <1>10, <2>0, <2>6, <2>8
<1> QED
  BY <1>10, <1>11, <1>12

LEMMA CloseNested ==
  ASSUME NEW t, IsSeq(t), NEW p \in 1 .. Len(t), IsOpen(t, p), NEW q, q = Close(t, p), q # 0
  PROVE  /\ q \in p + 1 .. Len(t) /\ ~IsOpen(t, q)
         /\ \A m \in p + 1 .. q : IsOpen(t, m) => Close(t, m) < q
<1> DEFINE a == "{"  b == "}"
<1>1. a # b
  OBVIOUS
<1>2. \A i : Close(t, i) = Shut(t, a, b, i)
  BY Zenon DEF Close, Shut
<1>3. \A i : IsOpen(t, i) <=> i <= Len(t) /\ t[i] = a
  BY DEF IsOpen
<1> HIDE DEF a, b
<1>4. /\ q \in p + 1 .. Len(t) /\ t[q] = b
      /\ \A m \in p + 1 .. q : t[m] = a => Shut(t, a, b, m) < q
  BY <1>1, <1>2, <1>3, Nested
<1> QED
  BY <1>1, <1>2, <1>3, <1>4

LEMMA CloseEnds ==
  ASSUME NEW t, IsSeq(t), NEW p \in 1 .. Len(t), IsOpen(t, p), NEW q, q = Close(t, p), q # 0
  PROVE  t[q] = "}"
<1> DEFINE a == "{"  b == "}"
<1>1. a # b
  OBVIOUS
<1>2. Close(t, p) = Shut(t, a, b, p)
  BY Zenon DEF Close, Shut
<1>3. t[p] = a
  BY DEF IsOpen
<1> HIDE DEF a, b
<1>4. t[q] = b
  BY <1>1, <1>2, <1>3, Nested
<1> QED
  BY <1>4 DEF b

LEMMA SubIs ==
  ASSUME NEW s, IsSeq(s), NEW a \in 1 .. Len(s) + 1, NEW b \in 0 .. Len(s), a <= b + 1
  PROVE  Len(SubSeq(s, a, b)) = b - a + 1 /\ \A k \in 1 .. b - a + 1 : SubSeq(s, a, b)[k] = s[a + k - 1]
<1>1. PICK S : s \in Seq(S)
  BY DEF IsSeq
<1>2. Len(s) \in Nat
  BY <1>1
<1>3. Len(SubSeq(s, a, b)) = b - a + 1
  BY <1>1, <1>2
<1>4. ASSUME NEW k \in 1 .. b - a + 1 PROVE SubSeq(s, a, b)[k] = s[a + k - 1]
  BY <1>1, <1>2
<1> QED
  BY <1>3, <1>4

\* Before a secret there is a \redact that was left as it is.
Guarded(ws) == \A k \in 1 .. Len(ws) : ws[k] \in Secrets => \E j \in 1 .. k - 1 : ws[j] = "redact"

LEMMA GuardedJoin ==
  ASSUME NEW s, NEW t, IsSeq(s), IsSeq(t), Guarded(s), Guarded(t)
  PROVE  Guarded(s \o t)
<1> DEFINE u == s \o t  n == Len(s)  m == Len(t)
<1>1. n \in Nat /\ m \in Nat /\ Len(u) = n + m
      /\ (\A i \in 1 .. n : u[i] = s[i]) /\ \A i \in 1 .. m : u[n + i] = t[i]
  BY SeqIs, Joined
<1> HIDE DEF u
<1>2. ASSUME NEW k \in 1 .. n + m, u[k] \in Secrets PROVE \E j \in 1 .. k - 1 : u[j] = "redact"
  <2>1. CASE k \in 1 .. n
    <3>1. PICK j \in 1 .. k - 1 : s[j] = "redact"
      BY <1>1, <1>2, <2>1 DEF Guarded
    <3>2. j \in 1 .. n
      BY <1>1, <2>1
    <3> QED
      BY <1>1, <3>1, <3>2
  <2>2. CASE k - n \in 1 .. m /\ n + (k - n) = k
    <3>1. u[k] = t[k - n]
      BY <1>1, <2>2
    <3>2. PICK j \in 1 .. k - n - 1 : t[j] = "redact"
      BY <1>2, <2>2, <3>1 DEF Guarded
    <3>3. j \in 1 .. m /\ n + j \in 1 .. k - 1
      BY <1>1, <2>2
    <3> QED
      BY <1>1, <3>2, <3>3
  <2> QED
    BY <1>1, <2>1, <2>2, Halves
<1> QED
  BY <1>1, <1>2 DEF Guarded, u

LEMMA GuardedNone == Guarded(<< >>)
<1>1. Len(<< >>) = 0
  BY NoneSeq
<1> QED
  BY <1>1 DEF Guarded

LEMMA GuardedOne ==
  ASSUME NEW w, w \notin Secrets
  PROVE  Guarded(<<w>>)
  BY OneSeq DEF Guarded

\* Behind an argument the same holds, and within it.
LEMMA PastArgument ==
  ASSUME NEW t, IsSeq(t), NEW x \in 1 .. Len(t), IsOpen(t, x), NEW q, q = Close(t, x), q # 0, NEW i \in 1 .. x,
         MarkedFrom(t, i), \A j \in i .. x - 1 : \A k \in q + 1 .. Len(t) : ~Hides(t, j, k)
  PROVE  q + 1 \in 1 .. Len(t) + 1 /\ MarkedFrom(t, q + 1)
<1>0. Len(t) \in Nat
  BY SeqIs
<1>1. /\ q \in x + 1 .. Len(t) /\ ~IsOpen(t, q)
      /\ \A m \in x + 1 .. q : IsOpen(t, m) => Close(t, m) < q
  BY CloseNested
<1>2. ASSUME NEW k \in q + 1 .. Len(t), t[k] \in Secrets PROVE \E j \in q + 1 .. k - 1 : Hides(t, j, k)
  <2>0. k \in i .. Len(t)
    BY <1>0, <1>1
  <2>1. PICK j \in i .. k - 1 : Hides(t, j, k)
    BY <1>2, <2>0 DEF MarkedFrom
  <2>2. j \notin i .. x - 1
    BY <2>1
  <2>3. j \in x .. k - 1
    BY <1>0, <1>1, <2>2
  <2>4. ASSUME j <= q PROVE FALSE
    <3>1. j # q /\ j + 1 \in x + 1 .. q
      <4>1. CASE j = q
        <5>1. IsOpen(t, q + 1) /\ k < Close(t, q + 1)
          BY <2>1, <4>1 DEF Hides
        <5>2. t[q] = "redact"
          BY <2>1, <4>1 DEF Hides
        <5>3. t[q] = "}"
          BY CloseEnds
        <5> QED
          BY <5>2, <5>3
      <4> QED
        BY <1>0, <1>1, <2>3, <2>4, <4>1
    <3>2. Close(t, j + 1) < q
      BY <1>1, <2>1, <3>1 DEF Hides
    <3>3. k < Close(t, j + 1) /\ j + 1 <= Len(t)
      BY <2>1 DEF Hides, IsOpen
    <3>4. j + 1 \in 1 .. Len(t)
      BY <1>0, <1>1, <3>1
    <3>5. Close(t, j + 1) \in Nat
      BY <1>0, <3>4, CloseIs
    <3> QED
      BY <1>0, <1>1, <3>2, <3>3, <3>5
  <2>5. j \in q + 1 .. k - 1
    BY <1>0, <1>1, <2>3, <2>4
  <2> QED
    BY <2>1, <2>5
<1>3. MarkedFrom(t, q + 1)
  BY <1>2 DEF MarkedFrom
<1> QED
  BY <1>0, <1>1, <1>3

LEMMA WithinArgument ==
  ASSUME NEW t, IsSeq(t), NEW x \in 1 .. Len(t), IsOpen(t, x), NEW q, q = Close(t, x), q # 0, MarkedFrom(t, x)
  PROVE  Guarded(Inner(t, <<x, q>>))
<1>0. Len(t) \in Nat
  BY SeqIs
<1>1. q \in x + 1 .. Len(t)
  BY CloseNested
<1>5. t[x] # "redact"
  BY Zenon DEF IsOpen
<1> DEFINE u == SubSeq(t, x + 1, q - 1)
<1>2. Inner(t, <<x, q>>) = u
  BY DEF Inner
<1>3. Len(u) = q - 1 - x /\ \A k \in 1 .. q - 1 - x : u[k] = t[x + k]
  <2> DEFINE a == x + 1  b == q - 1
  <2>1. a \in 1 .. Len(t) + 1 /\ b \in 0 .. Len(t) /\ a <= b + 1 /\ b - a + 1 = q - 1 - x
    BY <1>0, <1>1
  <2>2. \A k \in 1 .. q - 1 - x : a + k - 1 = x + k
    BY <1>0, <1>1
  <2> HIDE DEF a, b
  <2>3. Len(SubSeq(t, a, b)) = b - a + 1 /\ \A k \in 1 .. b - a + 1 : SubSeq(t, a, b)[k] = t[a + k - 1]
    BY <2>1, SubIs
  <2> QED
    BY <2>1, <2>2, <2>3 DEF a, b
<1> HIDE DEF u
<1>4. ASSUME NEW k \in 1 .. q - 1 - x, u[k] \in Secrets PROVE \E j \in 1 .. k - 1 : u[j] = "redact"
  <2>0. x \in Nat /\ q \in Nat /\ k \in Nat /\ 1 <= k /\ k <= q - 1 - x /\ q <= Len(t)
    BY <1>0, <1>1
  <2>1. x + k \in x .. Len(t) /\ t[x + k] \in Secrets
    BY <1>0, <1>3, <1>4, <2>0
  <2>2. PICK j \in x .. x + k - 1 : t[j] = "redact"
    BY <2>1 DEF MarkedFrom, Hides
  <2>3. j # x
    BY <1>5, <2>2
  <2>4. j - x \in 1 .. k - 1 /\ j - x \in 1 .. q - 1 - x /\ x + (j - x) = j
    BY <2>0, <2>3
  <2> QED
    BY <1>3, <2>2, <2>4
<1> QED
  BY <1>2, <1>3, <1>4 DEF Guarded

\* Each argument is closed, and begins where the one before it ends.
ArgsLie(t, i, args) ==
  \A j \in 1 .. Len(args) :
    /\ args[j] = <<args[j][1], args[j][2]>> /\ args[j][1] = (IF j = 1 THEN i ELSE args[j - 1][2] + 1)
    /\ IsOpen(t, args[j][1]) /\ args[j][2] = Close(t, args[j][1]) /\ args[j][2] # 0

LEMMA ArgsLieNext ==
  ASSUME NEW t, NEW i, NEW a, IsSeq(a), ArgsLie(t, i, a), NEW k \in Nat \ {0}, Len(a) <= k - 1
  PROVE  ArgsLie(t, i, ArgsNext(t, i, a, k)) /\ Len(ArgsNext(t, i, a, k)) <= k
<1> DEFINE from == IF k = 1 THEN i ELSE a[Len(a)][2] + 1
           b == ArgsNext(t, i, a, k)  e == <<from, Close(t, from)>>
<1>0. Len(a) \in Nat
  BY SeqIs
<1>1. CASE Len(a) = k - 1 /\ IsOpen(t, from) /\ Close(t, from) # 0
  <2>1. b = Append(a, e)
    BY <1>1 DEF ArgsNext
  <2>2. e[1] = from /\ e[2] = Close(t, from) /\ e = <<e[1], e[2]>>
    OBVIOUS
  <2>3. from = IF Len(a) + 1 = 1 THEN i ELSE a[Len(a)][2] + 1
    BY <1>0, <1>1
  <2> HIDE DEF b, e, from
  <2>4. /\ Len(b) = Len(a) + 1 /\ b[Len(a) + 1] = e
        /\ \A j \in 1 .. Len(a) : b[j] = a[j]
    BY <2>1, Appended
  <2>5. ASSUME NEW j \in 1 .. Len(a) + 1
        PROVE  /\ b[j] = <<b[j][1], b[j][2]>> /\ b[j][1] = (IF j = 1 THEN i ELSE b[j - 1][2] + 1)
               /\ IsOpen(t, b[j][1]) /\ b[j][2] = Close(t, b[j][1]) /\ b[j][2] # 0
    <3>1. CASE j = Len(a) + 1
      <4>1. j = 1 \/ (j - 1 \in 1 .. Len(a) /\ j - 1 = Len(a))
        BY <1>0, <3>1
      <4>2. b[j] = e /\ (j = 1 \/ b[j - 1] = a[Len(a)])
        BY <2>4, <3>1, <4>1
      <4>3. b[j][1] = (IF j = 1 THEN i ELSE b[j - 1][2] + 1)
        BY <2>2, <2>3, <3>1, <4>2
      <4> QED
        BY <1>1, <2>2, <4>2, <4>3
    <3>2. CASE j # Len(a) + 1
      <4>1. j \in 1 .. Len(a) /\ (j = 1 \/ j - 1 \in 1 .. Len(a))
        BY <1>0, <3>2
      <4>2. b[j] = a[j] /\ (j = 1 \/ b[j - 1] = a[j - 1])
        BY <2>4, <4>1
      <4>3. /\ a[j] = <<a[j][1], a[j][2]>> /\ a[j][1] = (IF j = 1 THEN i ELSE a[j - 1][2] + 1)
            /\ IsOpen(t, a[j][1]) /\ a[j][2] = Close(t, a[j][1]) /\ a[j][2] # 0
        BY <4>1 DEF ArgsLie
      <4> QED
        BY <4>2, <4>3
    <3> QED
      BY <3>1, <3>2
  <2>6. ArgsLie(t, i, b)
    BY <2>4, <2>5, Zenon DEF ArgsLie
  <2>7. Len(b) <= k
    BY <1>0, <1>1, <2>4
  <2> QED
    BY <2>6, <2>7 DEF b
<1>2. CASE ~(Len(a) = k - 1 /\ IsOpen(t, from) /\ Close(t, from) # 0)
  <2>1. b = a
    BY <1>2 DEF ArgsNext
  <2> QED
    BY <1>0, <2>1
<1> QED
  BY <1>1, <1>2

LEMMA ArgumentsLie ==
  ASSUME NEW t, IsSeq(t), NEW i \in Nat \ {0}, NEW n \in Nat
  PROVE  ArgsLie(t, i, Arguments(t, i, n)) /\ Len(Arguments(t, i, n)) \in 0 .. n
<1> DEFINE f == CHOOSE g : g = [k \in 0 .. n |-> IF k = 0 THEN << >>
                  ELSE LET from == IF k = 1 THEN i ELSE g[k - 1][Len(g[k - 1])][2] + 1
                       IN  IF Len(g[k - 1]) = k - 1 /\ IsOpen(t, from) /\ Close(t, from) # 0
                           THEN Append(g[k - 1], <<from, Close(t, from)>>) ELSE g[k - 1]]
<1>1. Arguments(t, i, n) = f[n]
  BY DEF Arguments
<1>2. \E g : Args1(t, i, n, g)
  BY ArgsExist
<1>3. f = CHOOSE g : Args1(t, i, n, g)
  BY DEF Args1, ArgsNext
<1> HIDE DEF f
<1>4. Args1(t, i, n, f)
  BY <1>2, <1>3
<1> DEFINE P == {k \in 0 .. n : ArgsOk(t, i, f[k]) /\ ArgsLie(t, i, f[k]) /\ Len(f[k]) <= k}
<1>5. 0 \in P
  <2>1. f[0] = << >>
    BY <1>4 DEF Args1
  <2> QED
    BY <2>1, NoneSeq DEF ArgsOk, ArgsLie
<1>6. \A k \in 1 .. n : k - 1 \in P => k \in P
  <2> SUFFICES ASSUME NEW k \in 1 .. n, k - 1 \in P PROVE k \in P
    OBVIOUS
  <2>1. f[k] = ArgsNext(t, i, f[k - 1], k)
    BY <1>4 DEF Args1
  <2>2. ArgsOk(t, i, f[k - 1]) /\ ArgsLie(t, i, f[k - 1]) /\ Len(f[k - 1]) <= k - 1 /\ k \in Nat \ {0}
    OBVIOUS
  <2>3. IsSeq(f[k - 1])
    BY <2>2 DEF ArgsOk
  <2> QED
    BY <2>1, <2>2, <2>3, ArgsNextOk, ArgsLieNext
<1> HIDE DEF P
<1>7. \A k \in 0 .. n : k \in P
  BY <1>5, <1>6, Induct
<1>8. n \in P
  BY <1>7
<1>9. ArgsOk(t, i, f[n]) /\ ArgsLie(t, i, f[n]) /\ Len(f[n]) <= n
  BY <1>8 DEF P
<1>10. Len(f[n]) \in Nat
  BY <1>9, SeqIs DEF ArgsOk
<1> QED
  BY <1>1, <1>9, <1>10

\* What follows the arguments of a \redact, and all of them but the first.
LEMMA PastMacro ==
  ASSUME NEW t, IsSeq(t), NEW i \in 1 .. Len(t), MarkedFrom(t, i), t[i] = "redact", IsOpen(t, i + 1),
         NEW args, args = Arguments(t, i + 1, 3), Len(args) # 0
  PROVE  /\ Len(args) \in {1, 2, 3} /\ After(t, i) \in 1 .. Len(t) + 1 /\ MarkedFrom(t, After(t, i))
         /\ \A j \in 2 .. Len(args) : Guarded(Inner(t, args[j]))
<1>0. Len(t) \in Nat /\ i + 1 \in Nat \ {0}
  BY SeqIs
<1>1. ArgsOk(t, i + 1, args) /\ ArgsLie(t, i + 1, args) /\ Len(args) \in 0 .. 3
  BY <1>0, ArgumentsOk, ArgumentsLie
<1>2. Len(args) \in {1, 2, 3}
  BY <1>1
<1> DEFINE x(j) == args[j][1]  q(j) == args[j][2]
<1>3. ASSUME NEW j \in 1 .. Len(args)
      PROVE  /\ args[j] = <<x(j), q(j)>> /\ x(j) = (IF j = 1 THEN i + 1 ELSE q(j - 1) + 1)
             /\ IsOpen(t, x(j)) /\ q(j) = Close(t, x(j)) /\ q(j) # 0 /\ x(j) \in 1 .. Len(t)
  <2>1. x(j) \in i + 1 .. Len(t)
    BY <1>1 DEF ArgsOk
  <2>2. x(j) \in 1 .. Len(t)
    BY <1>0, <2>1
  <2> QED
    BY <1>1, <2>2 DEF ArgsLie
<1> HIDE DEF x, q
<1>4. q(1) + 1 \in 1 .. Len(t) + 1 /\ MarkedFrom(t, q(1) + 1)
  <2>1. x(1) = i + 1 /\ IsOpen(t, x(1)) /\ q(1) = Close(t, x(1)) /\ q(1) # 0 /\ x(1) \in 1 .. Len(t)
    BY <1>2, <1>3
  <2>2. \A j \in i .. x(1) - 1 : j = i
    BY <1>0, <2>1
  <2>5. q(1) \in Nat
    BY <1>0, <2>1, CloseIs
  <2>3. \A k \in q(1) + 1 .. Len(t) : ~Hides(t, i, k)
    BY <1>0, <2>1, <2>5 DEF Hides
  <2>4. i \in 1 .. x(1)
    BY <1>0, <2>1
  <2> QED
    BY <2>1, <2>2, <2>3, <2>4, PastArgument
<1>5. ASSUME NEW j \in 2 .. 3, j \in 1 .. Len(args), MarkedFrom(t, q(j - 1) + 1)
      PROVE  q(j) + 1 \in 1 .. Len(t) + 1 /\ MarkedFrom(t, q(j) + 1) /\ Guarded(Inner(t, args[j]))
  <2>1. /\ x(j) = q(j - 1) + 1 /\ IsOpen(t, x(j)) /\ q(j) = Close(t, x(j)) /\ q(j) # 0 /\ x(j) \in 1 .. Len(t)
        /\ args[j] = <<x(j), q(j)>>
    BY <1>3, <1>5
  <2>2. MarkedFrom(t, x(j)) /\ x(j) \in 1 .. x(j) /\ \A k \in x(j) .. x(j) - 1 : FALSE
    BY <1>0, <1>5, <2>1
  <2>3. q(j) + 1 \in 1 .. Len(t) + 1 /\ MarkedFrom(t, q(j) + 1)
    BY <2>1, <2>2, PastArgument
  <2>4. Guarded(Inner(t, <<x(j), q(j)>>))
    BY <2>1, <2>2, WithinArgument
  <2> QED
    BY <2>1, <2>3, <2>4
<1>6. After(t, i) = q(Len(args)) + 1
  <2>1. args # << >>
    BY NoneSeq
  <2> QED
    BY <2>1 DEF After, q
<1>7. CASE Len(args) = 1
  <2>1. \A j \in 2 .. 1 : FALSE
    OBVIOUS
  <2> QED
    BY <1>2, <1>4, <1>6, <1>7, <2>1
<1>8. CASE Len(args) = 2
  <2>1. q(2) + 1 \in 1 .. Len(t) + 1 /\ MarkedFrom(t, q(2) + 1) /\ Guarded(Inner(t, args[2]))
    BY <1>4, <1>5, <1>8
  <2>2. \A j \in 2 .. 2 : j = 2
    OBVIOUS
  <2> QED
    BY <1>2, <1>6, <1>8, <2>1, <2>2
<1>9. CASE Len(args) = 3
  <2>1. q(2) + 1 \in 1 .. Len(t) + 1 /\ MarkedFrom(t, q(2) + 1) /\ Guarded(Inner(t, args[2]))
    BY <1>4, <1>5, <1>9
  <2>2. q(3) + 1 \in 1 .. Len(t) + 1 /\ MarkedFrom(t, q(3) + 1) /\ Guarded(Inner(t, args[3]))
    BY <1>5, <1>9, <2>1
  <2>3. \A j \in 2 .. 3 : j = 2 \/ j = 3
    OBVIOUS
  <2> QED
    BY <1>2, <1>6, <1>9, <2>1, <2>2, <2>3
<1> QED
  BY <1>2, <1>7, <1>8, <1>9

\* Induction from the last place down.
LEMMA Downward ==
  ASSUME NEW n \in Nat, NEW P, \A i \in 1 .. n + 1 : (\A j \in i + 1 .. n + 1 : j \in P) => i \in P
  PROVE  \A i \in 1 .. n + 1 : i \in P
<1> DEFINE Q == {m \in 0 .. n : \A j \in n + 1 - m .. n + 1 : j \in P}
<1>1. 0 \in Q
  <2>1. n + 1 \in P
    <3>1. \A j \in n + 1 + 1 .. n + 1 : j \in P
      OBVIOUS
    <3> QED
      BY <3>1
  <2>2. \A j \in n + 1 - 0 .. n + 1 : j = n + 1
    OBVIOUS
  <2> QED
    BY <2>1, <2>2
<1>2. ASSUME NEW m \in 1 .. n, m - 1 \in Q PROVE m \in Q
  <2> DEFINE a == n + 1 - m
  <2>1. a \in 1 .. n + 1 /\ a + 1 = n + 1 - (m - 1)
    OBVIOUS
  <2>2. \A j \in a + 1 .. n + 1 : j \in P
    BY <1>2, <2>1
  <2>3. a \in P
    BY <2>1, <2>2
  <2>4. \A j \in a .. n + 1 : j = a \/ j \in a + 1 .. n + 1
    BY <2>1
  <2>5. \A j \in a .. n + 1 : j \in P
    BY <2>2, <2>3, <2>4
  <2> QED
    BY <2>5
<1>3. \A m \in 0 .. n : m \in Q
  <2> HIDE DEF Q
  <2> QED
    BY <1>1, <1>2, Induct
<1>4. n \in Q /\ n + 1 - n = 1
  BY <1>3
<1> QED
  BY <1>4

LEMMA ScanIs ==
  ASSUME NEW t, IsSeq(t), NEW lits, NEW v
  PROVE  \E f : /\ Redacted(t, lits, v) = f[1]
                /\ \A i \in 1 .. Len(t) + 1 : f[i] = ScanStep(t, lits, v, f, i) /\ ReadOk(f[i])
<1> DEFINE n == Len(t)
           f == CHOOSE g : Scans(t, lits, v, 1, g)
           P == {i \in 1 .. n + 1 : ReadOk(f[i])}
<1>1. Redacted(t, lits, v) = f[1]
  BY DEF Redacted, Scans, ScanStep, AtMacro, After
<1>2. Scans(t, lits, v, 1, f)
  BY ScansExist
<1>3. n \in Nat
  BY SeqIs
<1> HIDE DEF f
<1>4. \A i \in 1 .. n + 1 : f[i] = ScanStep(t, lits, v, f, i)
  BY <1>2 DEF Scans
<1>5. ASSUME NEW i \in 1 .. n + 1, \A j \in i + 1 .. n + 1 : j \in P PROVE i \in P
  <2>1. \A j \in i + 1 .. n + 1 : ReadOk(f[j])
    BY <1>5
  <2>2. ReadOk(ScanStep(t, lits, v, f, i))
    BY <2>1, ScanStepOk
  <2> QED
    BY <1>4, <2>2
<1> HIDE DEF P
<1>6. \A i \in 1 .. n + 1 : i \in P
  BY <1>3, <1>5, Downward
<1>7. \A i \in 1 .. n + 1 : ReadOk(f[i])
  BY <1>6 DEF P
<1> QED
  BY <1>1, <1>4, <1>7

\* What the public reader is shown of a text, when all of it can be read.
CleanRead(r) == r.ok => Guarded(r.text) /\ \A k \in 1 .. Len(r.log) : Guarded(r.log[k][3])

LEMMA AtMacroClean ==
  ASSUME NEW t, NEW args, NEW lits, \A x \in DOMAIN lits : lits[x] \notin Secrets, NEW rest, ReadOk(rest),
         Len(args) = 0 \/
           (Len(args) \in {1, 2, 3} /\ CleanRead(rest)
             /\ \A j \in 2 .. Len(args) : Guarded(Inner(t, args[j])) /\ IsSeq(Inner(t, args[j])))
  PROVE  CleanRead(AtMacro(t, lits, "public", rest, args))
<1> DEFINE r == AtMacro(t, lits, "public", rest, args)
           arg(k) == Inner(t, args[k])
           no == [rest EXCEPT !.ok = FALSE]
<1>1. rest = [text |-> rest.text, log |-> rest.log, ok |-> rest.ok] /\ IsSeq(rest.text) /\ IsSeq(rest.log)
  BY DEF ReadOk
<1>2. CleanRead(no)
  <2>0. \A b : [rest EXCEPT !.ok = b] = [text |-> rest.text, log |-> rest.log, ok |-> b]
    BY <1>1
  <2>1. no = [text |-> rest.text, log |-> rest.log, ok |-> FALSE]
    BY <2>0
  <2> HIDE DEF no
  <2>2. ~no.ok
    BY <2>1
  <2> QED
    BY <2>2 DEF CleanRead
<1>3. CASE Unclosed(t, args)
  BY <1>2, <1>3 DEF AtMacro
<1>4. CASE Len(args) = 1 /\ ~Unclosed(t, args)
  <2>1. CASE ~Known(arg(1), lits)
    BY <1>2, <1>4, <2>1 DEF AtMacro
  <2>2. CASE Known(arg(1), lits)
    <3> DEFINE one == OneArgument(arg(1), lits, "public")
    <3>1. r = [rest EXCEPT !.text = one \o @]
      BY <1>4, <2>2 DEF AtMacro
    <3>2. IsSeq(one) /\ Guarded(one)
      <4> DEFINE x == arg(1)[1]
      <4>1. one = <<lits[x]>>
        <5> HIDE DEF arg
        <5>1. "public" # "sealed"
          OBVIOUS
        <5> QED
          BY <5>1 DEF OneArgument, x
      <4>2. lits[x] \notin Secrets
        BY <2>2 DEF Known
      <4> HIDE DEF one, x
      <4> QED
        BY <4>1, <4>2, OneSeq, GuardedOne
    <3> HIDE DEF one, r
    <3> DEFINE w == one \o rest.text
    <3>3. CleanRead(rest) => (rest.ok => Guarded(w))
      BY <1>1, <3>2, GuardedJoin DEF CleanRead
    <3>4. r = [rest EXCEPT !.text = w]
      BY <3>1
    <3> HIDE DEF w
    <3>5. r = [text |-> w, log |-> rest.log, ok |-> rest.ok]
      BY <1>1, <3>4
    <3>6. r.text = w /\ r.log = rest.log /\ r.ok = rest.ok
      BY <3>5
    <3>7. CleanRead(r)
      BY <1>4, <3>3, <3>6 DEF CleanRead
    <3> QED
      BY <3>7 DEF r
  <2> QED
    BY <2>1, <2>2
<1>5. CASE Len(args) # 0 /\ Len(args) # 1 /\ ~Unclosed(t, args)
  <2> DEFINE entry == <<arg(1), arg(2), arg(3)>>
             w == arg(2) \o rest.text
             l == IF Len(args) = 3 THEN <<entry>> \o rest.log ELSE rest.log
  <2>0. Len(args) \in {2, 3} /\ CleanRead(rest) /\ \A j \in 2 .. Len(args) : Guarded(arg(j)) /\ IsSeq(arg(j))
    BY <1>5
  <2>1. Guarded(arg(2)) /\ IsSeq(arg(2)) /\ (Len(args) = 3 => Guarded(arg(3)))
    BY <2>0
  <2>2. rest.ok => Guarded(w)
    <3> HIDE DEF arg
    <3> QED
      BY <1>1, <2>0, <2>1, GuardedJoin DEF CleanRead
  <2>3. rest.ok => \A k \in 1 .. Len(l) : Guarded(l[k][3])
    <3>1. CASE Len(args) = 3
      <4>1. entry[3] = arg(3)
        OBVIOUS
      <4> HIDE DEF entry
      <4> DEFINE m == <<entry>> \o rest.log
      <4>3. /\ IsSeq(m) /\ Len(m) = 1 + Len(rest.log) /\ m[1] = entry
            /\ \A k \in 1 .. Len(rest.log) : m[1 + k] = rest.log[k]
        BY <1>1, Fronted
      <4>4. l = m
        BY <3>1
      <4> HIDE DEF m
      <4>5. Len(rest.log) \in Nat
        BY <1>1, SeqIs
      <4>6. ASSUME rest.ok, NEW k \in 1 .. Len(m) PROVE Guarded(m[k][3])
        <5>1. k \in 1 .. 1 \/ (k - 1 \in 1 .. Len(rest.log) /\ 1 + (k - 1) = k)
          BY <4>3, <4>5, Halves
        <5>2. CASE k \in 1 .. 1
          <6>1. k = 1
            BY <5>2
          <6> QED
            BY <2>1, <3>1, <4>1, <4>3, <6>1
        <5>3. CASE k - 1 \in 1 .. Len(rest.log) /\ 1 + (k - 1) = k
          BY <2>0, <4>3, <4>6, <5>3 DEF CleanRead
        <5> QED
          BY <5>1, <5>2, <5>3
      <4> QED
        BY <4>3, <4>4, <4>6
    <3>2. CASE Len(args) # 3
      BY <2>0, <3>2 DEF CleanRead
    <3> QED
      BY <3>1, <3>2
  <2>4. r = [rest EXCEPT !.text = w, !.log = l]
    <3>1. r = [rest EXCEPT !.text = arg(2) \o @, !.log = IF Len(args) = 3 THEN <<entry>> \o @ ELSE @]
      BY <1>5 DEF AtMacro
    <3> HIDE DEF r, arg, entry
    <3> QED
      BY <3>1
  <2> HIDE DEF w, l, r
  <2>5. r = [text |-> w, log |-> l, ok |-> rest.ok]
    BY <1>1, <2>4
  <2>6. r.text = w /\ r.log = l /\ r.ok = rest.ok
    BY <2>5
  <2>7. CleanRead(r)
    BY <2>2, <2>3, <2>6 DEF CleanRead
  <2> QED
    BY <2>7 DEF r
<1>6. ~Unclosed(t, args) => Len(args) # 0
  BY DEF Unclosed
<1> QED
  BY <1>3, <1>4, <1>5, <1>6

\* No secret is left behind where each is hidden.
LEMMA RedactedClean ==
  ASSUME NEW t, IsSeq(t), MarkedFrom(t, 1), NEW lits, \A x \in DOMAIN lits : lits[x] \notin Secrets
  PROVE  CleanRead(Redacted(t, lits, "public"))
<1> DEFINE n == Len(t)  v == "public"
<1>1. n \in Nat
  BY SeqIs
<1>2. PICK f : /\ Redacted(t, lits, v) = f[1]
               /\ \A i \in 1 .. n + 1 : f[i] = ScanStep(t, lits, v, f, i) /\ ReadOk(f[i])
  BY ScanIs
<1> DEFINE P == {i \in 1 .. n + 1 : MarkedFrom(t, i) => CleanRead(f[i])}
<1>3. ASSUME NEW i \in 1 .. n + 1, \A j \in i + 1 .. n + 1 : j \in P, MarkedFrom(t, i) PROVE CleanRead(f[i])
  <2> DEFINE r == f[i]
  <2>0. r = ScanStep(t, lits, v, f, i)
    BY <1>2
  <2>1. CASE i > n
    <3>1. r = [text |-> << >>, log |-> << >>, ok |-> TRUE]
      BY <2>0, <2>1 DEF ScanStep
    <3>2. r.text = << >> /\ r.log = << >>
      BY <3>1
    <3> HIDE DEF r
    <3>3. CleanRead(r)
      BY <3>2, GuardedNone, NoneSeq DEF CleanRead
    <3> QED
      BY <3>3 DEF r
  <2>2. CASE ~(i > n) /\ t[i] = "redact" /\ IsOpen(t, i + 1)
    <3> DEFINE args == Arguments(t, i + 1, 3)  a == After(t, i)
    <3>1. i \in 1 .. n /\ i + 1 \in Nat \ {0}
      BY <1>1, <2>2
    <3>2. a \in i + 1 .. n + 1 /\ a \in 1 .. n + 1
      BY <1>1, <3>1, AfterIs
    <3>3. ReadOk(f[a]) /\ (MarkedFrom(t, a) => CleanRead(f[a]))
      BY <1>2, <1>3, <3>2
    <3>4. ArgsOk(t, i + 1, args)
      BY <3>1, ArgumentsOk
    <3>5. r = AtMacro(t, lits, v, f[a], args)
      BY <2>0, <2>2 DEF ScanStep
    <3>6. CASE Len(args) = 0
      BY <3>3, <3>5, <3>6, AtMacroClean
    <3>7. CASE Len(args) # 0
      <4>1. /\ Len(args) \in {1, 2, 3} /\ MarkedFrom(t, a)
            /\ \A j \in 2 .. Len(args) : Guarded(Inner(t, args[j]))
        BY <1>3, <2>2, <3>1, <3>7, PastMacro
      <4>2. \A j \in 2 .. Len(args) : IsSeq(Inner(t, args[j]))
        <5>1. \A j \in 2 .. Len(args) : j \in 1 .. Len(args)
          BY <4>1
        <5> QED
          BY <3>1, <3>4, <5>1, InnerSeq
      <4> HIDE DEF args, a
      <4> QED
        BY <3>3, <3>5, <4>1, <4>2, AtMacroClean
    <3> QED
      BY <3>6, <3>7
  <2>3. CASE ~(i > n) /\ ~(t[i] = "redact" /\ IsOpen(t, i + 1))
    <3> DEFINE rest == f[i + 1]  w == <<t[i]>> \o rest.text
    <3>1. i \in 1 .. n /\ i + 1 \in i + 1 .. n + 1 /\ i + 1 \in 1 .. n + 1
      BY <1>1, <2>3
    <3>2. t[i] \notin Secrets
      <4>1. \A j \in i .. i - 1 : FALSE
        BY <3>1
      <4> QED
        BY <1>3, <3>1, <4>1 DEF MarkedFrom
    <3>3. MarkedFrom(t, i + 1)
      <4> SUFFICES ASSUME NEW k \in i + 1 .. n, t[k] \in Secrets PROVE \E j \in i + 1 .. k - 1 : Hides(t, j, k)
        BY DEF MarkedFrom
      <4>1. k \in i .. n
        BY <3>1
      <4>2. PICK j \in i .. k - 1 : Hides(t, j, k)
        BY <1>3, <4>1 DEF MarkedFrom
      <4>3. j # i
        BY <2>3, <4>2 DEF Hides
      <4>4. j \in i + 1 .. k - 1
        BY <1>1, <3>1, <4>3
      <4> QED
        BY <4>2, <4>4
    <3>4. ReadOk(rest) /\ CleanRead(rest)
      BY <1>2, <1>3, <3>1, <3>3
    <3>5. r = [rest EXCEPT !.text = <<t[i]>> \o @]
      BY <2>0, <2>3 DEF ScanStep
    <3> HIDE DEF r, rest
    <3>6. r = [rest EXCEPT !.text = w]
      BY <3>5
    <3>7. rest.ok => Guarded(w)
      BY <3>2, <3>4, OneSeq, GuardedOne, GuardedJoin DEF CleanRead, ReadOk
    <3> HIDE DEF w
    <3>8. rest = [text |-> rest.text, log |-> rest.log, ok |-> rest.ok]
      BY <3>4 DEF ReadOk
    <3>9. r = [text |-> w, log |-> rest.log, ok |-> rest.ok]
      BY <3>6, <3>8
    <3>10. r.text = w /\ r.log = rest.log /\ r.ok = rest.ok
      BY <3>9
    <3>11. CleanRead(r)
      BY <3>4, <3>7, <3>10 DEF CleanRead
    <3> QED
      BY <3>11 DEF r
  <2> QED
    BY <2>1, <2>2, <2>3
<1> HIDE DEF P
<1>4. \A i \in 1 .. n + 1 : (\A j \in i + 1 .. n + 1 : j \in P) => i \in P
  BY <1>3 DEF P
<1>5. \A i \in 1 .. n + 1 : i \in P
  BY <1>1, <1>4, Downward
<1>6. 1 \in P
  BY <1>1, <1>5
<1> QED
  BY <1>2, <1>6 DEF P

\* A text without macros is read as it is.
LEMMA RedactedPlain ==
  ASSUME NEW t, IsSeq(t), \A k \in 1 .. Len(t) : t[k] # "redact" /\ t[k] \notin Secrets, NEW lits, NEW v
  PROVE  Redacted(t, lits, v).log = << >> /\ Guarded(Redacted(t, lits, v).text)
<1> DEFINE n == Len(t)
<1>1. n \in Nat
  BY SeqIs
<1>2. PICK f : /\ Redacted(t, lits, v) = f[1]
               /\ \A i \in 1 .. n + 1 : f[i] = ScanStep(t, lits, v, f, i) /\ ReadOk(f[i])
  BY ScanIs
<1> DEFINE P == {i \in 1 .. n + 1 : f[i].log = << >> /\ Guarded(f[i].text)}
<1>3. ASSUME NEW i \in 1 .. n + 1, \A j \in i + 1 .. n + 1 : j \in P PROVE f[i].log = << >> /\ Guarded(f[i].text)
  <2> DEFINE r == f[i]
  <2>0. r = ScanStep(t, lits, v, f, i)
    BY <1>2
  <2>1. CASE i > n
    <3>1. r = [text |-> << >>, log |-> << >>, ok |-> TRUE]
      BY <2>0, <2>1 DEF ScanStep
    <3>2. r.text = << >> /\ r.log = << >>
      BY <3>1
    <3> HIDE DEF r
    <3>3. r.log = << >> /\ Guarded(r.text)
      BY <3>2, GuardedNone
    <3> QED
      BY <3>3 DEF r
  <2>2. CASE ~(i > n)
    <3> DEFINE rest == f[i + 1]  w == <<t[i]>> \o rest.text
    <3>1. i \in 1 .. n /\ i + 1 \in i + 1 .. n + 1 /\ i + 1 \in 1 .. n + 1
      BY <1>1, <2>2
    <3>2. t[i] # "redact" /\ t[i] \notin Secrets
      BY <3>1
    <3>4. ReadOk(rest) /\ rest.log = << >> /\ Guarded(rest.text)
      BY <1>2, <1>3, <3>1
    <3>5. r = [rest EXCEPT !.text = <<t[i]>> \o @]
      BY <2>0, <2>2, <3>2 DEF ScanStep
    <3> HIDE DEF r, rest
    <3>6. r = [rest EXCEPT !.text = w]
      BY <3>5
    <3>7. Guarded(w)
      BY <3>2, <3>4, OneSeq, GuardedOne, GuardedJoin DEF ReadOk
    <3> HIDE DEF w
    <3>8. rest = [text |-> rest.text, log |-> rest.log, ok |-> rest.ok]
      BY <3>4 DEF ReadOk
    <3>9. r = [text |-> w, log |-> rest.log, ok |-> rest.ok]
      BY <3>6, <3>8
    <3>10. r.text = w /\ r.log = rest.log
      BY <3>9
    <3> QED
      BY <3>4, <3>7, <3>10 DEF r
  <2> QED
    BY <2>1, <2>2
<1> HIDE DEF P
<1>4. \A i \in 1 .. n + 1 : (\A j \in i + 1 .. n + 1 : j \in P) => i \in P
  BY <1>3 DEF P
<1>5. \A i \in 1 .. n + 1 : i \in P
  BY <1>1, <1>4, Downward
<1>6. 1 \in P
  BY <1>1, <1>5
<1> QED
  BY <1>2, <1>6 DEF P

-----------------------------------------------------------------------------
(* The log, the citations and the inline fields of a line.                 *)

\* A \redact that was left as it is.
Warns(ws) == \E x \in 1 .. Len(ws) : ws[x] = "redact"

LEMMA GuardedBehind ==
  ASSUME NEW s, NEW t, IsSeq(s), IsSeq(t), Guarded(s), Warns(s)
  PROVE  Guarded(s \o t)
<1> DEFINE u == s \o t  n == Len(s)  m == Len(t)
<1>1. n \in Nat /\ m \in Nat /\ Len(u) = n + m
      /\ (\A i \in 1 .. n : u[i] = s[i]) /\ \A i \in 1 .. m : u[n + i] = t[i]
  BY SeqIs, Joined
<1> HIDE DEF u
<1>2. ASSUME NEW k \in 1 .. n + m, u[k] \in Secrets PROVE \E j \in 1 .. k - 1 : u[j] = "redact"
  <2>1. CASE k \in 1 .. n
    <3>1. PICK j \in 1 .. k - 1 : s[j] = "redact"
      BY <1>1, <1>2, <2>1 DEF Guarded
    <3>2. j \in 1 .. n
      BY <1>1, <2>1
    <3> QED
      BY <1>1, <3>1, <3>2
  <2>2. CASE k - n \in 1 .. m /\ n + (k - n) = k
    <3>1. PICK x \in 1 .. n : s[x] = "redact"
      BY DEF Warns
    <3>2. x \in 1 .. k - 1 /\ u[x] = "redact"
      BY <1>1, <2>2, <3>1
    <3> QED
      BY <3>2
  <2> QED
    BY <1>1, <2>1, <2>2, Halves
<1> QED
  BY <1>1, <1>2 DEF Guarded, u

\* Texts one after the other, of which each is guarded or follows one that warns.
LEMMA FlatGuarded ==
  ASSUME NEW ss, IsSeqs(ss), \A i \in 1 .. Len(ss) : Guarded(ss[i]) \/ \E j \in 1 .. i - 1 : Warns(ss[j])
  PROVE  Guarded(FlattenSeq(ss)) /\ IsSeq(FlattenSeq(ss))
<1>0. IsSeq(ss) /\ (\A i \in 1 .. Len(ss) : IsSeq(ss[i])) /\ IsSeq(FlattenSeq(ss))
  BY Flattened DEF IsSeqs
<1>1. Len(ss) \in Nat
  BY <1>0, SeqIs
<1>2. CASE Len(ss) = 0
  <2>1. FlattenSeq(ss) = ss
    BY <1>2 DEF FlattenSeq
  <2>2. Guarded(ss)
    BY <1>2 DEF Guarded
  <2> QED
    BY <1>0, <2>1, <2>2
<1>3. CASE Len(ss) # 0
  <2> DEFINE n == Len(ss)
  <2>1. PICK f : Joins1(ss, n, f) /\ FlattenSeq(ss) = f[n]
    BY <1>1, <1>3, FlattenAt
  <2>2. \A i \in 1 .. n : IsSeq(f[i]) /\ ToSet(f[i]) = UNION {ToSet(ss[j]) : j \in 1 .. i}
    BY <1>1, <2>1, JoinsSeq
  <2> DEFINE P == {i \in 0 .. n : i = 0 \/ Guarded(f[i])}
  <2>3. 0 \in P
    BY <1>1
  <2>4. ASSUME NEW i \in 1 .. n, i - 1 \in P PROVE i \in P
    <3>1. f[i] = IF i = 1 THEN ss[i] ELSE f[i - 1] \o ss[i]
      BY <2>1 DEF Joins1
    <3>2. ASSUME i = 1 PROVE Guarded(f[i])
      <4>1. \A j \in 1 .. i - 1 : FALSE
        BY <3>2
      <4>2. Guarded(ss[i])
        BY <4>1
      <4> QED
        BY <3>1, <3>2, <4>2
    <3>3. ASSUME i # 1 PROVE Guarded(f[i])
      <4>0. i - 1 \in 1 .. n /\ i - 1 # 0
        BY <1>1, <3>3
      <4>1. i - 1 \in 1 .. n /\ f[i] = f[i - 1] \o ss[i] /\ Guarded(f[i - 1]) /\ IsSeq(f[i - 1]) /\ IsSeq(ss[i])
        BY <1>0, <2>2, <2>4, <3>1, <3>3, <4>0
      <4> HIDE DEF P
      <4>2. CASE Guarded(ss[i])
        BY <4>1, <4>2, GuardedJoin
      <4>3. CASE ~Guarded(ss[i])
        <5>1. PICK j \in 1 .. i - 1 : Warns(ss[j])
          BY <4>3
        <5>2. PICK x \in 1 .. Len(ss[j]) : ss[j][x] = "redact"
          BY <5>1 DEF Warns
        <5>3. IsSeq(ss[j])
          BY <1>0, <1>1, <5>1
        <5>4. "redact" \in ToSet(ss[j])
          <6>1. DOMAIN ss[j] = 1 .. Len(ss[j])
            BY <5>3, SeqIs
          <6> QED
            BY <5>2, <6>1 DEF ToSet
        <5>5. "redact" \in ToSet(f[i - 1])
          <6>1. ToSet(f[i - 1]) = UNION {ToSet(ss[m]) : m \in 1 .. i - 1}
            BY <2>2, <4>0
          <6> QED
            BY <5>1, <5>4, <6>1
        <5>6. Warns(f[i - 1])
          <6>1. DOMAIN f[i - 1] = 1 .. Len(f[i - 1])
            BY <4>1, SeqIs
          <6> QED
            BY <5>5, <6>1 DEF ToSet, Warns
        <5> QED
          BY <4>1, <5>6, GuardedBehind
      <4> QED
        BY <4>2, <4>3
    <3>4. Guarded(f[i])
      BY <3>2, <3>3
    <3> QED
      BY <3>4
  <2> HIDE DEF P
  <2>5. \A i \in 0 .. n : i \in P
    BY <1>1, <2>3, <2>4, Induct
  <2>6. n \in 0 .. n
    BY <1>1
  <2>7. Guarded(f[n])
    BY <1>3, <2>5, <2>6 DEF P
  <2> QED
    BY <1>0, <2>1, <2>7
<1> QED
  BY <1>2, <1>3

\* A log whose reasons are guarded.
LogGuarded(l) == \A k \in 1 .. Len(l) : Guarded(l[k][3])

LEMMA LogTextGuarded ==
  ASSUME NEW l, LogIs(l), LogGuarded(l)
  PROVE  Guarded(LogText(l)) /\ IsSeq(LogText(l))
<1> DEFINE m == Len(l)  rs == [k \in 1 .. m |-> l[k][3]]
<1>1. m \in Nat /\ DOMAIN l = 1 .. m
  BY SeqIs DEF LogIs
<1>2. IsSeq(rs) /\ Len(rs) = m /\ \A k \in 1 .. m : rs[k] = l[k][3]
  BY <1>1, FcnSeq
<1>3. LogText(l) = FlattenSeq(rs)
  BY <1>1 DEF LogText
<1> HIDE DEF rs
<1>4. IsSeqs(rs) /\ \A k \in 1 .. Len(rs) : Guarded(rs[k])
  BY <1>2 DEF IsSeqs, LogIs, LogGuarded
<1> QED
  BY <1>3, <1>4, FlatGuarded

LEMMA LogOfGuarded ==
  ASSUME NEW n \in Nat, NEW r, r = [i \in 1 .. n |-> r[i]],
         \A i \in 1 .. n : ReadOk(r[i]) /\ LogGuarded(r[i].log)
  PROVE  LogGuarded(LogOf(r))
<1> DEFINE ls == [i \in 1 .. n |-> r[i].log]
<1>1. DOMAIN r = 1 .. n
  OBVIOUS
<1>2. LogOf(r) = FlattenSeq(ls)
  BY <1>1 DEF LogOf
<1>3. IsSeq(ls) /\ Len(ls) = n /\ \A i \in 1 .. n : ls[i] = r[i].log
  BY FcnSeq
<1> HIDE DEF ls
<1>4. \A i \in 1 .. n : IsSeq(ls[i]) /\ LogGuarded(ls[i])
  BY <1>3 DEF ReadOk
<1>5. IsSeqs(ls)
  BY <1>3, <1>4 DEF IsSeqs
<1> DEFINE l == FlattenSeq(ls)
<1>6. IsSeq(l) /\ ToSet(l) = UNION {ToSet(ls[i]) : i \in 1 .. n}
  BY <1>3, <1>5, Flattened
<1> HIDE DEF l
<1>7. ASSUME NEW k \in 1 .. Len(l) PROVE Guarded(l[k][3])
  <2>1. l[k] \in ToSet(l)
    BY <1>6, SeqIs DEF ToSet
  <2>2. PICK i \in 1 .. n : l[k] \in ToSet(ls[i])
    BY <1>6, <2>1
  <2>3. DOMAIN ls[i] = 1 .. Len(ls[i])
    BY <1>4, SeqIs
  <2>4. PICK j \in 1 .. Len(ls[i]) : l[k] = ls[i][j]
    BY <2>2, <2>3 DEF ToSet
  <2> QED
    BY <1>4, <2>4 DEF LogGuarded
<1> QED
  BY <1>2, <1>7 DEF l, LogGuarded

LEMMA WithLogGuarded ==
  ASSUME NEW t, IsSeq(t), Guarded(t), NEW l, LogIs(l), LogGuarded(l)
  PROVE  Guarded(WithLog(t, l)) /\ IsSeq(WithLog(t, l))
<1> DEFINE n == Len(t)  p == LogText(l)
           ws == [k \in 1 .. n |-> IF t[k] = "log" THEN p ELSE <<t[k]>>]
<1>1. n \in Nat /\ DOMAIN t = 1 .. n
  BY SeqIs
<1>5. IsSeq(p) /\ Guarded(p)
  BY LogTextGuarded
<1>7. WithLog(t, l) = FlattenSeq(ws)
  BY <1>1 DEF WithLog
<1> HIDE DEF p
<1>6. IsSeq(ws) /\ Len(ws) = n /\ \A k \in 1 .. n : ws[k] = IF t[k] = "log" THEN p ELSE <<t[k]>>
  BY <1>1, FcnSeq
<1> HIDE DEF ws
<1>8. ASSUME NEW k \in 1 .. n PROVE IsSeq(ws[k])
  <2>1. CASE t[k] = "log"
    BY <1>5, <1>6, <2>1
  <2>2. CASE t[k] # "log"
    <3>1. ws[k] = <<t[k]>>
      BY <1>6, <2>2
    <3> QED
      BY <3>1, OneSeq
  <2> QED
    BY <2>1, <2>2
<1>9. IsSeqs(ws)
  BY <1>6, <1>8 DEF IsSeqs
<1>10. ASSUME NEW k \in 1 .. n PROVE Guarded(ws[k]) \/ \E j \in 1 .. k - 1 : Warns(ws[j])
  <2>1. CASE t[k] = "log"
    BY <1>5, <1>6, <2>1
  <2>2. CASE t[k] # "log" /\ t[k] \notin Secrets
    <3>1. ws[k] = <<t[k]>>
      BY <1>6, <2>2
    <3> QED
      BY <2>2, <3>1, GuardedOne
  <2>3. CASE t[k] \in Secrets
    <3>1. PICK j \in 1 .. k - 1 : t[j] = "redact"
      BY <2>3 DEF Guarded
    <3>2. j \in 1 .. n /\ t[j] # "log"
      BY <1>1, <3>1
    <3>3. ws[j] = <<"redact">>
      BY <1>6, <3>1, <3>2
    <3>4. Warns(ws[j])
      <4> DEFINE one == <<"redact">>
      <4>1. Len(one) = 1 /\ one[1] = "redact"
        BY OneSeq
      <4> HIDE DEF one
      <4>2. Warns(one)
        BY <4>1 DEF Warns
      <4> QED
        BY <3>3, <4>2 DEF one
    <3> QED
      BY <3>4
  <2> QED
    BY <2>1, <2>2, <2>3
<1>11. \A k \in 1 .. Len(ws) : Guarded(ws[k]) \/ \E j \in 1 .. k - 1 : Warns(ws[j])
  BY <1>6, <1>10
<1> QED
  BY <1>7, <1>9, <1>11, FlatGuarded

LEMMA LettersSeq ==
  ASSUME WordsApart
  PROVE  IsSeq(Letters)
  BY DEF WordsApart, IsSeq

\* Exhibits of which no letter is a secret.
Lettered(own1) == IsSeq(own1) /\ \A k \in 1 .. Len(own1) : own1[k].letter \notin Secrets

LEMMA LetterClean ==
  ASSUME NEW own1, Lettered(own1), NEW ext, IsSeq(ext), Len(ext) <= Len(Letters), WordsApart, NEW n,
         n \in Citable(own1, ext)
  PROVE  Letter(own1, ext, n) \notin Secrets
<1>1. DOMAIN own1 = 1 .. Len(own1) /\ Len(own1) \in Nat /\ DOMAIN ext = 1 .. Len(ext) /\ Len(ext) \in Nat
      /\ Len(Letters) \in Nat
  BY SeqIs, LettersSeq DEF Lettered
<1>2. CASE n \in {own1[k].name : k \in DOMAIN own1}
  <2> DEFINE S == {k \in DOMAIN own1 : own1[k].name = n}
  <2>1. S # {} /\ S \subseteq Nat
    BY <1>1, <1>2
  <2>2. Min(S) \in S
    BY <2>1, MinIs
  <2>3. Letter(own1, ext, n) = own1[Min(S)].letter
    BY <1>2 DEF Letter
  <2> QED
    BY <1>1, <2>2, <2>3 DEF Lettered
<1>3. CASE n \notin {own1[k].name : k \in DOMAIN own1}
  <2> DEFINE S == {k \in DOMAIN ext : ext[k] = n}
  <2>1. S # {} /\ S \subseteq Nat
    BY <1>1, <1>3 DEF Citable, ToSet
  <2>2. Min(S) \in S
    BY <2>1, MinIs
  <2>3. Letter(own1, ext, n) = Letters[Min(S)]
    BY <1>3 DEF Letter
  <2>4. Min(S) \in 1 .. Len(Letters)
    BY <1>1, <2>2
  <2> QED
    BY <2>3, <2>4 DEF WordsApart
<1> QED
  BY <1>2, <1>3

LEMMA CitedGuarded ==
  ASSUME NEW t, IsSeq(t), Guarded(t), NEW own1, Lettered(own1), NEW ext, IsSeq(ext), Len(ext) <= Len(Letters),
         WordsApart, RefsOk(own1, ext, t)
  PROVE  Guarded(Cited(own1, ext, t))
<1> DEFINE c == Cited(own1, ext, t)
<1>1. Len(t) \in Nat /\ DOMAIN t = 1 .. Len(t)
  BY SeqIs
<1>2. c = [k \in 1 .. Len(t) |-> IF t[k] \in DOMAIN Cites THEN Letter(own1, ext, Cites[t[k]]) ELSE t[k]]
  BY <1>1 DEF Cited
<1>3. Len(c) = Len(t)
  BY CitedOk
<1> HIDE DEF c
<1>4. ASSUME NEW k \in 1 .. Len(t), c[k] \in Secrets PROVE \E j \in 1 .. k - 1 : c[j] = "redact"
  <2>1. t[k] \notin DOMAIN Cites
    <3> SUFFICES ASSUME t[k] \in DOMAIN Cites PROVE FALSE
      OBVIOUS
    <3>1. Cites[t[k]] \in Citable(own1, ext)
      BY <1>1 DEF RefsOk
    <3>2. c[k] = Letter(own1, ext, Cites[t[k]])
      BY <1>2
    <3> QED
      BY <1>4, <3>1, <3>2, LetterClean
  <2>2. c[k] = t[k]
    BY <1>2, <2>1
  <2>3. PICK j \in 1 .. k - 1 : t[j] = "redact"
    BY <1>4, <2>2 DEF Guarded
  <2>4. j \in 1 .. Len(t)
    BY <1>1, <2>3
  <2>5. c[j] = t[j]
    BY <1>2, <2>3, <2>4 DEF WordsApart
  <2> QED
    BY <2>3, <2>5
<1> QED
  BY <1>3, <1>4 DEF Guarded, c

\* Lines of which each is guarded, and whose numbers are no secrets.
LineGuarded(l) == Guarded(l.words) /\ (l.k = "item" => Num[l.n] \notin Secrets)

LinesGuarded(body) == \A i \in 1 .. Len(body) : LineGuarded(body[i])

LEMMA InlineGuarded ==
  ASSUME NEW letters, IsSeq(letters), \A k \in 1 .. Len(letters) : letters[k] \notin Secrets
  PROVE  LinesGuarded(InlineList(letters))
<1> DEFINE n == Len(letters)
           bs == [k \in 1 .. n |-> LineOf("bullet", <<letters[k]>>)]
           e == <<LineOf("blank", << >>)>>
<1>1. n \in Nat /\ DOMAIN letters = 1 .. n
  BY SeqIs
<1>2. IsSeq(bs) /\ Len(bs) = n /\ \A k \in 1 .. n : bs[k] = LineOf("bullet", <<letters[k]>>)
  BY <1>1, FcnSeq
<1>3. ASSUME NEW kind, kind # "item", NEW ws, Guarded(ws) PROVE LineGuarded(LineOf(kind, ws))
  <2> DEFINE l == LineOf(kind, ws)
  <2>1. l.k = kind /\ l.words = ws
    BY DEF LineOf
  <2> HIDE DEF l
  <2>2. LineGuarded(l)
    BY <1>3, <2>1 DEF LineGuarded
  <2> QED
    BY <2>2 DEF l
<1>4. \A k \in 1 .. n : LineGuarded(LineOf("bullet", <<letters[k]>>))
  BY <1>3, GuardedOne
<1>5. InlineList(letters) = IF src.listMode = "inline" /\ letters # << >> THEN e \o bs ELSE << >>
  BY <1>1 DEF InlineList
<1> HIDE DEF bs
<1>6. \A k \in 1 .. n : LineGuarded(bs[k])
  BY <1>2, <1>4
<1>7. IsSeq(e) /\ Len(e) = 1 /\ e[1] = LineOf("blank", << >>)
  BY OneSeq
<1> HIDE DEF e
<1>8. LineGuarded(e[1])
  BY <1>3, <1>7, GuardedNone
<1>9. LinesGuarded(e \o bs)
  <2> DEFINE u == e \o bs
  <2>0. IsSeq(e) /\ IsSeq(bs)
    BY <1>2, <1>7
  <2>3. Len(u) = Len(e) + Len(bs) /\ (\A k \in 1 .. Len(e) : u[k] = e[k]) /\ \A k \in 1 .. Len(bs) : u[Len(e) + k] = bs[k]
    BY <2>0, Joined
  <2> HIDE DEF u
  <2>1. Len(u) = 1 + n /\ u[1] = e[1] /\ \A k \in 1 .. n : u[1 + k] = bs[k]
    BY <1>1, <1>2, <1>7, <2>3
  <2> HIDE DEF u
  <2>2. ASSUME NEW k \in 1 .. Len(u) PROVE LineGuarded(u[k])
    <3>1. k = 1 \/ (k - 1 \in 1 .. n /\ 1 + (k - 1) = k)
      BY <1>1, <2>1
    <3>2. CASE k = 1
      BY <1>8, <2>1, <3>2
    <3>3. CASE k - 1 \in 1 .. n /\ 1 + (k - 1) = k
      <4>1. u[k] = bs[k - 1]
        BY <2>1, <3>3
      <4> QED
        BY <1>6, <3>3, <4>1
    <3> QED
      BY <3>1, <3>2, <3>3
  <2> QED
    BY <2>2 DEF LinesGuarded, u
<1>10. LinesGuarded(<< >>)
  BY NoneSeq DEF LinesGuarded
<1> QED
  BY <1>5, <1>9, <1>10

LEMMA LinesGuardedJoin ==
  ASSUME NEW a, BodyLines(a), LinesGuarded(a), NEW b, BodyLines(b), LinesGuarded(b)
  PROVE  LinesGuarded(a \o b)
<1> DEFINE u == a \o b
<1>1. IsSeq(a) /\ IsSeq(b) /\ Len(a) \in Nat /\ Len(b) \in Nat
  BY SeqIs DEF BodyLines
<1>2. Len(u) = Len(a) + Len(b) /\ (\A i \in 1 .. Len(a) : u[i] = a[i]) /\ \A i \in 1 .. Len(b) : u[Len(a) + i] = b[i]
  BY <1>1, Joined
<1> HIDE DEF u
<1>4. ASSUME NEW k \in 1 .. Len(u) PROVE LineGuarded(u[k])
  <2>1. k \in 1 .. Len(a) \/ (k - Len(a) \in 1 .. Len(b) /\ Len(a) + (k - Len(a)) = k)
    BY <1>1, <1>2, Halves
  <2>2. CASE k \in 1 .. Len(a)
    BY <1>2, <2>2 DEF LinesGuarded
  <2>3. CASE k - Len(a) \in 1 .. Len(b) /\ Len(a) + (k - Len(a)) = k
    BY <1>2, <2>3 DEF LinesGuarded
  <2> QED
    BY <2>1, <2>2, <2>3
<1> QED
  BY <1>4 DEF LinesGuarded, u

LEMMA InlineKinds ==
  ASSUME NEW letters, IsSeq(letters)
  PROVE  \A k \in 1 .. Len(InlineList(letters)) : InlineList(letters)[k].k # "auto"
<1> DEFINE n == Len(letters)
           bs == [k \in 1 .. n |-> LineOf("bullet", <<letters[k]>>)]
           e == <<LineOf("blank", << >>)>>
<1>1. n \in Nat /\ DOMAIN letters = 1 .. n
  BY SeqIs
<1>2. IsSeq(bs) /\ Len(bs) = n /\ \A k \in 1 .. n : bs[k] = LineOf("bullet", <<letters[k]>>)
  BY <1>1, FcnSeq
<1>3. \A kind, ws : LineOf(kind, ws).k = kind
  BY DEF LineOf
<1>4. InlineList(letters) = IF src.listMode = "inline" /\ letters # << >> THEN e \o bs ELSE << >>
  BY <1>1 DEF InlineList
<1> HIDE DEF bs
<1>5. IsSeq(e) /\ Len(e) = 1 /\ e[1].k = "blank"
  BY <1>3, OneSeq
<1> HIDE DEF e
<1>6. \A k \in 1 .. n : bs[k].k = "bullet"
  BY <1>2, <1>3
<1> DEFINE u == e \o bs
<1>7. Len(u) = Len(e) + Len(bs) /\ (\A k \in 1 .. Len(e) : u[k] = e[k]) /\ \A k \in 1 .. Len(bs) : u[Len(e) + k] = bs[k]
  <2>1. IsSeq(e) /\ IsSeq(bs)
    BY <1>2, <1>5
  <2> QED
    BY <2>1, Joined
<1> HIDE DEF u
<1>8. ASSUME NEW k \in 1 .. Len(u) PROVE u[k].k # "auto"
  <2>1. k \in 1 .. Len(e) \/ (k - Len(e) \in 1 .. Len(bs) /\ Len(e) + (k - Len(e)) = k)
    BY <1>1, <1>2, <1>5, <1>7
  <2>2. CASE k \in 1 .. Len(e)
    BY <1>5, <1>7, <2>2
  <2>3. CASE k - Len(e) \in 1 .. Len(bs) /\ Len(e) + (k - Len(e)) = k
    <3>1. u[k] = bs[k - Len(e)]
      BY <1>7, <2>3
    <3> QED
      BY <1>2, <1>6, <2>3, <3>1
  <2> QED
    BY <2>1, <2>2, <2>3
<1>9. 1 .. Len(<< >>) = {}
  BY NoneSeq
<1> QED
  BY <1>4, <1>8, <1>9 DEF u

\* Each #. line of a body has a number with a word.
AutosNamed(body) == \A i \in 1 .. Len(body) : body[i].k = "auto" => Autos(body, i) \in DOMAIN Num

LEMMA AutosCounted ==
  ASSUME src \in Sources, NumbersNamed, NEW body, Len(body) \in Nat, Len(src.body) <= Len(body),
         \A i \in 1 .. Len(src.body) : body[i].k = src.body[i].k,
         \A i \in Len(src.body) + 1 .. Len(body) : body[i].k # "auto"
  PROVE  AutosNamed(body)
<1> DEFINE m == Len(src.body)  B == {i \in DOMAIN src.body : src.body[i].k = "auto"}
<1>1. DOMAIN src.body = 1 .. m /\ m \in Nat
  BY BodyIs
<1>2. IsFiniteSet(B) /\ Cardinality(B) \in Nat
  <2>1. B \subseteq 1 .. m /\ IsFiniteSet(1 .. m)
    BY <1>1, FS_Interval
  <2> QED
    BY <2>1, FS_Subset, FS_CardinalityType
<1>3. ASSUME NEW i \in 1 .. Len(body), body[i].k = "auto" PROVE Autos(body, i) \in DOMAIN Num
  <2> DEFINE A == {j \in 1 .. i : body[j].k = "auto"}
  <2>1. i \in 1 .. m
    <3>1. i \notin m + 1 .. Len(body)
      BY <1>3
    <3> QED
      BY <1>1, <3>1
  <2>2. A \subseteq B /\ i \in A
    <3>1. ASSUME NEW j \in 1 .. i PROVE j \in 1 .. m /\ body[j].k = src.body[j].k
      BY <1>1, <2>1
    <3> QED
      BY <1>1, <1>3, <3>1
  <2> HIDE DEF A, B
  <2>3. IsFiniteSet(A) /\ Cardinality(A) <= Cardinality(B) /\ Cardinality(A) \in Nat
    BY <1>2, <2>2, FS_Subset, FS_CardinalityType
  <2>4. Cardinality(A) # 0
    BY <2>2, <2>3, FS_EmptySet
  <2>5. Cardinality(A) \in 1 .. Cardinality(B)
    BY <1>2, <2>3, <2>4
  <2>6. 1 .. Cardinality(B) \subseteq DOMAIN Num
    BY DEF NumbersNamed, B
  <2>7. Autos(body, i) = Cardinality(A)
    BY DEF Autos, A
  <2> QED
    BY <2>5, <2>6, <2>7
<1> QED
  BY <1>3 DEF AutosNamed

LEMMA AutonumberedGuarded ==
  ASSUME NEW body, BodyLines(body), LinesGuarded(body), WordsApart, AutosNamed(body)
  PROVE  LinesGuarded(Autonumbered(body))
<1> DEFINE a == Autonumbered(body)  n == Len(body)
<1>1. n \in Nat /\ DOMAIN body = 1 .. n /\ \A i \in 1 .. n : LineOk(body[i]) /\ LineGuarded(body[i])
  BY SeqIs DEF BodyLines, LinesGuarded
<1>2. a = [i \in 1 .. n |-> IF body[i].k = "auto" THEN [body[i] EXCEPT !.k = "item", !.n = Autos(body, i)] ELSE body[i]]
  BY <1>1 DEF Autonumbered
<1> HIDE DEF a
<1>3. Len(a) = n
  <2>1. a = [i \in 1 .. n |-> a[i]]
    BY <1>2
  <2> QED
    BY <1>1, <2>1, FcnSeq
<1>5. ASSUME NEW i \in 1 .. n PROVE LineGuarded(a[i])
  <2> DEFINE x == Autos(body, i)  l == body[i]  one == [l EXCEPT !.n = x]  m == [l EXCEPT !.k = "item", !.n = x]
  <2>0. l.k = "auto" => x \in DOMAIN Num
    BY <1>1 DEF AutosNamed
  <2> HIDE DEF x
  <2>1. a[i] = IF body[i].k = "auto" THEN m ELSE body[i]
    BY <1>2 DEF x
  <2>2. l = [k |-> l.k, words |-> l.words, n |-> l.n, indent |-> l.indent, macro |-> l.macro]
    BY <1>1 DEF LineOk
  <2>3. LineGuarded(l)
    BY <1>1
  <2> HIDE DEF l
  <2>4. one = [k |-> l.k, words |-> l.words, n |-> x, indent |-> l.indent, macro |-> l.macro]
    BY <2>2
  <2>5. m = [one EXCEPT !.k = "item"]
    BY <2>2
  <2> HIDE DEF m, one
  <2>6. \A c : [one EXCEPT !.k = c] = [k |-> c, words |-> l.words, n |-> x, indent |-> l.indent, macro |-> l.macro]
    BY <2>4
  <2>7. m = [k |-> "item", words |-> l.words, n |-> x, indent |-> l.indent, macro |-> l.macro]
    BY <2>5, <2>6
  <2>8. m.words = l.words /\ m.n = x
    BY <2>7
  <2>9. l.k = "auto" => Num[x] \notin Secrets
    BY <2>0 DEF WordsApart
  <2>10. l.k = "auto" => LineGuarded(m)
    BY <2>3, <2>8, <2>9 DEF LineGuarded
  <2> QED
    BY <2>1, <2>3, <2>10 DEF l
<1> QED
  BY <1>3, <1>5 DEF a, LinesGuarded

\* What is no footnote's is a line of the body.
LEMMA WithoutNotesFrom ==
  ASSUME NEW body, BodyLines(body)
  PROVE  \A i \in 1 .. Len(WithoutNotes(body)) : \E j \in 1 .. Len(body) : WithoutNotes(body)[i] = body[j]
<1> DEFINE n == Len(body)
           f == CHOOSE g : Kept1(body, n, g)
<1>1. n \in Nat /\ \A i \in 1 .. n : LineOk(body[i])
  BY SeqIs DEF BodyLines
<1>2. WithoutNotes(body) = f[n]
  BY DEF WithoutNotes, Kept1
<1>3. Kept1(body, n, f)
  BY <1>1, KeptExist
<1> HIDE DEF f
<1>8. \A m \in 0 .. n : f[m] = IF m = 0 THEN << >> ELSE IF IsNote(body, m) THEN f[m - 1] ELSE Append(f[m - 1], body[m])
  BY <1>3 DEF Kept1
<1> DEFINE From(s) == IsSeq(s) /\ \A i \in 1 .. Len(s) : \E j \in 1 .. n : s[i] = body[j]
           P == {m \in 0 .. n : From(f[m])}
<1>4. 0 \in P
  <2>1. f[0] = << >>
    BY <1>1, <1>3 DEF Kept1
  <2>2. From(<< >>)
    BY NoneSeq
  <2> QED
    BY <1>1, <2>1, <2>2
<1>5. ASSUME NEW m \in 1 .. n, m - 1 \in P PROVE m \in P
  <2>1. f[m] = IF IsNote(body, m) THEN f[m - 1] ELSE Append(f[m - 1], body[m])
    <3>1. m \in 0 .. n /\ m # 0
      OBVIOUS
    <3> QED
      BY <1>8, <3>1, Zenon
  <2>2. From(f[m - 1])
    BY <1>1, <1>5
  <2>3. From(Append(f[m - 1], body[m]))
    <3> DEFINE a == f[m - 1]  b == Append(a, body[m])
    <3>1. IsSeq(b) /\ Len(b) = Len(a) + 1 /\ b[Len(a) + 1] = body[m] /\ \A i \in 1 .. Len(a) : b[i] = a[i]
      BY <2>2, Appended
    <3>2. Len(a) \in Nat
      BY <2>2, SeqIs
    <3>3. \A i \in 1 .. Len(a) + 1 : i = Len(a) + 1 \/ i \in 1 .. Len(a)
      BY <3>2
    <3> HIDE DEF a, b
    <3>4. \A i \in 1 .. Len(b) : \E j \in 1 .. n : b[i] = body[j]
      BY <2>2, <3>1, <3>3 DEF a
    <3> QED
      BY <3>1, <3>4 DEF b, a
  <2> HIDE DEF From
  <2>4. From(f[m])
    BY <2>1, <2>2, <2>3
  <2> QED
    BY <1>1, <2>4
<1> HIDE DEF P, From
<1>6. \A m \in 0 .. n : m \in P
  BY <1>1, <1>4, <1>5, Induct
<1>7. n \in P
  BY <1>1, <1>6
<1> QED
  BY <1>2, <1>7 DEF P, From

\* The body that goes to a parser, of either kind, is as guarded as its texts.
LEMMA BodyGuarded ==
  ASSUME NEW body, BodyLines(body), LinesGuarded(body), WordsApart, AutosNamed(body)
  PROVE  LinesGuarded(WithoutNotes(Autonumbered(body)))
<1> DEFINE a == Autonumbered(body)  w == WithoutNotes(a)
<1>1. BodyLines(a) /\ LinesGuarded(a)
  BY AutonumberedOk, AutonumberedGuarded
<1> HIDE DEF a
<1>2. \A i \in 1 .. Len(w) : \E j \in 1 .. Len(a) : w[i] = a[j]
  BY <1>1, WithoutNotesFrom
<1> HIDE DEF w
<1>3. LinesGuarded(w)
  BY <1>1, <1>2 DEF LinesGuarded
<1> QED
  BY <1>3 DEF w, a

-----------------------------------------------------------------------------
(* The lines of a public build, and what the parser makes of them.         *)

LEMMA ExhibitsLettered ==
  ASSUME NEW s \in Sources, NEW v, WordsApart
  PROVE  /\ Lettered(ExhibitsOf(s, v)) /\ Lettered(DocxMap(s))
         /\ IsSeq(s.external) /\ Len(s.external) <= Len(Letters) /\ IsSeq(Letters)
<1> DEFINE n == Len(s.exhibits)  a == ExhibitsOf(s, v)  d == DocxMap(s)
<1>1. IsSeq(s.exhibits) /\ IsSeq(s.external)
  BY SourceAssumption DEF IsSeq
<1>2. n \in Nat /\ DOMAIN s.exhibits = 1 .. n
  BY <1>1, SeqIs
<1>3. n <= Len(Letters) /\ Len(Letters) \in Nat /\ Len(s.external) <= Len(Letters) /\ IsSeq(Letters)
  BY SeqIs, LettersSeq DEF WordsApart
<1>4. a = [k \in 1 .. n |-> a[k]] /\ d = [k \in 1 .. n |-> d[k]]
  BY <1>2 DEF ExhibitsOf, DocxMap
<1>5. \A k \in 1 .. n : a[k].letter = Letters[k] /\ d[k].letter = Letters[k]
  BY <1>2 DEF ExhibitsOf, DocxMap
<1>6. ASSUME NEW k \in 1 .. n PROVE Letters[k] \notin Secrets
  <2>1. k \in 1 .. Len(Letters)
    BY <1>2, <1>3
  <2> QED
    BY <2>1 DEF WordsApart
<1> HIDE DEF a, d
<1>7. IsSeq(a) /\ Len(a) = n /\ IsSeq(d) /\ Len(d) = n
  BY <1>2, <1>4, FcnSeq
<1>8. Lettered(a) /\ Lettered(d)
  BY <1>5, <1>6, <1>7 DEF Lettered
<1> QED
  BY <1>1, <1>3, <1>8 DEF a, d

\* What is public of a body is guarded, and so is its log.
LEMMA UnsealedClean ==
  ASSUME src \in Sources, SecretsMarked, \A i \in 1 .. Len(src.body) : Unsealed("public")[i].ok
  PROVE  /\ \A i \in 1 .. Len(src.body) : Guarded(Unsealed("public")[i].text)
         /\ LogGuarded(LogOf(Unsealed("public")))
<1> DEFINE n == Len(src.body)  r == Unsealed("public")
<1>1. /\ r = [i \in 1 .. n |-> r[i]] /\ n \in Nat
      /\ \A i \in 1 .. n : ReadOk(r[i]) /\ r[i] = Redacted(src.body[i].words, src.literals, "public")
  BY UnsealedOk
<1>2. \A i \in 1 .. n : IsSeq(src.body[i].words) /\ MarkedFrom(src.body[i].words, 1)
  BY BodyIs DEF SecretsMarked
<1>3. \A x \in DOMAIN src.literals : src.literals[x] \notin Secrets
  BY DEF SecretsMarked
<1> HIDE DEF r
<1>4. ASSUME NEW i \in 1 .. n PROVE CleanRead(r[i])
  <2>1. CleanRead(Redacted(src.body[i].words, src.literals, "public"))
    BY <1>2, <1>3, RedactedClean
  <2> QED
    BY <1>1, <2>1
<1>5. \A i \in 1 .. n : Guarded(r[i].text) /\ LogGuarded(r[i].log)
  BY <1>4 DEF CleanRead, LogGuarded, r
<1>6. LogGuarded(LogOf(r))
  BY <1>1, <1>5, LogOfGuarded
<1> QED
  BY <1>5, <1>6 DEF r

\* The lines of a body with other words, and when none of them shows more
\* than it may.
CitedText(ex, ext, r) == [i \in DOMAIN src.body |-> [src.body[i] EXCEPT !.words = Cited(ex, ext, r[i].text)]]

LikeBody(text) ==
  /\ BodyLines(text) /\ LinesGuarded(text) /\ Len(text) = Len(src.body)
  /\ \A i \in 1 .. Len(src.body) : text[i].k = src.body[i].k

LEMMA CitedLines ==
  ASSUME src \in Sources, WordsApart, NumbersNamed, NEW ex, Lettered(ex), NEW ext, IsSeq(ext), Len(ext) <= Len(Letters),
         NEW r, \A i \in 1 .. Len(src.body) : IsSeq(r[i].text) /\ Guarded(r[i].text) /\ RefsOk(ex, ext, r[i].text)
  PROVE  LikeBody(CitedText(ex, ext, r))
<1> DEFINE n == Len(src.body)
           ws(i) == Cited(ex, ext, r[i].text)
           line(i) == [src.body[i] EXCEPT !.words = ws(i)]
           text == [i \in DOMAIN src.body |-> line(i)]
<1>1. DOMAIN src.body = 1 .. n /\ n \in Nat /\ \A i \in 1 .. n : LineOk(src.body[i])
  BY BodyIs DEF BodyLines
<1>2. ASSUME NEW i \in 1 .. n PROVE IsSeq(ws(i)) /\ Guarded(ws(i))
  BY CitedOk, CitedGuarded
<1>3. ASSUME NEW i \in 1 .. n PROVE LineOk(line(i)) /\ LineGuarded(line(i)) /\ line(i).k = src.body[i].k
  <2> DEFINE b == src.body[i]  w == ws(i)  l == [b EXCEPT !.words = w]
  <2>1. LineOk(b) /\ IsSeq(w) /\ Guarded(w)
    BY <1>1, <1>2
  <2>2. b.k = "item" => b.n \in DOMAIN Num
    BY <1>1 DEF NumbersNamed
  <2> HIDE DEF b, w, ws
  <2>3. b = [k |-> b.k, words |-> b.words, n |-> b.n, indent |-> b.indent, macro |-> b.macro]
    BY <2>1 DEF LineOk
  <2>4. l = [k |-> b.k, words |-> w, n |-> b.n, indent |-> b.indent, macro |-> b.macro]
    BY <2>3
  <2>5. LineOk(l)
    BY <2>1, WordsLine
  <2> HIDE DEF l
  <2>6. l.words = w /\ l.n = b.n /\ l.k = b.k
    BY <2>4
  <2>7. b.k = "item" => Num[b.n] \notin Secrets
    BY <2>2 DEF WordsApart
  <2>8. LineGuarded(l)
    BY <2>1, <2>6, <2>7 DEF LineGuarded
  <2> QED
    BY <2>5, <2>6, <2>8 DEF l, b, w
<1> HIDE DEF line
<1>4. IsSeq(text) /\ Len(text) = n /\ \A i \in 1 .. n : text[i] = line(i)
  BY <1>1, FcnSeq
<1> HIDE DEF text
<1>5. /\ BodyLines(text) /\ LinesGuarded(text) /\ Len(text) = n
      /\ \A i \in 1 .. n : text[i].k = src.body[i].k
  BY <1>3, <1>4 DEF BodyLines, LinesGuarded
<1> QED
  BY <1>5 DEF text, line, CitedText, LikeBody

\* And what follows them.
LEMMA LinedGuarded ==
  ASSUME src \in Sources, WordsApart, NumbersNamed, NEW text, LikeBody(text),
         NEW letters, IsSeq(letters), \A k \in 1 .. Len(letters) : letters[k] \notin Secrets
  PROVE  /\ LinesGuarded(WithoutNotes(Autonumbered(text \o InlineList(letters))))
         /\ BodyLines(WithoutNotes(Autonumbered(text \o InlineList(letters))))
<1> DEFINE e == InlineList(letters)  u == text \o e
<1>0. /\ BodyLines(text) /\ LinesGuarded(text) /\ Len(text) = Len(src.body)
      /\ \A i \in 1 .. Len(src.body) : text[i].k = src.body[i].k
  BY DEF LikeBody
<1>1. BodyLines(e) /\ LinesGuarded(e) /\ \A k \in 1 .. Len(e) : e[k].k # "auto"
  BY InlineOk, InlineGuarded, InlineKinds
<1> HIDE DEF e
<1>2. BodyLines(u) /\ LinesGuarded(u)
  BY <1>0, <1>1, LinesJoin, LinesGuardedJoin
<1>3. /\ Len(u) = Len(text) + Len(e) /\ (\A i \in 1 .. Len(text) : u[i] = text[i])
      /\ \A i \in 1 .. Len(e) : u[Len(text) + i] = e[i]
  <2>1. IsSeq(text) /\ IsSeq(e)
    BY <1>0, <1>1 DEF BodyLines
  <2> QED
    BY <2>1, Joined
<1>4. Len(text) \in Nat /\ Len(e) \in Nat
  BY <1>0, <1>1, SeqIs DEF BodyLines
<1> HIDE DEF u
<1>5. ASSUME NEW i \in Len(src.body) + 1 .. Len(u) PROVE u[i].k # "auto"
  <2>1. i - Len(text) \in 1 .. Len(e) /\ Len(text) + (i - Len(text)) = i
    BY <1>0, <1>3, <1>4
  <2>2. u[i] = e[i - Len(text)]
    BY <1>3, <2>1
  <2> QED
    BY <1>1, <2>1, <2>2
<1>6. AutosNamed(u)
  <2>1. Len(u) \in Nat /\ Len(src.body) <= Len(u)
    BY <1>0, <1>3, <1>4
  <2>2. \A i \in 1 .. Len(src.body) : u[i].k = src.body[i].k
    BY <1>0, <1>3
  <2> QED
    BY <1>5, <2>1, <2>2, AutosCounted
<1>7. LinesGuarded(WithoutNotes(Autonumbered(u))) /\ BodyLines(WithoutNotes(Autonumbered(u)))
  BY <1>2, <1>6, BodyGuarded, AutonumberedOk, WithoutNotesOk
<1> QED
  BY <1>7 DEF u, e

\* The body of a public build.
LEMMA PreparedGuarded ==
  ASSUME src \in Sources, SecretsMarked, WordsApart, NumbersNamed,
         BodyOk(Logged(Unsealed("public")), ExhibitsOf(src, "public"), src.external)
  PROVE  LinesGuarded(Prepared(Logged(Unsealed("public")), ExhibitsOf(src, "public")))
<1> DEFINE n == Len(src.body)  r == Unsealed("public")  g == Logged(r)  ex == ExhibitsOf(src, "public")
           letters == [k \in DOMAIN ex |-> ex[k].letter]
           text == CitedText(ex, src.external, g)
<1>1. /\ r = [i \in 1 .. n |-> r[i]] /\ n \in Nat /\ DOMAIN src.body = 1 .. n
      /\ (\A i \in 1 .. n : ReadOk(r[i])) /\ LogIs(LogOf(r))
  BY UnsealedOk
<1> HIDE DEF r
<1>2. /\ g = [i \in 1 .. n |-> g[i]]
      /\ \A i \in 1 .. n : g[i].text = WithLog(r[i].text, LogOf(r)) /\ IsSeq(g[i].text) /\ g[i].ok = r[i].ok
  BY <1>1, LoggedOk
<1> HIDE DEF g
<1>3. \A i \in 1 .. n : r[i].ok /\ RefsOk(ex, src.external, g[i].text)
  <2>1. BodyOk(g, ex, src.external) /\ DOMAIN g = 1 .. n
    BY <1>2 DEF g, r
  <2>2. \A i \in 1 .. n : g[i].ok /\ RefsOk(ex, src.external, g[i].text)
    BY <2>1 DEF BodyOk
  <2> QED
    BY <1>2, <2>2
<1>4. (\A i \in 1 .. n : Guarded(r[i].text)) /\ LogGuarded(LogOf(r))
  BY <1>3, UnsealedClean DEF r
<1>5. ASSUME NEW i \in 1 .. n PROVE Guarded(g[i].text)
  <2>1. IsSeq(r[i].text) /\ Guarded(r[i].text)
    BY <1>1, <1>4 DEF ReadOk
  <2>2. Guarded(WithLog(r[i].text, LogOf(r)))
    BY <1>1, <1>4, <2>1, WithLogGuarded
  <2> QED
    BY <1>2, <2>2
<1>6. Lettered(ex) /\ IsSeq(src.external) /\ Len(src.external) <= Len(Letters)
  BY ExhibitsLettered
<1> HIDE DEF ex
<1>7. LikeBody(text)
  <2>1. \A i \in 1 .. n : IsSeq(g[i].text) /\ Guarded(g[i].text) /\ RefsOk(ex, src.external, g[i].text)
    BY <1>2, <1>3, <1>5
  <2> QED
    BY <1>6, <2>1, CitedLines
<1> HIDE DEF text
<1>8. IsSeq(letters) /\ \A k \in 1 .. Len(letters) : letters[k] \notin Secrets
  <2>1. Len(ex) \in Nat /\ DOMAIN ex = 1 .. Len(ex) /\ \A k \in 1 .. Len(ex) : ex[k].letter \notin Secrets
    BY <1>6, SeqIs DEF Lettered
  <2>2. letters = [k \in 1 .. Len(ex) |-> ex[k].letter]
    BY <2>1
  <2> HIDE DEF letters
  <2>3. IsSeq(letters) /\ Len(letters) = Len(ex) /\ \A k \in 1 .. Len(ex) : letters[k] = ex[k].letter
    BY <2>1, <2>2, FcnSeq
  <2> QED
    BY <2>1, <2>3
<1> HIDE DEF letters
<1>9. LinesGuarded(WithoutNotes(Autonumbered(text \o InlineList(letters))))
  BY <1>7, <1>8, LinedGuarded
<1>10. Prepared(g, ex) = WithoutNotes(Autonumbered(text \o InlineList(letters)))
  BY DEF Prepared, text, letters, CitedText
<1>11. LinesGuarded(Prepared(g, ex))
  BY <1>9, <1>10
<1> QED
  BY <1>11 DEF g, r, ex

\* Blocks of which each is guarded, and what has been read of a body.
BlocksGuarded(bs) == \A i \in 1 .. Len(bs) : Guarded(bs[i].words)

ParseGuarded ==
  /\ LinesGuarded(lines) /\ Guarded(pend.words) /\ Guarded(table) /\ Guarded(verb.words) /\ BlocksGuarded(blocks)

LEMMA GuardedMore ==
  ASSUME NEW bs, IsSeq(bs), BlocksGuarded(bs), NEW b, Guarded(b.words)
  PROVE  BlocksGuarded(Append(bs, b)) /\ IsSeq(Append(bs, b))
<1> DEFINE c == Append(bs, b)
<1>1. IsSeq(c) /\ Len(c) = Len(bs) + 1 /\ c[Len(bs) + 1] = b /\ \A i \in 1 .. Len(bs) : c[i] = bs[i]
  BY Appended
<1>2. Len(bs) \in Nat
  BY SeqIs
<1> HIDE DEF c
<1>3. ASSUME NEW i \in 1 .. Len(c) PROVE Guarded(c[i].words)
  <2>1. i = Len(bs) + 1 \/ i \in 1 .. Len(bs)
    BY <1>1, <1>2
  <2>2. CASE i = Len(bs) + 1
    BY <1>1, <2>2
  <2>3. CASE i \in 1 .. Len(bs)
    BY <1>1, <2>3 DEF BlocksGuarded
  <2> QED
    BY <2>1, <2>2, <2>3
<1> QED
  BY <1>1, <1>3 DEF BlocksGuarded, c

LEMMA BlockWordsAre ==
  ASSUME NEW kind, NEW ws, NEW n
  PROVE  Block(kind, ws, n).words = ws
  BY DEF Block

LEMMA FlushedGuarded ==
  ASSUME NEW bs, IsSeq(bs), BlocksGuarded(bs), Guarded(pend.words)
  PROVE  BlocksGuarded(Flushed(bs)) /\ IsSeq(Flushed(bs))
  BY GuardedMore DEF Flushed

LEMMA SettledGuarded ==
  ASSUME ParseOk, ParseGuarded
  PROVE  /\ BlocksGuarded(Tabled) /\ IsSeq(Tabled) /\ BlocksGuarded(Settled) /\ IsSeq(Settled)
<1>1. IsSeq(blocks) /\ BlocksGuarded(blocks) /\ Guarded(table) /\ Guarded(pend.words)
  BY DEF ParseOk, BlocksOk, ParseGuarded
<1>2. Guarded(Block("table", table, 0).words)
  BY <1>1, BlockWordsAre
<1>3. BlocksGuarded(Tabled) /\ IsSeq(Tabled)
  BY <1>1, <1>2, GuardedMore DEF Tabled
<1> QED
  BY <1>1, <1>3, FlushedGuarded DEF Settled

LEMMA TextGuarded ==
  ASSUME LineOk(Line), LineGuarded(Line)
  PROVE  Guarded(Text) /\ Guarded(Line.words)
<1>1. Guarded(Line.words) /\ IsSeq(Line.words)
  BY DEF LineGuarded, LineOk
<1>2. CASE Line.k = "item"
  <2> DEFINE w == Num[Line.n]
  <2>1. w \notin Secrets
    BY <1>2 DEF LineGuarded
  <2>2. Text = <<w>> \o Line.words
    BY <1>2 DEF Text
  <2> HIDE DEF w
  <2>3. Guarded(<<w>>) /\ IsSeq(<<w>>)
    BY <2>1, GuardedOne, OneSeq
  <2>4. Guarded(<<w>> \o Line.words)
    BY <1>1, <2>3, GuardedJoin
  <2> QED
    BY <1>1, <2>2, <2>4
<1>3. CASE Line.k # "item"
  BY <1>1, <1>3 DEF Text
<1> QED
  BY <1>2, <1>3

LEMMA StartsGuarded ==
  ASSUME LineOk(Line), LineGuarded(Line)
  PROVE  Guarded(Starts.words)
<1>1. Guarded(Text) /\ Guarded(Line.words)
  BY TextGuarded
<1>2. Nothing.words = << >>
  BY BlockWordsAre DEF Nothing
<1>3. Starts.words \in {Line.words, Text, << >>}
  <2>1. CASE Line.k = "bullet" /\ ~Line.indent
    BY <2>1, BlockWordsAre DEF Starts
  <2>2. CASE ~(Line.k = "bullet" /\ ~Line.indent) /\ Line.k = "item" /\ (letter \/ Tight(at))
    <3>1. Starts = Block("numbered", Line.words, Line.n)
      BY <2>2 DEF Starts
    <3> QED
      BY <3>1, BlockWordsAre
  <2>3. CASE Line.k = "quote"
    <3>1. Starts = Block("quote", Line.words, 0)
      BY <2>3 DEF Starts
    <3> QED
      BY <3>1, BlockWordsAre
  <2>4. CASE Line.k \in {"blank", "comment", "heading", "macro"}
    <3>1. Starts = Nothing
      BY <2>4 DEF Starts
    <3> QED
      BY <1>2, <3>1
  <2>5. CASE /\ ~(Line.k = "bullet" /\ ~Line.indent) /\ ~(Line.k = "item" /\ (letter \/ Tight(at)))
             /\ Line.k # "quote" /\ Line.k \notin {"blank", "comment", "heading", "macro"}
    <3>1. Starts = Block("paragraph", Text, 0)
      BY <2>5 DEF Starts
    <3> QED
      BY <3>1, BlockWordsAre
  <2> QED
    BY <2>1, <2>2, <2>3, <2>4, <2>5
<1> QED
  BY <1>1, <1>3, GuardedNone

LEMMA WholeGuarded ==
  ASSUME LineOk(Line), LineGuarded(Line), NEW bs, IsSeq(bs), BlocksGuarded(bs)
  PROVE  BlocksGuarded(bs \o Whole)
<1> DEFINE b == Block(IF Line.k = "heading" THEN "heading" ELSE Line.macro, Line.words, Line.n)
<1>1. CASE Line.k \in {"heading", "macro"}
  <2>1. Whole = <<b>>
    BY <1>1 DEF Whole
  <2>2. Guarded(b.words)
    BY TextGuarded, BlockWordsAre
  <2> HIDE DEF b
  <2>3. bs \o <<b>> = Append(bs, b)
    BY JoinOne
  <2> QED
    BY <2>1, <2>2, <2>3, GuardedMore
<1>2. CASE Line.k \notin {"heading", "macro"}
  <2>1. Whole = << >>
    BY <1>2 DEF Whole
  <2> QED
    BY <2>1, JoinOne
<1> QED
  BY <1>1, <1>2

LEMMA ReadLineGuarded ==
  ASSUME ParseOk, ParseGuarded, LineOk(Line), LineGuarded(Line), ReadLine
  PROVE  Guarded(pend'.words) /\ Guarded(table') /\ verb' = verb /\ BlocksGuarded(blocks')
<1>1. Guarded(table') /\ verb' = verb
  BY GuardedNone DEF ReadLine
<1>2. CASE Joins
  <2>1. pend' = [pend EXCEPT !.words = @ \o Text] /\ blocks' = Tabled
    BY <1>2 DEF ReadLine
  <2>2. pend # Nothing
    BY <1>2 DEF Joins, Continues, Nothing, Block
  <2>3. pend = [kind |-> pend.kind, words |-> pend.words, n |-> pend.n] /\ IsSeq(pend.words)
    BY <2>2 DEF ParseOk, PendOk, BlockOk
  <2> DEFINE w == pend.words \o Text
  <2>4. Guarded(w)
    BY <2>3, TextSeq, TextGuarded, GuardedJoin DEF ParseGuarded
  <2>5. pend' = [pend EXCEPT !.words = w]
    BY <2>1, <2>3
  <2> HIDE DEF w
  <2>6. pend' = [kind |-> pend.kind, words |-> w, n |-> pend.n]
    BY <2>3, <2>5
  <2>7. pend'.words = w
    BY <2>6
  <2> QED
    BY <1>1, <2>1, <2>4, <2>7, SettledGuarded
<1>3. CASE ~Joins
  <2>1. pend' = Starts /\ blocks' = Settled \o Whole
    BY <1>3 DEF ReadLine
  <2> QED
    BY <1>1, <2>1, StartsGuarded, SettledGuarded, WholeGuarded
<1> QED
  BY <1>2, <1>3

LEMMA VerbatimGuarded ==
  ASSUME ParseOk, ParseGuarded, LineOk(Line), LineGuarded(Line), Verbatim
  PROVE  Guarded(pend'.words) /\ Guarded(table') /\ Guarded(verb'.words) /\ BlocksGuarded(blocks')
<1>0. /\ Guarded(pend.words) /\ Guarded(table) /\ Guarded(verb.words) /\ BlocksGuarded(blocks)
      /\ IsSeq(blocks) /\ IsSeq(verb.words)
  BY DEF ParseGuarded, ParseOk, BlocksOk
<1>1. Guarded(pend'.words) /\ Guarded(table')
  <2>1. Guarded(Nothing.words)
    BY BlockWordsAre, GuardedNone DEF Nothing
  <2> QED
    BY <1>0, <2>1 DEF Verbatim
<1>3. CASE verb.on /\ Line.k = "end"
  <2>1. blocks' = Append(blocks, Block("fixed", verb.words, 0)) /\ verb' = Closed
    BY <1>3 DEF Verbatim
  <2>2. Guarded(Block("fixed", verb.words, 0).words)
    BY <1>0, BlockWordsAre
  <2>3. Guarded(Closed.words)
    BY GuardedNone DEF Closed
  <2> QED
    BY <1>0, <1>1, <2>1, <2>2, <2>3, GuardedMore
<1>4. CASE verb.on /\ Line.k # "end"
  <2> DEFINE w == verb.words \o Text
  <2>1. verb' = [verb EXCEPT !.words = w] /\ blocks' = blocks
    BY <1>4 DEF Verbatim
  <2>2. verb = [on |-> verb.on, words |-> verb.words]
    BY DEF ParseOk
  <2>4. Guarded(w)
    BY <1>0, TextSeq, TextGuarded, GuardedJoin
  <2> HIDE DEF w
  <2>3. verb' = [on |-> verb.on, words |-> w]
    BY <2>1, <2>2
  <2>5. verb'.words = w
    BY <2>3
  <2> QED
    BY <1>0, <1>1, <2>1, <2>4, <2>5
<1>5. CASE ~verb.on
  <2>1. blocks' = Flushed(blocks) /\ verb' = [Closed EXCEPT !.on = TRUE]
    BY <1>5 DEF Verbatim
  <2>2. verb' = [on |-> TRUE, words |-> << >>]
    BY <2>1 DEF Closed
  <2>3. verb'.words = << >>
    BY <2>2
  <2> QED
    BY <1>0, <1>1, <2>1, <2>3, FlushedGuarded, GuardedNone
<1> QED
  BY <1>3, <1>4, <1>5

LEMMA RowGuarded ==
  ASSUME ParseOk, ParseGuarded, LineOk(Line), LineGuarded(Line), Row
  PROVE  Guarded(pend'.words) /\ Guarded(table') /\ verb' = verb /\ BlocksGuarded(blocks')
<1>0. /\ Guarded(pend.words) /\ Guarded(table) /\ BlocksGuarded(blocks) /\ IsSeq(blocks) /\ IsSeq(table)
  BY DEF ParseGuarded, ParseOk, BlocksOk
<1>1. Guarded(Nothing.words)
  BY BlockWordsAre, GuardedNone DEF Nothing
<1>2. Guarded(table \o Line.words)
  BY <1>0, TextSeq, TextGuarded, GuardedJoin
<1>3. BlocksGuarded(Flushed(blocks))
  BY <1>0, FlushedGuarded
<1> QED
  BY <1>0, <1>1, <1>2, <1>3 DEF Row

LEMMA ParsedGuarded ==
  ASSUME ParseOk, ParseGuarded, ParseLine \/ ParseEnd
  PROVE  ParseGuarded'
<1>0. LinesGuarded(lines) /\ Guarded(verb.words)
  BY DEF ParseGuarded
<1>1. CASE ParseLine
  <2>1. at \in 1 .. Len(lines) /\ Len(lines) \in Nat
    BY <1>1, SeqIs DEF ParseOk, ParseLine, BodyLines
  <2>2. LineOk(Line) /\ LineGuarded(Line)
    BY <1>0, <2>1 DEF ParseOk, BodyLines, Line, LinesGuarded
  <2>3. lines' = lines
    BY <1>1 DEF ParseLine
  <2>4. Verbatim \/ Comment \/ Row \/ ReadLine
    BY <1>1 DEF ParseLine
  <2>5. Guarded(pend'.words) /\ Guarded(table') /\ Guarded(verb'.words) /\ BlocksGuarded(blocks')
    <3>1. CASE Verbatim
      BY <2>2, <3>1, VerbatimGuarded
    <3>2. CASE Comment
      BY <3>2 DEF Comment, ParseGuarded
    <3>3. CASE Row
      BY <1>0, <2>2, <3>3, RowGuarded
    <3>4. CASE ReadLine
      BY <1>0, <2>2, <3>4, ReadLineGuarded
    <3> QED
      BY <2>4, <3>1, <3>2, <3>3, <3>4
  <2> QED
    BY <1>0, <2>3, <2>5 DEF ParseGuarded
<1>2. CASE ParseEnd
  <2>1. lines' = lines /\ blocks' = Settled /\ pend' = Nothing /\ table' = << >> /\ verb' = verb
    BY <1>2 DEF ParseEnd
  <2>2. Guarded(Nothing.words) /\ Guarded(<< >>)
    BY BlockWordsAre, GuardedNone DEF Nothing
  <2> QED
    BY <1>0, <2>1, <2>2, SettledGuarded DEF ParseGuarded
<1> QED
  BY <1>1, <1>2

-----------------------------------------------------------------------------
(* CleanInv: what is sealed stays out of the text.                         *)

\* What a public build reads and lays out is guarded; what it is asked for;
\* and that the log stays empty.
CleanInv ==
  /\ variant = "public" /\ stage = "parse" => ParseGuarded
  /\ variant = "public" /\ stage \in {"lay"} \cup Late => BlocksGuarded(blocks)
  /\ stage # "idle" => asked \in Variants \cup {"none"} /\ variant = Effective(src, asked) /\ ExhibitsOk(src, variant)
  /\ stage = "done" /\ variant # "sealed" => disk.log = << >>

\* What a step can be, with what is asked for.
LEMMA StepAsks ==
  ASSUME [PleadNext]_pleadVars
  PROVE  \/ (\E request \in Variants \cup {"none"} : \E fin \in BOOLEAN : Begin(request, fin) /\ exports' = exports)
         \/ ((Parse \/ Lay \/ Later \/ Stop \/ Edit) /\ exports' = exports)
         \/ (\E request \in Variants \cup {"none"} : \E fin \in BOOLEAN : Export(request, fin))
         \/ (UNCHANGED <<parseVars, layVars, srcVars, stage, disk>> /\ exports' = exports)
  BY DEF PleadNext, pleadVars, Build, Later, FillAlone

LEMMA RestGuarded ==
  ASSUME NEW body, LinesGuarded(body), AtRest(body)
  PROVE  ParseGuarded' /\ BlocksGuarded(blocks')
<1>1. lines' = body /\ pend' = Nothing /\ table' = << >> /\ verb' = Closed /\ blocks' = << >>
  BY DEF AtRest
<1>2. Guarded(Nothing.words) /\ Guarded(Closed.words) /\ Guarded(<< >>)
  BY BlockWordsAre, GuardedNone DEF Nothing, Closed
<1>3. BlocksGuarded(<< >>)
  BY NoneSeq DEF BlocksGuarded
<1> QED
  BY <1>1, <1>2, <1>3 DEF ParseGuarded

LEMMA BeginClean ==
  ASSUME LayInv, CleanInv, SecretsMarked, WordsApart, NumbersNamed,
         NEW request \in Variants \cup {"none"}, NEW fin \in BOOLEAN, Begin(request, fin)
  PROVE  CleanInv'
<1> DEFINE v == Effective(src, request)  r == Logged(Unsealed(v))  ex == ExhibitsOf(src, v)
           body == Prepared(r, ex)
<1>1. /\ src \in Sources /\ src' = src /\ asked' = request /\ variant' = v /\ ExhibitsOk(src, v)
      /\ stage' = IF src.coverOnly THEN "fill" ELSE "parse"
      /\ ~src.coverOnly => BodyOk(r, ex, src.external)
      /\ AtRest(IF src.coverOnly THEN << >> ELSE body)
  BY DEF Begin, Accepts, LayInv
<1>2. CASE src.coverOnly
  <2>1. AtRest(<< >>) /\ LinesGuarded(<< >>)
    BY <1>1, <1>2, NoneSeq DEF LinesGuarded
  <2>2. BlocksGuarded(blocks')
    BY <2>1, RestGuarded
  <2> QED
    BY <1>1, <1>2, <2>2 DEF CleanInv, Late
<1>3. CASE ~src.coverOnly
  <2>1. ASSUME v = "public" PROVE ParseGuarded'
    <3>1. LinesGuarded(body)
      BY <1>1, <1>3, <2>1, PreparedGuarded
    <3> HIDE DEF body
    <3> QED
      BY <1>1, <1>3, <3>1, RestGuarded
  <2> QED
    BY <1>1, <1>3, <2>1 DEF CleanInv, Late
<1> QED
  BY <1>2, <1>3

LEMMA ReadClean ==
  ASSUME LayInv, CleanInv, Parse \/ Lay
  PROVE  CleanInv'
<1>1. src' = src /\ asked' = asked /\ variant' = variant /\ stage \in {"parse", "lay"} /\ stage' \in {"parse", "lay", "merge"}
  BY DEF Parse, Lay, srcVars
<1>2. asked' \in Variants \cup {"none"} /\ variant' = Effective(src', asked') /\ ExhibitsOk(src', variant')
  BY <1>1 DEF CleanInv
<1>3. CASE Parse
  <2>1. stage = "parse" /\ ParseOk /\ (ParseLine \/ ParseEnd) /\ stage' \in {"parse", "lay"}
    BY <1>3 DEF Parse, LayInv
  <2>2. variant = "public" => ParseGuarded'
    BY <2>1, ParsedGuarded DEF CleanInv
  <2>3. variant = "public" => BlocksGuarded(blocks')
    BY <2>2 DEF ParseGuarded
  <2> QED
    BY <1>1, <1>2, <2>1, <2>2, <2>3 DEF CleanInv, Late
<1>4. CASE Lay
  <2>1. stage = "lay" /\ blocks' = blocks /\ stage' \in {"lay", "merge"}
    BY <1>4 DEF Lay, parseVars
  <2> QED
    BY <1>1, <1>2, <2>1 DEF CleanInv, Late
<1> QED
  BY <1>3, <1>4

LEMMA LaterClean ==
  ASSUME LayInv, PackInv, CleanInv, Later
  PROVE  CleanInv'
<1>1. stage \in Late /\ stage' \in Late
  BY DEF Later, Late, Merge, Fill, WriteKey, Prepend, Notices, StampPacket, StampNotices, WriteFields, WriteLog
<1>2. blocks' = blocks /\ src' = src /\ asked' = asked /\ variant' = variant
  BY DEF Later, Keep, parseVars, layVars, srcVars,
         Merge, Fill, WriteKey, Prepend, Notices, StampPacket, StampNotices, WriteFields, WriteLog
<1>3. stage' = "done" => WriteLog
  BY DEF Later, Merge, Fill, WriteKey, Prepend, Notices, StampPacket, StampNotices, WriteFields
<1>4. ASSUME WriteLog, variant # "sealed" PROVE disk'.log = << >>
  <2>1. disk' = [disk EXCEPT !.log = << >>]
    BY <1>4 DEF WriteLog
  <2> QED
    BY <2>1, LogPut DEF PackInv
<1>5. asked' \in Variants \cup {"none"} /\ variant' = Effective(src', asked') /\ ExhibitsOk(src', variant')
  BY <1>1, <1>2 DEF CleanInv, Late
<1> QED
  BY <1>1, <1>2, <1>3, <1>4, <1>5 DEF CleanInv, Late

LEMMA EndClean ==
  ASSUME CleanInv, Stop \/ Edit
  PROVE  CleanInv'
<1>1. stage' = "idle"
  BY DEF Stop, Edit
<1> QED
  BY <1>1 DEF CleanInv, Late

LEMMA AsideClean ==
  ASSUME CleanInv, UNCHANGED <<parseVars, layVars, srcVars, stage, disk>>
  PROVE  CleanInv'
<1>1. /\ lines' = lines /\ at' = at /\ pend' = pend /\ table' = table /\ verb' = verb /\ blocks' = blocks
      /\ src' = src /\ asked' = asked /\ variant' = variant /\ stage' = stage /\ disk' = disk
  BY DEF parseVars, layVars, srcVars
<1> QED
  BY <1>1 DEF CleanInv, ParseGuarded

LEMMA CleanStep ==
  ASSUME LayInv, PackInv, CleanInv, SecretsMarked, WordsApart, NumbersNamed, [PleadNext]_pleadVars
  PROVE  CleanInv'
<1>1. \A request, fin : Export(request, fin) => UNCHANGED <<parseVars, layVars, srcVars, stage, disk>>
  BY DEF Export
<1> QED
  BY <1>1, StepAsks, BeginClean, ReadClean, LaterClean, EndClean, AsideClean

LEMMA CleanFirst ==
  ASSUME PleadInit
  PROVE  CleanInv
<1>1. stage = "idle"
  BY DEF PleadInit
<1> QED
  BY <1>1 DEF CleanInv, Late

-----------------------------------------------------------------------------
(* What the boxes and the sheets of a form show.                           *)

LEMMA QuotientIs ==
  ASSUME NEW a \in Nat, NEW n \in Nat \ {0}
  PROVE  a \div n \in Nat /\ (a \div n) * n <= a /\ a < (a \div n) * n + n
  OBVIOUS

LEMMA ProductGrows ==
  ASSUME NEW i \in Nat, NEW j \in Nat, i <= j, NEW n \in Nat
  PROVE  i * n <= j * n
  OBVIOUS

\* n to a piece: each piece lies in the sequence, and each place in a piece.
LEMMA Pieces ==
  ASSUME NEW l \in Nat, NEW n \in Nat \ {0}
  PROVE  LET m == (l + n - 1) \div n IN
         /\ m \in Nat
         /\ \A i \in 1 .. m : (i - 1) * n + 1 \in 1 .. l /\ Min({i * n, l}) \in (i - 1) * n + 1 .. l
         /\ \A k \in 1 .. l : \E i \in 1 .. m : k \in (i - 1) * n + 1 .. Min({i * n, l})
<1> DEFINE m == (l + n - 1) \div n
<1>1. l + n - 1 \in Nat
  OBVIOUS
<1>2. m \in Nat /\ m * n <= l + n - 1 /\ l + n - 1 < m * n + n
  BY <1>1, QuotientIs
<1> HIDE DEF m
<1>0. ASSUME NEW x \in Nat, NEW y \in Nat PROVE Min({x, y}) \in Nat /\ Min({x, y}) = IF x <= y THEN x ELSE y
  <2>1. {x, y} \subseteq Nat /\ {x, y} # {}
    OBVIOUS
  <2>2. Min({x, y}) \in {x, y} /\ Min({x, y}) <= x /\ Min({x, y}) <= y
    BY <2>1, MinIs
  <2> QED
    BY <2>2
<1>3. ASSUME NEW i \in 1 .. m
      PROVE  (i - 1) * n + 1 \in 1 .. l /\ Min({i * n, l}) \in (i - 1) * n + 1 .. l
  <2> DEFINE a == (i - 1) * n  b == i * n
  <2>1. i \in Nat /\ i - 1 \in Nat /\ i <= m
    BY <1>2
  <2>2. a \in Nat /\ b \in Nat /\ b = a + n
    BY <2>1
  <2>3. b <= m * n
    BY <1>2, <2>1, ProductGrows
  <2>6. m * n \in Nat
    BY <1>2
  <2> HIDE DEF a, b
  <2>4. a + 1 <= l
    BY <1>2, <2>2, <2>3, <2>6
  <2>5. Min({b, l}) = IF b <= l THEN b ELSE l
    BY <1>0, <2>2
  <2>7. a + 1 \in 1 .. l /\ Min({b, l}) \in a + 1 .. l
    BY <2>2, <2>4, <2>5
  <2> QED
    BY <2>7 DEF a, b
<1>4. ASSUME NEW k \in 1 .. l
      PROVE  \E i \in 1 .. m : k \in (i - 1) * n + 1 .. Min({i * n, l})
  <2> DEFINE j == (k - 1) \div n  i == j + 1
  <2>1. j \in Nat /\ j * n <= k - 1 /\ k - 1 < j * n + n
    BY QuotientIs
  <2> HIDE DEF j
  <2>2. i <= m
    <3> SUFFICES ASSUME m <= j PROVE FALSE
      BY <1>2, <2>1
    <3>1. m * n <= j * n
      BY <1>2, <2>1, ProductGrows
    <3>2. m * n \in Nat /\ j * n \in Nat
      BY <1>2, <2>1
    <3> QED
      BY <1>2, <2>1, <3>1, <3>2
  <2>3. i * n = j * n + n /\ (i - 1) * n = j * n /\ j * n \in Nat
    BY <2>1
  <2>4. Min({i * n, l}) = IF i * n <= l THEN i * n ELSE l
    BY <1>0, <2>1, <2>3
  <2>5. i \in 1 .. m
    BY <1>2, <2>1, <2>2
  <2>6. k \in (i - 1) * n + 1 .. Min({i * n, l})
    BY <2>1, <2>3, <2>4
  <2> QED
    BY <2>5, <2>6
<1> QED
  BY <1>2, <1>3, <1>4 DEF m

LEMMA CutIs ==
  ASSUME NEW s, IsSeq(s), NEW a \in 1 .. Len(s), NEW b \in a .. Len(s)
  PROVE  IsSeq(SubSeq(s, a, b)) /\ ToSet(SubSeq(s, a, b)) = {s[k] : k \in a .. b}
<1> DEFINE c == SubSeq(s, a, b)
<1>1. Len(s) \in Nat
  BY SeqIs
<1>2. PICK S : s \in Seq(S)
  BY DEF IsSeq
<1>3. Len(c) = b - a + 1 /\ \A i \in 1 .. b - a + 1 : c[i] = s[a + i - 1]
  BY <1>1, <1>2
<1>4. IsSeq(c)
  BY <1>1, CutSeq
<1>5. DOMAIN c = 1 .. b - a + 1
  BY <1>3, <1>4, SeqIs
<1> HIDE DEF c
<1>6. ASSUME NEW w \in ToSet(c) PROVE w \in {s[k] : k \in a .. b}
  <2>1. PICK i \in 1 .. b - a + 1 : w = c[i]
    BY <1>5 DEF ToSet
  <2>2. a + i - 1 \in a .. b /\ w = s[a + i - 1]
    BY <1>1, <1>3, <2>1
  <2> QED
    BY <2>2
<1>7. ASSUME NEW k \in a .. b PROVE s[k] \in ToSet(c)
  <2>1. k - a + 1 \in 1 .. b - a + 1 /\ a + (k - a + 1) - 1 = k
    BY <1>1
  <2>2. c[k - a + 1] = s[k]
    BY <1>3, <2>1
  <2> QED
    BY <1>5, <2>1, <2>2 DEF ToSet
<1> QED
  BY <1>4, <1>6, <1>7 DEF c

\* The words of all lines.
LineSet(ls) == UNION {ToSet(x) : x \in ToSet(ls)}

LEMMA LineSetIs ==
  ASSUME NEW ls, IsSeq(ls)
  PROVE  LineSet(ls) = UNION {ToSet(ls[i]) : i \in 1 .. Len(ls)}
<1>1. ToSet(ls) = {ls[i] : i \in 1 .. Len(ls)}
  BY SeqIs DEF ToSet
<1> QED
  BY <1>1 DEF LineSet

\* How many pieces of n there are, and what they are.
PieceCount(s, n) == (Len(s) + n - 1) \div n

ArePieces(s, n, ps) == ps = [i \in 1 .. PieceCount(s, n) |-> SubSeq(s, (i - 1) * n + 1, Min({i * n, Len(s)}))]

LEMMA PieceWords ==
  ASSUME NEW s, IsSeq(s), NEW n \in Nat \ {0}, NEW ps, ArePieces(s, n, ps)
  PROVE  PieceCount(s, n) \in Nat /\ IsSeqs(ps) /\ Len(ps) = PieceCount(s, n) /\ LineSet(ps) = ToSet(s)
<1>1. Len(s) \in Nat /\ DOMAIN s = 1 .. Len(s)
  BY SeqIs
<1> DEFINE l == Len(s)  a(i) == (i - 1) * n + 1  b(i) == Min({i * n, l})  m == PieceCount(s, n)
<1>2. /\ m \in Nat
      /\ \A i \in 1 .. m : a(i) \in 1 .. l /\ b(i) \in a(i) .. l
      /\ \A k \in 1 .. l : \E i \in 1 .. m : k \in a(i) .. b(i)
  BY <1>1, Pieces DEF PieceCount
<1>3. ps = [i \in 1 .. m |-> SubSeq(s, a(i), b(i))]
  BY DEF ArePieces
<1> HIDE DEF a, b, m, l
<1>4. IsSeq(ps) /\ Len(ps) = m /\ \A i \in 1 .. m : ps[i] = SubSeq(s, a(i), b(i))
  <2> DEFINE cut(i) == SubSeq(s, a(i), b(i))
  <2>1. ps = [i \in 1 .. m |-> cut(i)]
    BY <1>3
  <2> HIDE DEF cut
  <2>2. ps = [i \in 1 .. m |-> ps[i]] /\ \A i \in 1 .. m : ps[i] = cut(i)
    BY <2>1
  <2> QED
    BY <1>2, <2>2, FcnSeq DEF cut
<1>5. ASSUME NEW i \in 1 .. m PROVE IsSeq(ps[i]) /\ ToSet(ps[i]) = {s[k] : k \in a(i) .. b(i)}
  <2>1. a(i) \in 1 .. Len(s) /\ b(i) \in a(i) .. Len(s) /\ ps[i] = SubSeq(s, a(i), b(i))
    BY <1>2, <1>4 DEF l
  <2> QED
    BY <2>1, CutIs
<1>6. IsSeqs(ps)
  BY <1>4, <1>5 DEF IsSeqs
<1>7. LineSet(ps) = UNION {ToSet(ps[i]) : i \in 1 .. m}
  BY <1>4, LineSetIs
<1>8. ASSUME NEW w \in LineSet(ps) PROVE w \in ToSet(s)
  <2>1. PICK i \in 1 .. m : w \in ToSet(ps[i])
    BY <1>7
  <2>2. PICK k \in a(i) .. b(i) : w = s[k]
    BY <1>5, <2>1
  <2>3. k \in 1 .. l
    BY <1>1, <1>2 DEF l
  <2> QED
    BY <1>1, <2>2, <2>3 DEF ToSet, l
<1>9. ASSUME NEW w \in ToSet(s) PROVE w \in LineSet(ps)
  <2>1. PICK k \in 1 .. l : w = s[k]
    BY <1>1 DEF ToSet, l
  <2>2. PICK i \in 1 .. m : k \in a(i) .. b(i)
    BY <1>2
  <2>3. w \in ToSet(ps[i])
    BY <1>5, <2>1, <2>2
  <2> QED
    BY <1>7, <2>3
<1> QED
  BY <1>2, <1>4, <1>6, <1>8, <1>9 DEF m

LEMMA NoLines == LineSet(<< >>) = {} /\ ToSet(<< >>) = {}
<1> DEFINE e == << >>
<1>1. IsSeq(e) /\ Len(e) = 0
  BY NoneSeq
<1> HIDE DEF e
<1>2. DOMAIN e = {}
  BY <1>1, SeqIs
<1>3. ToSet(e) = {}
  BY <1>2 DEF ToSet
<1>4. LineSet(e) = {}
  BY <1>3 DEF LineSet
<1> QED
  BY <1>3, <1>4 DEF e

LEMMA OneLine ==
  ASSUME NEW x
  PROVE  LineSet(<<x>>) = ToSet(x)
<1> DEFINE o == <<x>>
<1>1. IsSeq(o) /\ Len(o) = 1 /\ o[1] = x
  BY OneSeq
<1> HIDE DEF o
<1>2. DOMAIN o = {1}
  <2>1. DOMAIN o = 1 .. Len(o)
    BY <1>1, SeqIs
  <2> QED
    BY <1>1, <2>1
<1>3. ToSet(o) = {x}
  BY <1>1, <1>2 DEF ToSet
<1>4. LineSet(o) = ToSet(x)
  BY <1>3 DEF LineSet
<1> QED
  BY <1>4 DEF o

LEMMA WrappedWords ==
  ASSUME NEW para, IsSeq(para), NEW n \in Nat \ {0}
  PROVE  IsSeqs(Wrapped(para, n)) /\ LineSet(Wrapped(para, n)) = ToSet(para)
<1>1. CASE para = << >>
  <2> DEFINE o == << << >> >>
  <2>1. IsSeq(o) /\ Len(o) = 1 /\ o[1] = << >> /\ LineSet(o) = ToSet(<< >>)
    BY OneSeq, OneLine
  <2> HIDE DEF o
  <2>2. IsSeqs(o)
    BY <2>1, NoneSeq DEF IsSeqs
  <2>3. Wrapped(para, n) = o
    BY <1>1 DEF Wrapped, o
  <2> QED
    BY <1>1, <2>1, <2>2, <2>3
<1>2. CASE para # << >>
  <2>1. Wrapped(para, n) = [i \in 1 .. (Len(para) + n - 1) \div n |-> SubSeq(para, (i - 1) * n + 1, Min({i * n, Len(para)}))]
    BY <1>2 DEF Wrapped
  <2> QED
    BY <2>1, PieceWords DEF ArePieces, PieceCount
<1> QED
  BY <1>1, <1>2

\* A text that is broken into lines has the same words.
LEMMA BrokenWords ==
  ASSUME NEW text, IsSeqs(text), NEW n \in Nat \ {0}
  PROVE  LET ls == FlattenSeq([k \in DOMAIN text |-> Wrapped(text[k], n)])
         IN  IsSeqs(ls) /\ LineSet(ls) = LineSet(text)
<1> DEFINE m == Len(text)  ws == [k \in 1 .. m |-> Wrapped(text[k], n)]  ls == FlattenSeq(ws)
<1>1. m \in Nat /\ DOMAIN text = 1 .. m /\ \A k \in 1 .. m : IsSeq(text[k])
  BY SeqIs DEF IsSeqs
<1>2. [k \in DOMAIN text |-> Wrapped(text[k], n)] = ws
  BY <1>1
<1>3. IsSeq(ws) /\ Len(ws) = m /\ \A k \in 1 .. m : ws[k] = Wrapped(text[k], n)
  BY <1>1, FcnSeq
<1> HIDE DEF ws
<1>4. \A k \in 1 .. m : IsSeqs(ws[k]) /\ LineSet(ws[k]) = ToSet(text[k])
  BY <1>1, <1>3, WrappedWords
<1>5. IsSeqs(ws)
  BY <1>3, <1>4 DEF IsSeqs
<1>6. IsSeq(ls) /\ ToSet(ls) = UNION {ToSet(ws[k]) : k \in 1 .. m}
  BY <1>3, <1>5, Flattened
<1> HIDE DEF ls
<1>7. LineSet(ls) = LineSet(text)
  <2>1. LineSet(ls) = UNION {LineSet(ws[k]) : k \in 1 .. m}
    BY <1>6 DEF LineSet
  <2>2. LineSet(text) = UNION {ToSet(text[k]) : k \in 1 .. m}
    <3>1. ToSet(text) = {text[k] : k \in 1 .. m}
      BY <1>1 DEF ToSet
    <3> QED
      BY <3>1 DEF LineSet
  <2> QED
    BY <1>4, <2>1, <2>2
<1>8. ASSUME NEW i \in 1 .. Len(ls) PROVE IsSeq(ls[i])
  <2>1. ls[i] \in ToSet(ls)
    BY <1>6, SeqIs DEF ToSet
  <2>2. PICK k \in 1 .. m : ls[i] \in ToSet(ws[k])
    BY <1>6, <2>1
  <2>3. PICK j \in 1 .. Len(ws[k]) : ls[i] = ws[k][j]
    BY <1>4, <2>2, SeqIs DEF ToSet, IsSeqs
  <2> QED
    BY <1>4, <2>3 DEF IsSeqs
<1>9. IsSeqs(ls)
  BY <1>6, <1>8 DEF IsSeqs
<1> QED
  BY <1>2, <1>7, <1>9 DEF ls

LEMMA MaxIs ==
  ASSUME NEW n \in Nat, NEW S, S \subseteq 0 .. n, S # {}
  PROVE  Max(S) \in S /\ \A y \in S : Max(S) >= y
<1> DEFINE T == {n - x : x \in S}
<1>0. \A x \in S : x \in Nat /\ x <= n /\ n - x \in Nat
  OBVIOUS
<1>1. T \subseteq Nat /\ T # {}
  BY <1>0
<1>2. Min(T) \in T /\ \A y \in T : Min(T) <= y
  BY <1>1, MinIs
<1>3. PICK x \in S : Min(T) = n - x
  BY <1>2
<1>4. \A y \in S : x >= y
  <2> SUFFICES ASSUME NEW y \in S PROVE x >= y
    OBVIOUS
  <2>1. n - y \in T
    OBVIOUS
  <2>2. n - x <= n - y
    BY <1>2, <1>3, <2>1
  <2>3. x \in 0 .. n /\ y \in 0 .. n
    OBVIOUS
  <2> HIDE DEF T
  <2> QED
    BY <2>2, <2>3
<1> QED
  BY <1>4 DEF Max

LEMMA MinTwo ==
  ASSUME NEW x \in Nat, NEW y \in Nat
  PROVE  Min({x, y}) \in {x, y} /\ Min({x, y}) <= x /\ Min({x, y}) <= y
<1>1. {x, y} \subseteq Nat /\ {x, y} # {}
  OBVIOUS
<1> QED
  BY <1>1, MinIs

\* The sizes of a field's box and of its text.
FieldOk(spec) == {spec.width, spec.height, spec.floor} \subseteq Nat /\ spec.font \in Nat \ {0}

LEMMA SizesOk ==
  ASSUME NEW spec, FieldOk(spec)
  PROVE  Sizes(spec) # {} /\ Sizes(spec) \subseteq 1 .. spec.font /\ Sizes(spec) \subseteq Nat \ {0}
<1>1. Floor(spec) \in Nat \ {0}
  <2>1. CASE spec.floor # 0
    BY <2>1 DEF Floor, FieldOk
  <2>2. CASE spec.floor = 0
    <3> DEFINE x == IF spec.fit = "overflow_attachment" THEN FullSize ELSE FloorSize
    <3>1. x \in Nat /\ spec.height \in Nat
      BY SheetAssumption DEF FieldOk
    <3>2. Floor(spec) = Max({1, Min({spec.height, x})})
      BY <2>2 DEF Floor
    <3> HIDE DEF x
    <3>3. Min({spec.height, x}) \in Nat
      BY <3>1, MinTwo
    <3> QED
      BY <3>2, <3>3, MaxOne
  <2> QED
    BY <2>1, <2>2
<1>2. spec.font \in Nat \ {0}
  BY DEF FieldOk
<1>3. CASE CanShrink(spec)
  <2> DEFINE f == Floor(spec)  lo == Min({f, spec.font})
  <2>1. lo \in {f, spec.font} /\ lo <= spec.font
    BY <1>1, <1>2, MinTwo
  <2>2. Sizes(spec) = lo .. spec.font
    BY <1>3 DEF Sizes
  <2>3. lo \in Nat \ {0}
    BY <1>1, <1>2, <2>1
  <2> HIDE DEF lo
  <2> QED
    BY <1>2, <2>1, <2>2, <2>3
<1>4. CASE ~CanShrink(spec)
  <2>1. Sizes(spec) = {spec.font}
    BY <1>4 DEF Sizes
  <2> QED
    BY <1>2, <2>1
<1> QED
  BY <1>3, <1>4

\* However a text is set in a box, all of it is.
LEMMA FitWords ==
  ASSUME NEW text, IsSeqs(text), NEW spec, FieldOk(spec)
  PROVE  LET fit == Fit(text, spec)
         IN  fit.size \in Nat \ {0} /\ IsSeqs(fit.lines) /\ LineSet(fit.lines) = LineSet(text)
<1> DEFINE good == {s \in Sizes(spec) : FitsAt(text, spec, s)}
           size == IF good = {} THEN Min(Sizes(spec)) ELSE Max(good)
           fit == Fit(text, spec)
<1>1. Sizes(spec) # {} /\ Sizes(spec) \subseteq 1 .. spec.font /\ Sizes(spec) \subseteq Nat \ {0}
  BY SizesOk
<1>2. spec.font \in Nat /\ spec.width \in Nat
  BY DEF FieldOk
<1>3. size \in Nat \ {0}
  <2>1. CASE good = {}
    <3>1. Sizes(spec) \subseteq Nat
      BY <1>1
    <3> QED
      BY <1>1, <2>1, <3>1, MinIs
  <2>2. CASE good # {}
    <3>1. good \subseteq 0 .. spec.font /\ good \subseteq Nat \ {0}
      BY <1>1, <1>2
    <3>2. Max(good) \in good
      BY <1>2, <2>2, <3>1, MaxIs
    <3> QED
      BY <2>2, <3>1, <3>2
  <2> QED
    BY <2>1, <2>2
<1>4. fit = [size |-> size, lines |-> Lines(text, spec, size), fits |-> good # {}]
  BY DEF Fit
<1> HIDE DEF size, good, fit
<1>5. fit.size = size /\ fit.lines = Lines(text, spec, size)
  BY <1>4
<1>6. IsSeqs(Lines(text, spec, size)) /\ LineSet(Lines(text, spec, size)) = LineSet(text)
  <2>1. CASE CanWrap(spec)
    <3> DEFINE n == Max({1, spec.width \div size})
    <3>1. spec.width \div size \in Nat
      BY <1>2, <1>3, QuotientIs
    <3>2. n \in Nat \ {0}
      BY <3>1, MaxOne
    <3>3. Lines(text, spec, size) = FlattenSeq([k \in DOMAIN text |-> Wrapped(text[k], n)])
      BY <2>1 DEF Lines
    <3> HIDE DEF n
    <3> QED
      BY <3>2, <3>3, BrokenWords
  <2>2. CASE ~CanWrap(spec)
    BY <2>2 DEF Lines
  <2> QED
    BY <2>1, <2>2
<1> QED
  BY <1>3, <1>5, <1>6 DEF fit

LEMMA SheetFieldOk ==
  FieldOk([width |-> Sheet[1], height |-> Sheet[2], fit |-> "shrink_wrap", multiline |-> FALSE,
           font |-> FullSize, floor |-> FloorSize])
  BY SheetAssumption DEF FieldOk

\* A page that shows one text.
LEMMA OneDrawn ==
  ASSUME NEW page, NEW k, NEW fit, page.drawn = {[field |-> k, fit |-> fit]}
  PROVE  PageWords(page) = LineSet(fit.lines)
<1> DEFINE d == [field |-> k, fit |-> fit]
<1>1. d.fit = fit
  OBVIOUS
<1> HIDE DEF d
<1>2. PageWords(page) = UNION {ToSet(d.fit.lines[n]) : n \in DOMAIN d.fit.lines}
  BY DEF PageWords, d
<1>3. LineSet(fit.lines) = UNION {ToSet(fit.lines[n]) : n \in DOMAIN fit.lines}
  BY DEF LineSet, ToSet
<1> QED
  BY <1>1, <1>2, <1>3

\* The words of a list of a form's pages.
Shows(pages) == UNION {PageWords(pages[p]) : p \in 1 .. Len(pages)}

\* The sheets of a text hold all of it.
LEMMA SheetsWords ==
  ASSUME NEW text, IsSeqs(text), NEW label
  PROVE  IsSeq(Sheets(text, label)) /\ Shows(Sheets(text, label)) = LineSet(text)
<1> DEFINE n == Max({1, Sheet[1] \div FullSize})  per == PerSheet
           broken == FlattenSeq([k \in DOMAIN text |-> Wrapped(text[k], n)])
           s == Sheets(text, label)
           total == PieceCount(broken, per)
           cut(i) == SubSeq(broken, (i - 1) * per + 1, Min({i * per, Len(broken)}))
           ps == [i \in 1 .. total |-> cut(i)]
           spec == [width |-> Sheet[1], height |-> Sheet[2], fit |-> "shrink_wrap", multiline |-> FALSE,
                    font |-> FullSize, floor |-> FloorSize]
           page(i) == [of |-> 0, printed |-> {}, label |-> label, number |-> i, total |-> total, ticked |-> {},
                       drawn |-> {[field |-> 0, fit |-> Fit(cut(i), spec)]}]
<1>1. n \in Nat \ {0} /\ per \in Nat \ {0}
  <2>1. Sheet[1] \div FullSize \in Nat /\ Sheet[2] \div FullSize \in Nat
    BY QuotientIs, SheetAssumption
  <2> QED
    BY <2>1, MaxOne DEF PerSheet
<1>2. s = [i \in 1 .. total |-> page(i)]
  BY DEF Sheets, PieceCount
<1>3. FieldOk(spec)
  BY SheetFieldOk
<1> HIDE DEF n, spec
<1>4. IsSeqs(broken) /\ LineSet(broken) = LineSet(text)
  BY <1>1, BrokenWords
<1> HIDE DEF broken, per
<1>5. total \in Nat /\ IsSeqs(ps) /\ Len(ps) = total /\ LineSet(ps) = ToSet(broken)
  <2>1. ArePieces(broken, per, ps)
    BY DEF ArePieces
  <2>2. IsSeq(broken)
    BY <1>4 DEF IsSeqs
  <2> HIDE DEF ps
  <2> QED
    BY <1>1, <2>1, <2>2, PieceWords
<1>6. \A i \in 1 .. total : ps[i] = cut(i)
  OBVIOUS
<1> HIDE DEF total, cut, ps
<1>7. ASSUME NEW i \in 1 .. total PROVE IsSeqs(ps[i])
  <2>1. IsSeq(ps[i])
    BY <1>5 DEF IsSeqs
  <2>2. ToSet(ps[i]) \subseteq ToSet(broken)
    BY <1>5, LineSetIs DEF IsSeqs
  <2>3. ASSUME NEW j \in 1 .. Len(ps[i]) PROVE IsSeq(ps[i][j])
    <3>1. ps[i][j] \in ToSet(broken)
      BY <2>1, <2>2, SeqIs DEF ToSet
    <3> QED
      BY <1>4, <3>1, SeqIs DEF ToSet, IsSeqs
  <2> QED
    BY <2>1, <2>3 DEF IsSeqs
<1>8. ASSUME NEW i \in 1 .. total PROVE PageWords(page(i)) = LineSet(ps[i])
  <2> DEFINE fit == Fit(cut(i), spec)  pg == page(i)
  <2>1. pg.drawn = {[field |-> 0, fit |-> fit]}
    OBVIOUS
  <2>2. LineSet(fit.lines) = LineSet(ps[i])
    BY <1>3, <1>6, <1>7, FitWords
  <2> HIDE DEF fit, pg
  <2>3. PageWords(pg) = LineSet(fit.lines)
    BY <2>1, OneDrawn
  <2> QED
    BY <2>2, <2>3 DEF pg
<1> HIDE DEF page, s
<1>9. IsSeq(s) /\ Len(s) = total /\ \A i \in 1 .. total : s[i] = page(i)
  <2>1. s = [i \in 1 .. total |-> s[i]] /\ \A i \in 1 .. total : s[i] = page(i)
    BY <1>2
  <2> QED
    BY <1>5, <2>1, FcnSeq
<1>10. Shows(s) = UNION {LineSet(ps[i]) : i \in 1 .. total}
  BY <1>8, <1>9 DEF Shows
<1>11. UNION {LineSet(ps[i]) : i \in 1 .. total} = LineSet(broken)
  <2>1. LineSet(ps) = UNION {ToSet(ps[i]) : i \in 1 .. total}
    BY <1>5, LineSetIs DEF IsSeqs
  <2>2. UNION {ToSet(ps[i]) : i \in 1 .. total} = ToSet(broken)
    BY <1>5, <2>1
  <2> QED
    BY <2>2 DEF LineSet
<1> QED
  BY <1>4, <1>9, <1>10, <1>11 DEF s

LEMMA SpecOk1 ==
  ASSUME NEW f \in FieldSpec
  PROVE  /\ FieldOk(f)
         /\ \A x : FieldOk([f EXCEPT !.fit = x])
         /\ \A n \in Nat \ {0} : FieldOk([f EXCEPT !.font = n, !.floor = n])
<1>1. FieldOk(f)
  BY DEF FieldSpec, FieldOk
<1>2. DOMAIN f = {"name", "when", "auto", "default", "label", "page", "fit", "multiline", "width", "height", "font",
                  "floor", "group", "attached", "inline", "at", "forced", "near", "esign"}
  BY DEF FieldSpec
<1>3. ASSUME NEW x PROVE FieldOk([f EXCEPT !.fit = x])
  BY <1>1, <1>2 DEF FieldOk
<1>4. ASSUME NEW n \in Nat \ {0} PROVE FieldOk([f EXCEPT !.font = n, !.floor = n])
  BY <1>1, <1>2 DEF FieldOk
<1> QED
  BY <1>1, <1>3, <1>4

LEMMA ShowsSet ==
  ASSUME NEW ps, IsSeq(ps)
  PROVE  Shows(ps) = UNION {PageWords(x) : x \in ToSet(ps)}
<1>1. ToSet(ps) = {ps[i] : i \in 1 .. Len(ps)}
  BY SeqIs DEF ToSet
<1> QED
  BY <1>1 DEF Shows

LEMMA ShowsJoin ==
  ASSUME NEW a, IsSeq(a), NEW b, IsSeq(b)
  PROVE  Shows(a \o b) = Shows(a) \cup Shows(b)
<1>1. ToSet(a \o b) = ToSet(a) \cup ToSet(b) /\ IsSeq(a \o b)
  BY JoinedSet, Joined
<1>2. Shows(a \o b) = UNION {PageWords(x) : x \in ToSet(a \o b)}
  BY <1>1, ShowsSet
<1> QED
  BY <1>1, <1>2, ShowsSet

LEMMA ShowsFlat ==
  ASSUME NEW ss, IsSeqs(ss)
  PROVE  IsSeq(FlattenSeq(ss)) /\ Shows(FlattenSeq(ss)) = UNION {Shows(ss[i]) : i \in 1 .. Len(ss)}
<1> DEFINE l == FlattenSeq(ss)
<1>1. IsSeq(l) /\ ToSet(l) = UNION {ToSet(ss[i]) : i \in 1 .. Len(ss)}
  BY Flattened
<1> HIDE DEF l
<1>2. Shows(l) = UNION {PageWords(x) : x \in ToSet(l)}
  BY <1>1, ShowsSet
<1>3. \A i \in 1 .. Len(ss) : Shows(ss[i]) = UNION {PageWords(x) : x \in ToSet(ss[i])}
  BY ShowsSet DEF IsSeqs
<1>4. Shows(l) = UNION {Shows(ss[i]) : i \in 1 .. Len(ss)}
  BY <1>1, <1>2, <1>3
<1> QED
  BY <1>1, <1>4 DEF l

\* The cover sheet, as a function of the text it is filled with.
MetaOf(ws) == [keys |-> {}, auto |-> [n \in {} |-> << >>], block |-> [n \in {"body"} |-> <<ws>>]]

CoverOf(ws) == FormPages(CoverForm, MetaOf(ws), NoData, << >>, FALSE) \o Attachments(CoverForm, MetaOf(ws), NoData)

TextsOf(ws) == Texts(CoverForm, MetaOf(ws), NoData)

LEMMA TextsAre ==
  ASSUME NEW ws, IsSeq(ws)
  PROVE  /\ IsSeq(TextsOf(ws)) /\ Len(TextsOf(ws)) = Len(CoverForm.fields)
         /\ \A k \in 1 .. Len(CoverForm.fields) :
              /\ IsSeqs(TextsOf(ws)[k])
              /\ TextsOf(ws)[k] \in {<< >>, CoverForm.fields[k].default, <<ws>>}
              /\ CoverForm.fields[k].name = "body" /\ CoverForm.fields[k].when = "" => TextsOf(ws)[k] = <<ws>>
<1> DEFINE texts == TextsOf(ws)  fs == CoverForm.fields  n == Len(fs)  meta == MetaOf(ws)
<1>1. n \in Nat /\ DOMAIN fs = 1 .. n
  BY CoverAssumption, SeqIs DEF IsSeq
<1>2. texts = [k \in 1 .. n |-> Value(fs[k], meta, NoData)]
  BY <1>1 DEF Texts, TextsOf
<1>3. DOMAIN NoData = {}
  BY DEF NoData
<1> DEFINE blk == meta.block  aut == meta.auto
<1>4. blk = [m \in {"body"} |-> <<ws>>] /\ aut = [m \in {} |-> << >>] /\ meta.keys = {}
  BY DEF MetaOf
<1>5. DOMAIN blk = {"body"} /\ DOMAIN aut = {} /\ blk["body"] = <<ws>>
  BY <1>4
<1> HIDE DEF texts, fs, n, meta
<1>6. ASSUME NEW k \in 1 .. n
      PROVE  Value(fs[k], meta, NoData) \in {<< >>, fs[k].default, <<ws>>}
             /\ (fs[k].name = "body" /\ fs[k].when = "" => Value(fs[k], meta, NoData) = <<ws>>)
  <2> DEFINE spec == fs[k]
  <2> HIDE DEF spec, blk, aut
  <2>1. CASE spec.name = "body"
    <3>1. Given(spec, meta, NoData) = meta.block[spec.name]
      BY <1>3, <1>5, <2>1 DEF Given, blk
    <3>2. Given(spec, meta, NoData) = <<ws>>
      BY <1>5, <2>1, <3>1 DEF blk
    <3>3. Value(spec, meta, NoData) \in {<< >>, <<ws>>}
      BY <3>2 DEF Value
    <3>4. spec.when = "" => Value(spec, meta, NoData) = <<ws>>
      BY <3>2 DEF Value
    <3> QED
      BY <3>3, <3>4 DEF spec
  <2>2. CASE spec.name # "body"
    <3>1. Given(spec, meta, NoData) = spec.default
      BY <1>3, <1>5, <2>2 DEF Given, blk, aut
    <3>2. Value(spec, meta, NoData) \in {<< >>, spec.default}
      BY <3>1 DEF Value
    <3> QED
      BY <2>2, <3>2 DEF spec
  <2> QED
    BY <2>1, <2>2
<1>7. IsSeq(texts) /\ Len(texts) = n /\ \A k \in 1 .. n : texts[k] = Value(fs[k], meta, NoData)
  BY <1>1, <1>2, FcnSeq
<1>8. ASSUME NEW k \in 1 .. n PROVE IsSeqs(texts[k])
  <2>1. IsSeqs(<< >>)
    BY NoneSeq DEF IsSeqs
  <2>2. IsSeqs(<<ws>>)
    <3> DEFINE one == <<ws>>
    <3>1. IsSeq(one) /\ Len(one) = 1 /\ one[1] = ws
      BY OneSeq
    <3> HIDE DEF one
    <3>2. IsSeqs(one)
      BY <3>1 DEF IsSeqs
    <3> QED
      BY <3>2 DEF one
  <2>3. IsSeqs(fs[k].default)
    <3> DEFINE x == fs[k].default
    <3>1. x \in Seq(Seq(STRING))
      BY <1>1, FieldDefault DEF fs
    <3> HIDE DEF x
    <3>3. IsSeq(x) /\ \A i \in 1 .. Len(x) : x[i] \in Seq(STRING)
      BY <3>1 DEF IsSeq
    <3>4. IsSeqs(x)
      BY <3>3 DEF IsSeqs, IsSeq
    <3> QED
      BY <3>4 DEF x
  <2> QED
    BY <1>6, <1>7, <2>1, <2>2, <2>3
<1> QED
  BY <1>6, <1>7, <1>8 DEF texts, fs, n

\* What a field shows is set in its box, in whatever size.
LEMMA FirstWords ==
  ASSUME NEW ws, IsSeq(ws), NEW k \in 1 .. Len(CoverForm.fields)
  PROVE  LET texts == TextsOf(ws)  shown == Shown(CoverForm, texts, k)  first == First(CoverForm, texts, k)
         IN  IsSeqs(shown) /\ first.size \in Nat \ {0} /\ LineSet(first.lines) = LineSet(shown)
<1> DEFINE texts == TextsOf(ws)  shown == Shown(CoverForm, texts, k)  first == First(CoverForm, texts, k)
           over == k \in Overflows(CoverForm, texts)  f == CoverForm.fields[k]  note == <<"see", f.label>>
           spec == IF over THEN [f EXCEPT !.fit = "shrink"] ELSE f
<1>1. f \in FieldSpec
  BY FieldDefault, CoverAssumption, SeqIs DEF IsSeq
<1>2. FieldOk(spec)
  BY <1>1, SpecOk1
<1>3. shown = IF over THEN <<note>> ELSE texts[k]
  BY DEF Shown
<1>4. first = Fit(shown, spec)
  BY DEF First
<1> HIDE DEF texts, f, over, spec, first, shown
<1>5. IsSeq(note)
  <2>1. note \in Seq({"see", f.label})
    OBVIOUS
  <2> QED
    BY <2>1 DEF IsSeq
<1> HIDE DEF note
<1>6. IsSeqs(<<note>>)
  <2> DEFINE one == <<note>>
  <2>1. IsSeq(one) /\ Len(one) = 1 /\ one[1] = note
    BY OneSeq
  <2> HIDE DEF one
  <2>2. IsSeqs(one)
    BY <1>5, <2>1 DEF IsSeqs
  <2> QED
    BY <2>2 DEF one
<1>7. IsSeqs(shown)
  BY <1>3, <1>6, TextsAre DEF texts
<1>8. first.size \in Nat \ {0} /\ LineSet(first.lines) = LineSet(shown)
  BY <1>2, <1>4, <1>7, FitWords
<1> QED
  BY <1>7, <1>8 DEF texts, shown, first

LEMMA FittedWords ==
  ASSUME NEW ws, IsSeq(ws), NEW k \in Placed(CoverForm, TextsOf(ws))
  PROVE  /\ k \in 1 .. Len(CoverForm.fields)
         /\ LineSet(Fitted(CoverForm, TextsOf(ws), k).lines) = LineSet(Shown(CoverForm, TextsOf(ws), k))
<1> DEFINE texts == TextsOf(ws)  shown == Shown(CoverForm, texts, k)  first(j) == First(CoverForm, texts, j)
           f == CoverForm.fields[k]  placed1 == Placed(CoverForm, texts)
           S == {first(j).size : j \in {j \in placed1 : CoverForm.fields[j].group = f.group}}
           size == GroupSize(CoverForm, texts, f.group)
           spec == [f EXCEPT !.font = size, !.floor = size]
<1>1. placed1 \subseteq 1 .. Len(CoverForm.fields)
  BY TextsAre, SeqIs DEF Placed
<1>2. f \in FieldSpec
  BY <1>1, FieldDefault, CoverAssumption, SeqIs DEF IsSeq
<1>3. size = Min(S)
  BY DEF GroupSize
<1>4. Fitted(CoverForm, texts, k) = IF f.group = "none" \/ first(k).size <= size THEN first(k) ELSE Fit(shown, spec)
  BY DEF Fitted
<1>5. \A j \in placed1 : first(j).size \in Nat \ {0}
  BY <1>1, FirstWords
<1>6. IsSeqs(shown) /\ LineSet(first(k).lines) = LineSet(shown)
  BY <1>1, FirstWords
<1> HIDE DEF texts, shown, first, placed1, f, size
<1>7. size \in Nat \ {0}
  <2>1. S \subseteq Nat /\ S # {} /\ \A x \in S : x # 0
    BY <1>5 DEF placed1, texts, f
  <2> HIDE DEF S
  <2>2. Min(S) \in S
    BY <2>1, MinIs
  <2> QED
    BY <1>3, <2>1, <2>2
<1>8. FieldOk(spec)
  BY <1>2, <1>7, SpecOk1
<1> HIDE DEF spec
<1>9. LineSet(Fit(shown, spec).lines) = LineSet(shown)
  BY <1>6, <1>8, FitWords
<1>10. LineSet(Fitted(CoverForm, texts, k).lines) = LineSet(shown)
  BY <1>4, <1>6, <1>9
<1> QED
  BY <1>1, <1>10 DEF texts, shown, placed1

\* What the boxes and the sheets of the cover show.
LEMMA CoverShows ==
  ASSUME NEW ws, IsSeq(ws)
  PROVE  LET texts == TextsOf(ws)  over == Overflows(CoverForm, texts)  keep == KeptPages(CoverForm, << >>)
             boxed == {k \in Placed(CoverForm, texts) : CoverForm.fields[k].page \in ToSet(keep)}
         IN  /\ IsSeq(CoverOf(ws)) /\ over \subseteq 1 .. Len(CoverForm.fields) /\ Len(keep) <= Len(CoverOf(ws))
             /\ Shows(CoverOf(ws)) = (UNION {LineSet(Shown(CoverForm, texts, k)) : k \in boxed})
                                       \cup (UNION {LineSet(texts[k]) : k \in over})
<1> DEFINE texts == TextsOf(ws)  over == Overflows(CoverForm, texts)  keep == KeptPages(CoverForm, << >>)
           boxed == {k \in Placed(CoverForm, texts) : CoverForm.fields[k].page \in ToSet(keep)}
           front == FormPages(CoverForm, MetaOf(ws), NoData, << >>, FALSE)
           back == Attachments(CoverForm, MetaOf(ws), NoData)
           n == Len(CoverForm.fields)
           drawn(p) == Drawn(CoverForm, texts, p)
           ss == [k \in 1 .. n |-> IF k \in over THEN Sheets(texts[k], CoverForm.fields[k].label) ELSE << >>]
<1>1. IsSeq(keep) /\ Len(keep) \in Nat /\ DOMAIN keep = 1 .. Len(keep)
  BY CoverAssumption, SeqIs DEF IsSeq
<1>2. /\ IsSeq(texts) /\ Len(texts) = n /\ n \in Nat /\ DOMAIN texts = 1 .. n /\ \A k \in 1 .. n : IsSeqs(texts[k])
  BY TextsAre, SeqIs
<1>3. over \subseteq Placed(CoverForm, texts) /\ over \subseteq 1 .. n
  BY <1>2 DEF Overflows, Placed
<1>4. \A p : drawn(p) = {[field |-> k, fit |-> Fitted(CoverForm, texts, k)] :
                           k \in {k \in Placed(CoverForm, texts) : CoverForm.fields[k].page = p}}
  BY DEF Drawn
<1>5. front = [i \in 1 .. Len(keep) |-> front[i]] /\ \A i \in 1 .. Len(keep) : front[i].drawn = drawn(keep[i])
  <2> DEFINE page(i) == [of |-> keep[i], printed |-> Baked(CoverForm, keep[i]), label |-> "", number |-> 0, total |-> 0,
                         drawn |-> drawn(keep[i]),
                         ticked |-> {b \in Marked(CoverForm, MetaOf(ws), NoData) : CoverForm.boxes[b] = keep[i]}]
  <2>1. front = [i \in 1 .. Len(keep) |-> page(i)]
    BY <1>1 DEF FormPages, TextsOf
  <2>2. \A i \in 1 .. Len(keep) : page(i).drawn = drawn(keep[i])
    OBVIOUS
  <2> HIDE DEF page
  <2> QED
    BY <2>1, <2>2
<1>6. back = FlattenSeq(ss)
  <2>1. back = FlattenSeq([k \in DOMAIN texts |-> IF k \in over THEN Sheets(texts[k], CoverForm.fields[k].label) ELSE << >>])
    BY DEF Attachments, TextsOf
  <2> QED
    BY <1>2, <2>1
<1>7. CoverOf(ws) = front \o back
  BY DEF CoverOf
<1> HIDE DEF front, back, drawn, over
<1>8. IsSeq(front) /\ Len(front) = Len(keep)
  BY <1>1, <1>5, FcnSeq
<1>9. IsSeq(ss) /\ Len(ss) = n
      /\ \A k \in 1 .. n : ss[k] = IF k \in over THEN Sheets(texts[k], CoverForm.fields[k].label) ELSE << >>
  BY <1>2, FcnSeq
<1> HIDE DEF ss
<1>10. ASSUME NEW k \in 1 .. n PROVE IsSeq(ss[k]) /\ Shows(ss[k]) = IF k \in over THEN LineSet(texts[k]) ELSE {}
  <2>1. CASE k \in over
    BY <1>2, <1>9, <2>1, SheetsWords
  <2>2. CASE k \notin over
    <3>1. ss[k] = << >>
      BY <1>9, <2>2
    <3>2. Shows(<< >>) = {}
      BY NoneSeq, ShowsSet, NoLines
    <3> QED
      BY <2>2, <3>1, <3>2, NoneSeq
  <2> QED
    BY <2>1, <2>2
<1>11. IsSeqs(ss)
  BY <1>9, <1>10 DEF IsSeqs
<1>12. IsSeq(back) /\ Shows(back) = UNION {Shows(ss[k]) : k \in 1 .. n}
  BY <1>6, <1>9, <1>11, ShowsFlat
<1>13. Shows(back) = UNION {LineSet(texts[k]) : k \in over}
  BY <1>3, <1>10, <1>12
<1>14. Shows(front) = UNION {LineSet(Shown(CoverForm, texts, k)) : k \in boxed}
  <2>1. ASSUME NEW p PROVE UNION {UNION {ToSet(d.fit.lines[m]) : m \in DOMAIN d.fit.lines} : d \in drawn(p)}
                           = UNION {LineSet(Shown(CoverForm, texts, k)) : k \in {k \in Placed(CoverForm, texts) : CoverForm.fields[k].page = p}}
    <3> DEFINE ks == {k \in Placed(CoverForm, texts) : CoverForm.fields[k].page = p}
               e(k) == [field |-> k, fit |-> Fitted(CoverForm, texts, k)]
               w(d) == UNION {ToSet(d.fit.lines[m]) : m \in DOMAIN d.fit.lines}
    <3>1. \A k \in ks : w(e(k)) = LineSet(Fitted(CoverForm, texts, k).lines)
      <4>1. \A k : e(k).fit = Fitted(CoverForm, texts, k)
        OBVIOUS
      <4> HIDE DEF e
      <4> QED
        BY <4>1 DEF LineSet, ToSet
    <3>2. \A k \in ks : LineSet(Fitted(CoverForm, texts, k).lines) = LineSet(Shown(CoverForm, texts, k))
      BY FittedWords
    <3>3. drawn(p) = {e(k) : k \in ks}
      BY <1>4
    <3> HIDE DEF ks, e, w
    <3>4. UNION {w(d) : d \in drawn(p)} = UNION {LineSet(Shown(CoverForm, texts, k)) : k \in ks}
      BY <3>1, <3>2, <3>3
    <3> QED
      BY <3>4 DEF ks, w
  <2>2. \A i \in 1 .. Len(keep) : PageWords(front[i])
          = UNION {LineSet(Shown(CoverForm, texts, k)) : k \in {k \in Placed(CoverForm, texts) : CoverForm.fields[k].page = keep[i]}}
    BY <1>5, <2>1 DEF PageWords
  <2>3. Shows(front) = UNION {PageWords(front[i]) : i \in 1 .. Len(keep)}
    BY <1>8 DEF Shows
  <2> HIDE DEF texts
  <2>4. boxed = {k \in Placed(CoverForm, texts) : \E i \in 1 .. Len(keep) : CoverForm.fields[k].page = keep[i]}
    BY <1>1 DEF ToSet
  <2> DEFINE shows(k) == LineSet(Shown(CoverForm, texts, k))  there == Placed(CoverForm, texts)
             on(k, i) == CoverForm.fields[k].page = keep[i]
  <2>5. \A i \in 1 .. Len(keep) : PageWords(front[i]) = UNION {shows(k) : k \in {k \in there : on(k, i)}}
    BY <2>2
  <2>6. boxed = {k \in there : \E i \in 1 .. Len(keep) : on(k, i)}
    BY <2>4
  <2> HIDE DEF keep, boxed, shows, there, on
  <2>7. Shows(front) = UNION {shows(k) : k \in boxed}
    BY <2>3, <2>5, <2>6
  <2> QED
    BY <2>7 DEF shows
<1>15. IsSeq(CoverOf(ws)) /\ Len(keep) <= Len(CoverOf(ws)) /\ Shows(CoverOf(ws)) = Shows(front) \cup Shows(back)
  <2>1. IsSeq(front \o back) /\ Len(front \o back) = Len(front) + Len(back) /\ Len(back) \in Nat
    BY <1>8, <1>12, Joined, SeqIs
  <2>2. Shows(front \o back) = Shows(front) \cup Shows(back)
    BY <1>8, <1>12, ShowsJoin
  <2> QED
    BY <1>1, <1>7, <1>8, <2>1, <2>2
<1>16. /\ IsSeq(CoverOf(ws)) /\ over \subseteq 1 .. n /\ Len(keep) <= Len(CoverOf(ws))
       /\ Shows(CoverOf(ws)) = (UNION {LineSet(Shown(CoverForm, texts, k)) : k \in boxed}) \cup (UNION {LineSet(texts[k]) : k \in over})
  <2> HIDE DEF keep, boxed, texts
  <2> QED
    BY <1>3, <1>13, <1>14, <1>15
<1> QED
  BY <1>16, Zenon DEF over, n

\* A text that has a place on the cover is all there.
LEMMA AllShown ==
  ASSUME NEW ws, IsSeq(ws), NEW k \in Placed(CoverForm, TextsOf(ws)), TextsOf(ws)[k] = <<ws>>,
         CoverForm.fields[k].page \in ToSet(KeptPages(CoverForm, << >>)) \/ k \in Overflows(CoverForm, TextsOf(ws))
  PROVE  ToSet(ws) \subseteq Shows(CoverOf(ws))
<1> DEFINE texts == TextsOf(ws)  over == Overflows(CoverForm, texts)  keep == KeptPages(CoverForm, << >>)
           boxed == {j \in Placed(CoverForm, texts) : CoverForm.fields[j].page \in ToSet(keep)}
<1>1. Shows(CoverOf(ws)) = (UNION {LineSet(Shown(CoverForm, texts, j)) : j \in boxed})
                             \cup (UNION {LineSet(texts[j]) : j \in over})
  BY CoverShows
<1>2. LineSet(texts[k]) = ToSet(ws)
  BY OneLine
<1> DEFINE shows(j) == LineSet(Shown(CoverForm, texts, j))  lines1(j) == LineSet(texts[j])
<1>5. Shows(CoverOf(ws)) = (UNION {shows(j) : j \in boxed}) \cup (UNION {lines1(j) : j \in over})
  BY <1>1
<1>6. lines1(k) = ToSet(ws)
  BY <1>2
<1> HIDE DEF shows, lines1
<1>3. CASE k \in over
  BY <1>3, <1>5, <1>6
<1>4. CASE k \notin over
  <2>1. Shown(CoverForm, texts, k) = texts[k] /\ k \in boxed
    BY <1>4 DEF Shown
  <2>2. shows(k) = ToSet(ws)
    BY <1>2, <2>1 DEF shows
  <2> QED
    BY <1>5, <2>1, <2>2
<1> QED
  BY <1>3, <1>4

\* A secret on the cover comes from the text, and then the text is all there.
LEMMA CoverSecret ==
  ASSUME NEW ws, IsSeq(ws), WordsApart, NEW w \in Shows(CoverOf(ws)), w \in Secrets
  PROVE  w \in ToSet(ws) /\ ToSet(ws) \subseteq Shows(CoverOf(ws))
<1> DEFINE texts == TextsOf(ws)  over == Overflows(CoverForm, texts)  keep == KeptPages(CoverForm, << >>)
           boxed == {j \in Placed(CoverForm, texts) : CoverForm.fields[j].page \in ToSet(keep)}
           n == Len(CoverForm.fields)
<1>1. /\ Shows(CoverOf(ws)) = (UNION {LineSet(Shown(CoverForm, texts, j)) : j \in boxed})
                             \cup (UNION {LineSet(texts[j]) : j \in over})
      /\ over \subseteq 1 .. n
  BY CoverShows
<1>2. over \subseteq Placed(CoverForm, texts)
  BY DEF Overflows
<1>0. Placed(CoverForm, texts) \subseteq 1 .. n /\ DOMAIN CoverForm.fields = 1 .. n
  BY TextsAre, CoverAssumption, SeqIs DEF Placed, IsSeq
<1>3. ASSUME NEW k \in Placed(CoverForm, texts), w \in LineSet(texts[k]) PROVE texts[k] = <<ws>>
  <2>1. texts[k] \in {<< >>, CoverForm.fields[k].default, <<ws>>} /\ k \in 1 .. n
    BY <1>0, TextsAre
  <2>2. w \notin LineSet(<< >>)
    BY NoLines
  <2>3. w \notin LineSet(CoverForm.fields[k].default)
    <3> DEFINE d == CoverForm.fields[k].default
    <3>1. \A p \in DOMAIN d : \A x \in DOMAIN d[p] : d[p][x] \notin Secrets
      BY <1>0, <2>1 DEF WordsApart
    <3> HIDE DEF d
    <3>2. w \notin LineSet(d)
      BY <3>1 DEF LineSet, ToSet
    <3> QED
      BY <3>2 DEF d
  <2> QED
    BY <1>3, <2>1, <2>2, <2>3
<1>4. CASE \E k \in over : w \in LineSet(texts[k])
  <2>1. PICK k \in over : w \in LineSet(texts[k])
    BY <1>4
  <2>2. texts[k] = <<ws>> /\ k \in Placed(CoverForm, texts)
    BY <1>2, <1>3, <2>1
  <2>3. w \in ToSet(ws)
    BY <2>1, <2>2, OneLine
  <2>4. ToSet(ws) \subseteq Shows(CoverOf(ws))
    BY <2>1, <2>2, AllShown
  <2> QED
    BY <2>3, <2>4
<1>5. CASE \E k \in boxed : w \in LineSet(Shown(CoverForm, texts, k))
  <2>1. PICK k \in boxed : w \in LineSet(Shown(CoverForm, texts, k))
    BY <1>5
  <2>2. k \in Placed(CoverForm, texts) /\ k \in 1 .. n
    BY <1>0
  <2>3. CASE k \in over
    <3> DEFINE note == <<"see", CoverForm.fields[k].label>>
    <3>1. Shown(CoverForm, texts, k) = <<note>>
      BY <2>3 DEF Shown
    <3>2. ToSet(note) \subseteq {"see", CoverForm.fields[k].label}
      BY DEF ToSet
    <3> HIDE DEF note
    <3>3. w \in {"see", CoverForm.fields[k].label}
      BY <2>1, <3>1, <3>2, OneLine
    <3>4. "see" \notin Secrets /\ CoverForm.fields[k].label \notin Secrets
      BY <1>0, <2>2 DEF WordsApart
    <3> QED
      BY <3>3, <3>4
  <2>4. CASE k \notin over
    <3>1. Shown(CoverForm, texts, k) = texts[k]
      BY <2>4 DEF Shown
    <3>2. texts[k] = <<ws>>
      BY <1>3, <2>1, <2>2, <3>1
    <3>3. w \in ToSet(ws)
      BY <2>1, <3>1, <3>2, OneLine
    <3>4. ToSet(ws) \subseteq Shows(CoverOf(ws))
      BY <2>2, <3>2, AllShown
    <3> QED
      BY <3>3, <3>4
  <2> QED
    BY <2>3, <2>4
<1>6. (\E k \in over : w \in LineSet(texts[k])) \/ (\E k \in boxed : w \in LineSet(Shown(CoverForm, texts, k)))
  <2> DEFINE shows(j) == LineSet(Shown(CoverForm, texts, j))  lines1(j) == LineSet(texts[j])
  <2>1. Shows(CoverOf(ws)) = (UNION {shows(j) : j \in boxed}) \cup (UNION {lines1(j) : j \in over})
    BY <1>1
  <2> HIDE DEF shows, lines1, boxed, over
  <2>2. (\E k \in over : w \in lines1(k)) \/ (\E k \in boxed : w \in shows(k))
    BY <2>1
  <2> QED
    BY <2>2 DEF shows, lines1
<1> QED
  BY <1>4, <1>5, <1>6

-----------------------------------------------------------------------------
(* CacheInv: the cover sheet of this build.                                *)

\* The text of the cover sheet's form, like the body's.
LEMMA FormGuarded ==
  ASSUME src \in Sources, variant = "public", own = ExhibitsOf(src, variant), FormOk, SecretsMarked, WordsApart
  PROVE  Guarded(FormWords) /\ IsSeq(FormWords)
<1>1. IsSeq(src.form)
  BY SourceAssumption DEF IsSeq
<1>2. CleanRead(FormText) /\ ReadOk(FormText)
  BY <1>1, RedactedClean, RedactedOk DEF FormText, SecretsMarked
<1>3. Guarded(FormText.text) /\ IsSeq(FormText.text)
  BY <1>2 DEF CleanRead, FormOk, ReadOk
<1>4. CASE own = << >>
  BY <1>3, <1>4 DEF FormWords
<1>5. CASE own # << >>
  <2>1. Lettered(own) /\ IsSeq(src.external) /\ Len(src.external) <= Len(Letters)
    BY ExhibitsLettered
  <2>2. RefsOk(own, src.external, FormText.text)
    BY <1>5 DEF FormOk
  <2>3. FormWords = Cited(own, src.external, FormText.text)
    BY <1>5 DEF FormWords
  <2> QED
    BY <1>3, <2>1, <2>2, <2>3, CitedGuarded, CitedOk
<1> QED
  BY <1>4, <1>5

\* The cache holds what its key names, and the cover sheet is that of the
\* build, unless a fill was cut off before its key was written.
CacheInv ==
  /\ ~disk.cache.torn /\ disk.cache.key # << >> => disk.cache.pages = CoverOf(disk.cache.key[1])
  /\ stage = "key" => FormOk /\ disk.cache.pages = CoverOf(FormWords)
  /\ stage \in {"prepend"} \cup Ready /\ src.cover => FormOk /\ (~disk.cache.torn => disk.cache.pages = CoverOf(FormWords))

LEMMA SameForm ==
  ASSUME src' = src, own' = own, variant' = variant
  PROVE  FormWords' = FormWords /\ FormOk' = FormOk
  BY DEF FormWords, FormOk, FormText

LEMMA CacheFirst ==
  ASSUME PleadInit
  PROVE  CacheInv
<1>1. stage = "idle" /\ disk = EmptyDisk
  BY DEF PleadInit
<1>2. disk.cache.key = << >>
  BY <1>1 DEF EmptyDisk
<1> QED
  BY <1>1, <1>2 DEF CacheInv, Ready

LEMMA CacheFill ==
  ASSUME PackInv, CacheInv, Fill
  PROVE  CacheInv'
<1>1. src' = src /\ variant' = variant /\ own' = own /\ stage = "fill" /\ FormOk
  BY DEF Fill
<1>2. DiskIs(disk) /\ FormWords' = FormWords /\ FormOk' = FormOk
  BY <1>1, SameForm DEF PackInv
<1> DEFINE key == FillKey(log \o FormText.log)
<1>3. CASE disk.cache.key = key /\ ~disk.cache.old
  <2>1. stage' = "prepend" /\ disk' = disk
    BY <1>3 DEF Fill
  <2>2. key # << >> /\ key[1] = FormWords
    BY DEF FillKey
  <2>3. ~disk.cache.torn => disk.cache.pages = CoverOf(FormWords)
    BY <1>3, <2>2 DEF CacheInv
  <2>4. ~disk'.cache.torn /\ disk'.cache.key # << >> => disk'.cache.pages = CoverOf(disk'.cache.key[1])
    BY <2>1 DEF CacheInv
  <2> QED
    BY <1>1, <1>2, <2>1, <2>3, <2>4 DEF CacheInv
<1>4. CASE ~(disk.cache.key = key /\ ~disk.cache.old)
  <2> DEFINE c == [disk.cache EXCEPT !.pages = CoverFill, !.old = FALSE, !.torn = TRUE]
  <2>1. stage' = "key" /\ disk' = [disk EXCEPT !.cache = c]
    BY <1>4 DEF Fill
  <2>2. CacheIs(c) /\ c.pages = CoverFill /\ c.torn = TRUE
    BY <1>2, CacheFilled DEF DiskIs
  <2> HIDE DEF c
  <2>3. disk'.cache = c
    BY <1>2, <2>1, <2>2, CachePut
  <2>4. CoverFill = CoverOf(FormWords)
    BY DEF CoverFill, CoverOf, CoverMeta, MetaOf
  <2>5. disk'.cache.pages = CoverOf(FormWords) /\ disk'.cache.torn
    BY <2>2, <2>3, <2>4
  <2> QED
    BY <1>1, <1>2, <2>1, <2>5 DEF CacheInv, Ready
<1> QED
  BY <1>3, <1>4

LEMMA CacheKey ==
  ASSUME PackInv, CacheInv, WriteKey
  PROVE  CacheInv'
<1>1. src' = src /\ variant' = variant /\ own' = own /\ stage = "key" /\ stage' = "prepend"
  BY DEF WriteKey, Keep, srcVars
<1>2. DiskIs(disk) /\ FormWords' = FormWords /\ FormOk' = FormOk
  BY <1>1, SameForm DEF PackInv
<1> DEFINE c == [disk.cache EXCEPT !.key = FillKey(log), !.torn = FALSE]
<1>3. disk' = [disk EXCEPT !.cache = c]
  BY DEF WriteKey
<1>4. CacheIs(c) /\ c.pages = disk.cache.pages /\ c.key = FillKey(log)
  BY <1>2, CacheKeyed DEF DiskIs
<1> HIDE DEF c
<1>5. disk'.cache = c
  BY <1>2, <1>3, <1>4, CachePut
<1>6. FillKey(log)[1] = FormWords
  BY DEF FillKey
<1>7. FormOk /\ disk.cache.pages = CoverOf(FormWords)
  BY <1>1 DEF CacheInv
<1> QED
  BY <1>1, <1>2, <1>4, <1>5, <1>6, <1>7 DEF CacheInv, Ready

LEMMA CacheStill ==
  ASSUME CacheInv, disk'.cache.pages = disk.cache.pages, disk'.cache.key = disk.cache.key,
         disk'.cache.torn = disk.cache.torn, stage' \notin {"key", "prepend"} \cup Ready
  PROVE  CacheInv'
  BY DEF CacheInv

LEMMA CacheMore ==
  ASSUME CacheInv, disk'.cache = disk.cache, src' = src, own' = own, variant' = variant,
         stage' = "key" => stage = "key", stage' \in {"prepend"} \cup Ready /\ src.cover => stage \in {"prepend"} \cup Ready
  PROVE  CacheInv'
<1>1. FormWords' = FormWords /\ FormOk' = FormOk
  BY SameForm
<1> QED
  BY <1>1 DEF CacheInv, Ready

LEMMA CacheStep ==
  ASSUME LayInv, PackInv, CacheInv, [PleadNext]_pleadVars
  PROVE  CacheInv'
<1>0. DiskIs(disk)
  BY DEF PackInv
<1>1. CASE \E request : \E fin \in BOOLEAN : Begin(request, fin)
  <2>1. disk' = disk /\ stage' \in {"fill", "parse"}
    BY <1>1 DEF Begin
  <2> QED
    BY <2>1, CacheStill DEF Ready
<1>2. CASE Parse \/ Lay
  <2>1. disk' = disk /\ stage' \in {"parse", "lay", "merge"}
    BY <1>2 DEF Parse, Lay
  <2> QED
    BY <2>1, CacheStill DEF Ready
<1>3. CASE Merge
  <2>1. /\ src' = src /\ variant' = variant /\ own' = own
        /\ stage' = (IF src.cover THEN "fill" ELSE "notices") /\ disk' = [disk EXCEPT !.packet = BodyPages \o Attached]
    BY <1>3 DEF Merge, Keep, srcVars
  <2>2. disk'.cache = disk.cache
    BY <1>0, <2>1, PacketPut
  <2> QED
    BY <2>1, <2>2, CacheMore DEF Ready
<1>4. CASE Prepend
  <2>1. /\ src' = src /\ variant' = variant /\ own' = own /\ stage = "prepend" /\ stage' = "notices"
        /\ \E x : disk' = [disk EXCEPT !.packet = x]
    BY <1>4 DEF Prepend, Keep, srcVars
  <2>2. disk'.cache = disk.cache
    BY <1>0, <2>1, PacketPut
  <2> QED
    BY <2>1, <2>2, CacheMore DEF Ready
<1>5. CASE Notices \/ StampPacket \/ StampNotices \/ WriteFields \/ WriteLog
  <2>1. src' = src /\ variant' = variant /\ own' = own /\ stage \in Ready /\ stage' \in Ready
    BY <1>5 DEF Notices, StampPacket, StampNotices, WriteFields, WriteLog, Keep, srcVars, Ready
  <2>2. disk'.cache = disk.cache
    <3>1. CASE Notices
      BY <1>0, <3>1, NoticesPut DEF Notices
    <3>2. CASE StampPacket
      <4>1. CASE final
        BY <3>2, <4>1 DEF StampPacket
      <4>2. CASE ~final
        <5>1. disk' = [disk EXCEPT !.packet = Stamped(disk.packet)]
          BY <3>2, <4>2 DEF StampPacket
        <5> QED
          BY <1>0, <5>1, PacketPut
      <4> QED
        BY <4>1, <4>2
    <3>3. CASE StampNotices
      <4>1. \E x : disk' = [disk EXCEPT !.notices = x]
        BY <3>3 DEF StampNotices
      <4> QED
        BY <1>0, <4>1, NoticesPut
    <3>4. CASE WriteFields
      BY <1>0, <3>4, FieldsPut DEF WriteFields
    <3>5. CASE WriteLog
      <4>1. \E x : disk' = [disk EXCEPT !.log = x]
        BY <3>5 DEF WriteLog
      <4> QED
        BY <1>0, <4>1, LogPut
    <3> QED
      BY <1>5, <3>1, <3>2, <3>3, <3>4, <3>5
  <2> QED
    BY <2>1, <2>2, CacheMore DEF Ready
<1>6. CASE Stop \/ Edit
  <2>1. stage' = "idle"
    BY <1>6 DEF Stop, Edit
  <2>2. CASE Stop
    BY <2>1, <2>2, CacheStill DEF Stop, Ready
  <2>3. CASE Edit
    <3>1. disk' = [disk EXCEPT !.cache.old = TRUE]
      BY <2>3 DEF Edit
    <3>2. disk'.cache.pages = disk.cache.pages /\ disk'.cache.key = disk.cache.key /\ disk'.cache.torn = disk.cache.torn
      BY <1>0, <3>1, CacheOld
    <3> QED
      BY <2>1, <3>2, CacheStill DEF Ready
  <2> QED
    BY <1>6, <2>2, <2>3
<1>7. CASE UNCHANGED <<parseVars, layVars, srcVars, stage, disk>>
  <2>1. src' = src /\ variant' = variant /\ own' = own /\ stage' = stage /\ disk' = disk
    BY <1>7 DEF srcVars
  <2> QED
    BY <2>1, CacheMore
<1> QED
  BY <1>1, <1>2, <1>3, <1>4, <1>5, <1>6, <1>7, StepOf, CacheFill, CacheKey

\* The cover sheet's cache holds what its key names.
THEOREM CacheHolds == PleadSpec => []CacheInv
<1>1. PleadInit => CacheInv
  BY CacheFirst
<1>2. LayInv /\ PackInv /\ CacheInv /\ [PleadNext]_pleadVars => CacheInv'
  BY CacheStep
<1> QED
  BY <1>1, <1>2, LayHolds, PackHolds, PTL DEF PleadSpec

-----------------------------------------------------------------------------
(* The packet.                                                             *)

\* What pages show.
PagesShow(ps) == UNION {e.words : e \in ToSet(ps)}

FrontPages == IF src.cover THEN Cover ELSE << >>
TextPages  == IF src.coverOnly THEN << >> ELSE BodyPages

\* The packet's pages are those of its three parts.
LEMMA PacketParts ==
  ASSUME LayInv, PackInv, stage = "done"
  PROVE  /\ PacketWords = PagesShow(FrontPages) \cup (PagesShow(TextPages) \cup PagesShow(Attached))
         /\ \A p \in DOMAIN disk.packet : \E e \in ToSet(FrontPages) \cup (ToSet(TextPages) \cup ToSet(Attached)) :
              disk.packet[p].part = e.part /\ disk.packet[p].name = e.name
         /\ \A e \in ToSet(FrontPages) : \E p \in DOMAIN disk.packet :
              disk.packet[p].part = e.part /\ disk.packet[p].words = e.words
<1> DEFINE front == FrontPages  body == TextPages  att == Attached  w == Assembled
<1>1. SheetOk(sheet) /\ src \in Sources /\ final \in BOOLEAN /\ disk.packet = Banner
  BY DEF LayInv, PackInv, Late, Finished
<1>2. own = ExhibitsOf(src, variant) /\ (src.cover => Filled(disk.cache.pages))
  BY DEF PackInv, Ready
<1>3. PagesOk(w)
  BY AssembledIs
<1>4. /\ DOMAIN disk.packet = 1 .. Len(w)
      /\ \A p \in 1 .. Len(w) :
           disk.packet[p].part = w[p].part /\ disk.packet[p].name = w[p].name /\ disk.packet[p].words = w[p].words
  BY <1>1, <1>3, BannerIs
<1>5. IsSeq(front)
  BY <1>2, CoverOkPages, NoPages DEF Filled, FrontPages, PagesOk
<1>6. IsSeq(body)
  BY <1>1, BodyOkPages, NoPages DEF TextPages, PagesOk
<1>7. IsSeq(att)
  BY <1>1, <1>2, AttachedOk DEF PagesOk
<1>8. w = front \o (body \o att)
  BY DEF Assembled, Middle, FrontPages, TextPages
<1> HIDE DEF front, body, att, w
<1>9. ToSet(w) = ToSet(front) \cup (ToSet(body) \cup ToSet(att))
  BY <1>5, <1>6, <1>7, <1>8, Joined, JoinedSet
<1>10. ToSet(w) = {w[p] : p \in 1 .. Len(w)}
  BY <1>3, SeqIs DEF PagesOk, ToSet
<1>11. PacketWords = UNION {e.words : e \in ToSet(w)}
  <2>1. PacketWords = UNION {w[p].words : p \in 1 .. Len(w)}
    BY <1>4 DEF PacketWords
  <2> QED
    BY <1>10, <2>1
<1>12. PacketWords = PagesShow(front) \cup (PagesShow(body) \cup PagesShow(att))
  BY <1>9, <1>11 DEF PagesShow
<1>13. ASSUME NEW p \in DOMAIN disk.packet
       PROVE  \E e \in ToSet(front) \cup (ToSet(body) \cup ToSet(att)) : disk.packet[p].part = e.part /\ disk.packet[p].name = e.name
  <2>1. w[p] \in ToSet(w) /\ disk.packet[p].part = w[p].part /\ disk.packet[p].name = w[p].name
    BY <1>4, <1>10, <1>13
  <2> QED
    BY <1>9, <2>1
<1>14. ASSUME NEW e \in ToSet(front)
       PROVE  \E p \in DOMAIN disk.packet : disk.packet[p].part = e.part /\ disk.packet[p].words = e.words
  <2>1. PICK p \in 1 .. Len(w) : e = w[p]
    BY <1>9, <1>10
  <2> QED
    BY <1>4, <2>1
<1> QED
  BY <1>12, <1>13, <1>14 DEF front, body, att

LEMMA NoPageShows == PagesShow(<< >>) = {} /\ ToSet(<< >>) = {}
  BY NoLines DEF PagesShow

\* The cover sheet's pages show what the cache holds.
LEMMA FrontShows ==
  ASSUME src.cover => IsSeq(disk.cache.pages)
  PROVE  /\ PagesShow(FrontPages) = (IF src.cover THEN Shows(disk.cache.pages) ELSE {})
         /\ \A e \in ToSet(FrontPages) : e.part = "cover"
<1>1. CASE ~src.cover
  BY <1>1, NoPageShows DEF FrontPages
<1>2. CASE src.cover
  <2> DEFINE c == Cover  n == Len(disk.cache.pages)  ws(p) == PageWords(disk.cache.pages[p])
  <2>1. n \in Nat /\ DOMAIN disk.cache.pages = 1 .. n
    BY <1>2, SeqIs
  <2>2. IsSeq(c) /\ Len(c) = n /\ \A p \in 1 .. n : c[p].part = "cover"
    BY <1>2, CoverOkPages DEF PagesOk
  <2>3. \A p \in 1 .. n : c[p] = Page("cover", "none", ws(p))
    BY <2>1 DEF Cover
  <2>4. FrontPages = c /\ Shows(disk.cache.pages) = UNION {ws(p) : p \in 1 .. n}
    BY <1>2 DEF FrontPages, Shows
  <2> HIDE DEF c, ws
  <2>5. \A p \in 1 .. n : c[p].words = ws(p)
    BY <2>3, PageOk
  <2>6. ToSet(c) = {c[p] : p \in 1 .. n}
    BY <2>2, SeqIs DEF ToSet
  <2>7. PagesShow(c) = UNION {c[p].words : p \in 1 .. n}
    BY <2>6 DEF PagesShow
  <2>8. {c[p].words : p \in 1 .. n} = {ws(p) : p \in 1 .. n}
    BY <2>5
  <2>9. \A e \in ToSet(c) : e.part = "cover"
    BY <2>2, <2>6
  <2> QED
    BY <1>2, <2>4, <2>7, <2>8, <2>9
<1> QED
  BY <1>1, <1>2

\* Every line that is drawn, and every footnote, is on a page of the body.
LEMMA TextShows ==
  ASSUME SheetOk(sheet), ~src.coverOnly
  PROVE  /\ \A k \in 1 .. Len(sheet.drawn) : sheet.drawn[k].what \in PagesShow(TextPages)
         /\ \A w \in PagesShow(TextPages) :
              w \in DOMAIN NoteLines \/ \E k \in 1 .. Len(sheet.drawn) : w = sheet.drawn[k].what
         /\ \A e \in ToSet(TextPages) : e.part = "body"
<1> DEFINE b == BodyPages  n == sheet.page
           ws(p) == {m.what : m \in {m \in ToSet(sheet.drawn) \cup sheet.foot : m.page = p}}
<1>1. PagesOk(b) /\ Len(b) = n /\ \A p \in 1 .. n : b[p].part = "body" /\ b[p].words = ws(p)
  BY BodyOkPages
<1>2. TextPages = b /\ ToSet(sheet.drawn) = {sheet.drawn[k] : k \in 1 .. Len(sheet.drawn)}
  BY SeqIs DEF TextPages, SheetOk, ToSet
<1> HIDE DEF b
<1>3. ToSet(b) = {b[p] : p \in 1 .. n}
  BY <1>1, SeqIs DEF ToSet, PagesOk
<1>4. ASSUME NEW k \in 1 .. Len(sheet.drawn) PROVE sheet.drawn[k].what \in PagesShow(b)
  <2>1. sheet.drawn[k].page \in 1 .. n /\ sheet.drawn[k] \in ToSet(sheet.drawn)
    BY <1>2 DEF SheetOk
  <2>2. sheet.drawn[k].what \in ws(sheet.drawn[k].page)
    BY <2>1
  <2> HIDE DEF ws
  <2>3. b[sheet.drawn[k].page] \in ToSet(b) /\ b[sheet.drawn[k].page].words = ws(sheet.drawn[k].page)
    BY <1>1, <1>3, <2>1
  <2> QED
    BY <2>2, <2>3 DEF PagesShow
<1>5. ASSUME NEW w \in PagesShow(b)
      PROVE  w \in DOMAIN NoteLines \/ \E k \in 1 .. Len(sheet.drawn) : w = sheet.drawn[k].what
  <2>1. PICK e \in ToSet(b) : w \in e.words
    BY DEF PagesShow
  <2>2. PICK p \in 1 .. n : e = b[p]
    BY <1>3
  <2>3. w \in ws(p)
    BY <1>1, <2>1, <2>2
  <2>4. PICK m \in ToSet(sheet.drawn) \cup sheet.foot : w = m.what
    BY <2>3
  <2> QED
    BY <1>2, <2>4 DEF SheetOk
<1>6. \A e \in ToSet(b) : e.part = "body"
  BY <1>1, <1>3
<1> QED
  BY <1>2, <1>4, <1>5, <1>6

LEMMA OneSet ==
  ASSUME NEW x
  PROVE  ToSet(<<x>>) = {x}
<1>1. IsSeq(<<x>>) /\ Len(<<x>>) = 1 /\ <<x>>[1] = x
  BY OneSeq
<1>2. DOMAIN <<x>> = 1 .. 1
  BY <1>1, SeqIs
<1> QED
  BY <1>1, <1>2 DEF ToSet

LEMMA ToDrawGuarded ==
  ASSUME NEW b, IsSeq(b.words), Guarded(b.words), WordsApart
  PROVE  Guarded(ToDraw(b))
<1>1. "" \notin Secrets
  BY DEF WordsApart
<1>2. Label(b) \notin Secrets
  <2>1. CASE b.words = << >>
    BY <1>1, <2>1 DEF Label
  <2>2. CASE b.words # << >>
    <3>1. Len(b.words) # 0 /\ Len(b.words) \in Nat
      BY <2>2, SeqIs
    <3>2. 1 \in 1 .. Len(b.words) /\ 1 .. 1 - 1 = {}
      BY <3>1
    <3>3. b.words[1] \notin Secrets
      BY <3>2 DEF Guarded
    <3> QED
      BY <2>2, <3>3 DEF Label
  <2> QED
    BY <2>1, <2>2
<1>3. Guarded(<<Label(b)>>) /\ Guarded(<< >>)
  BY <1>2, GuardedOne, GuardedNone
<1>4. ToDraw(b) \in {<< >>, <<Label(b)>>, b.words}
  BY DEF ToDraw
<1> QED
  BY <1>3, <1>4

\* What the body's pages show without a warning holds no secret.
LEMMA TextClean ==
  ASSUME LayInv, stage = "done", BlocksGuarded(blocks), WordsApart, "redact" \notin PagesShow(TextPages)
  PROVE  PagesShow(TextPages) \cap Secrets = {} /\ \A e \in ToSet(TextPages) : e.part = "body"
<1>1. SheetOk(sheet) /\ BlocksOk(blocks)
  BY DEF LayInv, Late, Finished
<1>2. CASE src.coverOnly
  BY <1>2, NoPageShows DEF TextPages
<1>3. CASE ~src.coverOnly
  <2> DEFINE d == sheet.drawn  n == Len(blocks)  ss == [b \in 1 .. n |-> ToDraw(blocks[b])]
  <2>1. Whats(d) = FlattenSeq(ss)
    BY DEF LayInv, Late, Finished
  <2>2. n \in Nat /\ \A b \in 1 .. n : IsSeq(ToDraw(blocks[b])) /\ Guarded(ToDraw(blocks[b]))
    BY <1>1, SeqIs, ToDrawSeq, ToDrawGuarded DEF BlocksOk, BlockOk, BlocksGuarded
  <2>3. IsSeq(ss) /\ Len(ss) = n /\ \A b \in 1 .. n : ss[b] = ToDraw(blocks[b])
    BY <2>2, FcnSeq
  <2> HIDE DEF ss
  <2>4. IsSeqs(ss) /\ \A b \in 1 .. Len(ss) : Guarded(ss[b])
    BY <2>2, <2>3 DEF IsSeqs
  <2>5. Guarded(Whats(d))
    BY <2>1, <2>4, FlatGuarded
  <2>6. Len(d) \in Nat
    BY <1>1, SeqIs DEF SheetOk
  <2>7. Len(Whats(d)) = Len(d) /\ \A k \in 1 .. Len(d) : Whats(d)[k] = d[k].what
    BY <2>6, FcnSeq DEF Whats
  <2>8. ASSUME NEW w \in PagesShow(TextPages), w \in Secrets PROVE FALSE
    <3>1. w \notin DOMAIN NoteLines
      BY <2>8 DEF WordsApart
    <3>2. PICK k \in 1 .. Len(d) : w = d[k].what
      BY <1>1, <1>3, <2>8, <3>1, TextShows
    <3>3. PICK j \in 1 .. k - 1 : Whats(d)[j] = "redact"
      BY <2>5, <2>7, <2>8, <3>2 DEF Guarded
    <3>4. j \in 1 .. Len(d)
      BY <2>6
    <3>5. d[j].what = "redact" /\ d[j].what \in PagesShow(TextPages)
      BY <1>1, <1>3, <2>7, <3>3, <3>4, TextShows
    <3> QED
      BY <3>5
  <2> QED
    BY <1>1, <1>3, <2>8, TextShows
<1> QED
  BY <1>2, <1>3

\* An attached page shows a letter or nothing, and is the list, a tab or the
\* file of an exhibit that the build does not hold back.
AttachedPage(e) ==
  /\ e.words \cap Secrets = {}
  /\ e.part \in {"list", "tab"} \/ \E k \in 1 .. Len(own) : ~own[k].sealed /\ e.part = own[k].file /\ e.name = own[k].name

LEMMA AttachedAre ==
  ASSUME src \in Sources, own = ExhibitsOf(src, variant), WordsApart
  PROVE  \A e \in ToSet(Attached) : AttachedPage(e)
<1> DEFINE n == Len(own)  ps == [k \in 1 .. n |-> ExhibitPages(own[k])]
<1>1. IsSeq(own) /\ n \in Nat /\ DOMAIN own = 1 .. n /\ \A k \in 1 .. n : own[k].letter \notin Secrets
  BY ExhibitsLettered, SeqIs DEF Lettered
<1>2. ASSUME NEW k \in 1 .. n
      PROVE  IsSeq(ExhibitPages(own[k])) /\ \A e \in ToSet(ExhibitPages(own[k])) : AttachedPage(e)
  <2> DEFINE ex == own[k]  tab == Page("tab", ex.name, {ex.letter})  file == Page(ex.file, ex.name, {})
             a == IF ex.sealed /\ variant = "sealed" THEN << >> ELSE <<tab>>
             b == IF ex.sealed THEN << >> ELSE <<file>>
  <2>1. tab.part = "tab" /\ tab.words = {ex.letter} /\ file.part = ex.file /\ file.name = ex.name /\ file.words = {}
    BY PageOk
  <2>2. ExhibitPages(own[k]) = a \o b
    BY DEF ExhibitPages
  <2> HIDE DEF tab, file
  <2>3. AttachedPage(tab)
    BY <1>1, <2>1 DEF AttachedPage
  <2>4. ~ex.sealed => AttachedPage(file)
    BY <2>1 DEF AttachedPage
  <2>5. IsSeq(a) /\ ToSet(a) \subseteq {tab}
    BY NoneSeq, OneSeq, NoPageShows, OneSet
  <2>6. IsSeq(b) /\ ToSet(b) \subseteq (IF ex.sealed THEN {} ELSE {file})
    BY NoneSeq, OneSeq, NoPageShows, OneSet
  <2> HIDE DEF a, b
  <2>7. IsSeq(a \o b) /\ ToSet(a \o b) = ToSet(a) \cup ToSet(b)
    BY <2>5, <2>6, Joined, JoinedSet
  <2> QED
    BY <2>2, <2>3, <2>4, <2>5, <2>6, <2>7
<1>3. IsSeq(ps) /\ Len(ps) = n /\ \A k \in 1 .. n : ps[k] = ExhibitPages(own[k])
  BY <1>1, FcnSeq
<1>4. Attached = ListPages \o FlattenSeq(ps)
  BY <1>1 DEF Attached
<1> HIDE DEF ps
<1>5. IsSeqs(ps)
  BY <1>2, <1>3 DEF IsSeqs
<1>6. IsSeq(FlattenSeq(ps)) /\ ToSet(FlattenSeq(ps)) = UNION {ToSet(ps[k]) : k \in 1 .. n}
  BY <1>3, <1>5, Flattened
<1>7. \A e \in ToSet(FlattenSeq(ps)) : AttachedPage(e)
  BY <1>2, <1>3, <1>6
<1>8. IsSeq(ListPages) /\ \A e \in ToSet(ListPages) : AttachedPage(e)
  <2> DEFINE ls == {own[k].letter : k \in DOMAIN own}  page == Page("list", "none", ls)
  <2>1. page.part = "list" /\ page.words = ls
    BY PageOk
  <2>2. ls \cap Secrets = {}
    BY <1>1
  <2>3. ListPages \in {<< >>, <<page>>}
    BY DEF ListPages
  <2> HIDE DEF page, ls
  <2>4. AttachedPage(page)
    BY <2>1, <2>2 DEF AttachedPage
  <2>5. IsSeq(<< >>) /\ ToSet(<< >>) = {} /\ IsSeq(<<page>>) /\ ToSet(<<page>>) = {page}
    BY NoneSeq, OneSeq, NoPageShows, OneSet
  <2> QED
    BY <2>3, <2>4, <2>5
<1>9. ToSet(Attached) = ToSet(ListPages) \cup ToSet(FlattenSeq(ps))
  BY <1>4, <1>6, <1>8, JoinedSet
<1> QED
  BY <1>7, <1>8, <1>9

\* A plain file in the public packet is that of an exhibit disclosed in full.
LEMMA PlainFull ==
  ASSUME src \in Sources, ExhibitsOk(src, "public"), own = ExhibitsOf(src, "public"),
         NEW k \in 1 .. Len(own), ~own[k].sealed, own[k].file = "plain",
         NEW m \in DOMAIN src.exhibits, src.exhibits[m].name = own[k].name
  PROVE  src.exhibits[m].disclosure = "full" /\ ~src.exhibits[m].sealed
<1>1. Len(own) = Len(src.exhibits) /\ DOMAIN src.exhibits = 1 .. Len(src.exhibits) /\ Len(src.exhibits) \in Nat
  BY ExhibitsSeq, SeqIs
<1> DEFINE ex == src.exhibits[k]
<1>2. own[k].name = ex.name /\ own[k].sealed = SealedIn(ex, "public") /\ own[k].file = FileOf(ex, "public")
  BY <1>1 DEF ExhibitsOf
<1>3. k = m
  <2>1. \A i \in 1 .. Len(src.exhibits) : \A j \in 1 .. i - 1 : src.exhibits[j].name # src.exhibits[i].name
    BY <1>1 DEF ExhibitsOk
  <2>2. k \in 1 .. Len(src.exhibits) /\ m \in 1 .. Len(src.exhibits)
    BY <1>1
  <2>3. k < m \/ m < k \/ k = m
    BY <1>1, <2>2
  <2>4. k < m => k \in 1 .. m - 1
    BY <1>1, <2>2
  <2>5. m < k => m \in 1 .. k - 1
    BY <1>1, <2>2
  <2> QED
    BY <1>2, <2>1, <2>2, <2>3, <2>4, <2>5
<1>4. ex.disclosure \in {"full", "redacted", "omitted"}
  <2> DEFINE S == [name : STRING, disclosure : {"full", "redacted", "omitted"}, sealed : BOOLEAN, files : SUBSET STRING]
  <2>1. src.exhibits \in Seq(S)
    BY SourceAssumption
  <2>2. \A e \in S : e.disclosure \in {"full", "redacted", "omitted"}
    OBVIOUS
  <2> HIDE DEF S
  <2>3. ex \in S
    BY <1>1, <2>1
  <2> QED
    BY <2>2, <2>3
<1>5. ~(ex.sealed \/ ex.disclosure = "omitted")
  BY <1>2 DEF SealedIn
<1>6. ex.disclosure # "redacted"
  BY <1>2 DEF FileOf
<1>7. ex.disclosure = "full" /\ ~ex.sealed
  BY <1>4, <1>5, <1>6
<1> QED
  BY <1>3, <1>7

PacketClean ==
  stage = "done" /\ asked # "sealed" /\ (asked = "public" \/ HasRedactions(src))
    /\ "redact" \notin PacketWords /\ ~disk.cache.torn =>
    /\ PacketWords \cap Secrets = {} /\ disk.log = << >>
    /\ \A p \in DOMAIN disk.packet : \A k \in DOMAIN src.exhibits :
         LET ex == src.exhibits[k]
         IN  disk.packet[p].name = ex.name /\ disk.packet[p].part = "plain"
               => ex.disclosure = "full" /\ ~ex.sealed

\* The cover sheet is that of this build, so its text is the public one.
LEMMA FrontClean ==
  ASSUME LayInv, PackInv, CacheInv, stage = "done", variant = "public", ~disk.cache.torn,
         SecretsMarked, WordsApart, "redact" \notin PagesShow(FrontPages)
  PROVE  PagesShow(FrontPages) \cap Secrets = {} /\ \A e \in ToSet(FrontPages) : e.part = "cover"
<1>1. src \in Sources /\ own = ExhibitsOf(src, variant) /\ (src.cover => IsSeq(disk.cache.pages))
  BY DEF LayInv, PackInv, Ready, Filled
<1>2. CASE ~src.cover
  BY <1>1, <1>2, FrontShows
<1>3. CASE src.cover
  <2>1. FormOk /\ disk.cache.pages = CoverOf(FormWords)
    BY <1>3 DEF CacheInv, Ready
  <2>2. Guarded(FormWords) /\ IsSeq(FormWords)
    BY <1>1, <2>1, FormGuarded
  <2>3. PagesShow(FrontPages) = Shows(CoverOf(FormWords)) /\ \A e \in ToSet(FrontPages) : e.part = "cover"
    BY <1>1, <1>3, <2>1, FrontShows
  <2>4. ASSUME NEW w \in PagesShow(FrontPages), w \in Secrets PROVE FALSE
    <3>1. w \in ToSet(FormWords) /\ ToSet(FormWords) \subseteq PagesShow(FrontPages)
      BY <2>2, <2>3, <2>4, CoverSecret
    <3>2. Len(FormWords) \in Nat /\ ToSet(FormWords) = {FormWords[k] : k \in 1 .. Len(FormWords)}
      BY <2>2, SeqIs DEF ToSet
    <3>3. PICK k \in 1 .. Len(FormWords) : w = FormWords[k]
      BY <3>1, <3>2
    <3>4. PICK j \in 1 .. k - 1 : FormWords[j] = "redact"
      BY <2>2, <2>4, <3>3 DEF Guarded
    <3>5. j \in 1 .. Len(FormWords)
      BY <3>2, <3>3, <3>4
    <3>6. "redact" \in ToSet(FormWords)
      BY <3>2, <3>4, <3>5
    <3> QED
      BY <3>1, <3>6
  <2> QED
    BY <2>3, <2>4
<1> QED
  BY <1>2, <1>3

LEMMA AskedPublic ==
  ASSUME CleanInv, stage = "done", asked # "sealed", asked = "public" \/ HasRedactions(src)
  PROVE  variant = "public" /\ ExhibitsOk(src, "public")
<1>1. asked \in {"sealed", "public", "none"} /\ variant = Effective(src, asked) /\ ExhibitsOk(src, variant)
  BY DEF CleanInv, Variants
<1>2. CASE asked = "public"
  BY <1>1, <1>2 DEF Effective
<1>3. CASE asked = "none" /\ HasRedactions(src)
  BY <1>1, <1>3 DEF Effective
<1> QED
  BY <1>1, <1>2, <1>3

LEMMA PacketIsClean ==
  ASSUME LayInv, PackInv, CleanInv, CacheInv, SecretsMarked, WordsApart
  PROVE  PacketClean
<1> SUFFICES ASSUME stage = "done", asked # "sealed", asked = "public" \/ HasRedactions(src),
                    "redact" \notin PacketWords, ~disk.cache.torn
             PROVE  /\ PacketWords \cap Secrets = {} /\ disk.log = << >>
                    /\ \A p \in DOMAIN disk.packet : \A k \in DOMAIN src.exhibits :
                         disk.packet[p].name = src.exhibits[k].name /\ disk.packet[p].part = "plain"
                           => src.exhibits[k].disclosure = "full" /\ ~src.exhibits[k].sealed
  BY DEF PacketClean
<1>1. variant = "public" /\ ExhibitsOk(src, "public")
  BY AskedPublic
<1>2. src \in Sources /\ own = ExhibitsOf(src, variant)
  BY DEF LayInv, PackInv
<1>3. BlocksGuarded(blocks) /\ disk.log = << >>
  BY <1>1 DEF CleanInv, Late
<1>4. PacketWords = PagesShow(FrontPages) \cup (PagesShow(TextPages) \cup PagesShow(Attached))
  BY PacketParts
<1>5. PagesShow(FrontPages) \cap Secrets = {} /\ \A e \in ToSet(FrontPages) : e.part = "cover"
  BY <1>1, <1>4, FrontClean
<1>6. PagesShow(TextPages) \cap Secrets = {} /\ \A e \in ToSet(TextPages) : e.part = "body"
  BY <1>3, <1>4, TextClean
<1>7. \A e \in ToSet(Attached) : AttachedPage(e)
  BY <1>2, AttachedAre
<1>8. PagesShow(Attached) \cap Secrets = {}
  BY <1>7 DEF PagesShow, AttachedPage
<1>9. ASSUME NEW p \in DOMAIN disk.packet, NEW k \in DOMAIN src.exhibits,
             disk.packet[p].name = src.exhibits[k].name, disk.packet[p].part = "plain"
      PROVE  src.exhibits[k].disclosure = "full" /\ ~src.exhibits[k].sealed
  <2>1. PICK e \in ToSet(FrontPages) \cup (ToSet(TextPages) \cup ToSet(Attached)) :
          disk.packet[p].part = e.part /\ disk.packet[p].name = e.name
    BY PacketParts
  <2>2. e \in ToSet(Attached)
    BY <1>5, <1>6, <1>9, <2>1
  <2>3. PICK m \in 1 .. Len(own) : ~own[m].sealed /\ e.part = own[m].file /\ e.name = own[m].name
    BY <1>7, <1>9, <2>1, <2>2 DEF AttachedPage
  <2> QED
    BY <1>1, <1>2, <1>9, <2>1, <2>3, PlainFull
<1> QED
  BY <1>3, <1>4, <1>5, <1>6, <1>8, <1>9

-----------------------------------------------------------------------------
(* The .docx and the .txt.                                                 *)

\* A text without a warning shows no secret.
CleanWords(ws) == "redact" \notin ws => ws \cap Secrets = {}

LEMMA GuardedSet ==
  ASSUME NEW ws, IsSeq(ws), Guarded(ws)
  PROVE  CleanWords(ToSet(ws))
<1>1. Len(ws) \in Nat /\ ToSet(ws) = {ws[k] : k \in 1 .. Len(ws)}
  BY SeqIs DEF ToSet
<1>2. ASSUME NEW w \in ToSet(ws), w \in Secrets PROVE "redact" \in ToSet(ws)
  <2>1. PICK k \in 1 .. Len(ws) : w = ws[k]
    BY <1>1
  <2>2. PICK j \in 1 .. k - 1 : ws[j] = "redact"
    BY <1>2, <2>1 DEF Guarded
  <2>3. j \in 1 .. Len(ws)
    BY <1>1
  <2> QED
    BY <1>1, <2>2, <2>3
<1> QED
  BY <1>2 DEF CleanWords

LEMMA CleanUnion ==
  ASSUME NEW S, \A x \in S : CleanWords(x)
  PROVE  CleanWords(UNION S)
  BY DEF CleanWords

LineText(body, i) == (IF body[i].k = "item" THEN <<Num[body[i].n]>> ELSE << >>) \o body[i].words

LEMMA LineTextGuarded ==
  ASSUME NEW body, BodyLines(body), LinesGuarded(body), NEW i \in 1 .. Len(body)
  PROVE  IsSeq(LineText(body, i)) /\ Guarded(LineText(body, i))
<1> DEFINE num == IF body[i].k = "item" THEN <<Num[body[i].n]>> ELSE << >>
<1>1. IsSeq(body[i].words) /\ Guarded(body[i].words) /\ (body[i].k = "item" => Num[body[i].n] \notin Secrets)
  BY DEF BodyLines, LineOk, LinesGuarded, LineGuarded
<1>2. IsSeq(num) /\ Guarded(num)
  BY <1>1, NoneSeq, OneSeq, GuardedNone, GuardedOne
<1>3. LineText(body, i) = num \o body[i].words
  BY DEF LineText
<1> HIDE DEF num
<1> QED
  BY <1>1, <1>2, <1>3, GuardedJoin, Joined

\* The .txt: line by line.
LEMMA TxtWordsClean ==
  ASSUME NEW body, BodyLines(body), LinesGuarded(body)
  PROVE  CleanWords(UNION {ToSet(LineWords(body, i)) : i \in DOMAIN body})
<1>1. DOMAIN body = 1 .. Len(body)
  BY SeqIs DEF BodyLines
<1>2. ASSUME NEW i \in 1 .. Len(body) PROVE CleanWords(ToSet(LineWords(body, i)))
  <2>1. LineWords(body, i) \in {<< >>, LineText(body, i)}
    BY DEF LineWords, LineText
  <2>2. IsSeq(LineWords(body, i)) /\ Guarded(LineWords(body, i))
    BY <2>1, LineTextGuarded, NoneSeq, GuardedNone
  <2> QED
    BY <2>2, GuardedSet
<1> DEFINE W == {ToSet(LineWords(body, i)) : i \in DOMAIN body}
<1>3. \A x \in W : CleanWords(x)
  BY <1>1, <1>2
<1> HIDE DEF W
<1>4. CleanWords(UNION W)
  BY <1>3, CleanUnion
<1> QED
  BY <1>4 DEF W

\* The .docx: what its chunks keep.
NumText(body, i) == IF body[i].k = "item" THEN <<Num[body[i].n]>> ELSE << >>
DocxLine(body, w, i) == IF Kept(body, i) /\ ~Hidden(body, i) THEN w \o NumText(body, i) \o body[i].words ELSE w
DocxFrom(body, n, f) == f = [i \in 0 .. n |-> IF i = 0 THEN << >> ELSE DocxLine(body, f[i - 1], i)]

LEMMA DocxExists ==
  ASSUME NEW body, NEW n \in Nat
  PROVE  \E f : DocxFrom(body, n, f)
<1> DEFINE P == {m \in 0 .. n : \E f : DocxFrom(body, m, f)}
<1>1. 0 \in P
  <2> DEFINE g == [k \in 0 .. 0 |-> << >>]
  <2>1. DocxFrom(body, 0, g)
    BY DEF DocxFrom
  <2> QED
    BY <2>1
<1>2. ASSUME NEW m \in 1 .. n, m - 1 \in P PROVE m \in P
  <2>1. PICK f : DocxFrom(body, m - 1, f)
    BY <1>2
  <2> DEFINE g == [k \in 0 .. m |-> IF k = m THEN DocxLine(body, f[m - 1], m) ELSE f[k]]
             Next1(h, k) == IF k = 0 THEN << >> ELSE DocxLine(body, h[k - 1], k)
  <2>2. \A k \in 0 .. m - 1 : f[k] = Next1(f, k)
    BY <2>1 DEF DocxFrom
  <2>3. \A k \in 0 .. m - 1 : g[k] = f[k]
    OBVIOUS
  <2>4. g[m] = Next1(f, m)
    OBVIOUS
  <2>5. ASSUME NEW k \in 0 .. m PROVE g[k] = Next1(g, k)
    <3>1. k # 0 => g[k - 1] = f[k - 1]
      BY <2>3
    <3>2. Next1(g, k) = Next1(f, k)
      <4> HIDE DEF g
      <4> QED
        BY <3>1
    <3>3. g[k] = Next1(f, k)
      <4>1. k = m \/ k \in 0 .. m - 1
        OBVIOUS
      <4> HIDE DEF g, Next1
      <4> QED
        BY <2>2, <2>3, <2>4, <4>1
    <3> HIDE DEF g, Next1
    <3> QED
      BY <3>2, <3>3
  <2>6. g = [k \in 0 .. m |-> g[k]]
    OBVIOUS
  <2> HIDE DEF g
  <2>7. DocxFrom(body, m, g)
    BY <2>5, <2>6 DEF DocxFrom
  <2> QED
    BY <2>7
<1> HIDE DEF P
<1>3. \A i \in 0 .. n : i \in P
  BY <1>1, <1>2, Induct
<1>4. n \in P
  BY <1>3
<1> QED
  BY <1>4 DEF P

LEMMA DocxWordsIs ==
  ASSUME NEW body, Len(body) \in Nat
  PROVE  \E f : DocxFrom(body, Len(body), f) /\ DocxWords(body) = f[Len(body)]
<1> DEFINE words == CHOOSE f : DocxFrom(body, Len(body), f)
<1>1. DocxFrom(body, Len(body), words)
  BY DocxExists
<1>2. DocxWords(body) = words[Len(body)]
  BY DEF DocxWords, DocxFrom, DocxLine, NumText
<1> QED
  BY <1>1, <1>2

LEMMA DocxWordsClean ==
  ASSUME NEW body, BodyLines(body), LinesGuarded(body)
  PROVE  CleanWords(ToSet(DocxWords(body)))
<1> DEFINE n == Len(body)
<1>1. n \in Nat
  BY SeqIs DEF BodyLines
<1>2. PICK f : DocxFrom(body, n, f) /\ DocxWords(body) = f[n]
  BY <1>1, DocxWordsIs
<1> DEFINE P == {m \in 0 .. n : IsSeq(f[m]) /\ Guarded(f[m])}
<1>3. 0 \in P
  <2>1. f[0] = << >>
    BY <1>1, <1>2 DEF DocxFrom
  <2> QED
    BY <1>1, <2>1, NoneSeq, GuardedNone
<1>4. ASSUME NEW m \in 1 .. n, m - 1 \in P PROVE m \in P
  <2>1. f[m] = DocxLine(body, f[m - 1], m)
    BY <1>1, <1>2 DEF DocxFrom
  <2>2. IsSeq(f[m - 1]) /\ Guarded(f[m - 1])
    BY <1>4
  <2>3. IsSeq(body[m].words) /\ Guarded(body[m].words) /\ (body[m].k = "item" => Num[body[m].n] \notin Secrets)
    BY DEF BodyLines, LineOk, LinesGuarded, LineGuarded
  <2>4. IsSeq(NumText(body, m)) /\ Guarded(NumText(body, m))
    BY <2>3, NoneSeq, OneSeq, GuardedNone, GuardedOne DEF NumText
  <2>5. IsSeq(f[m - 1] \o NumText(body, m)) /\ Guarded(f[m - 1] \o NumText(body, m))
    BY <2>2, <2>4, GuardedJoin, Joined
  <2>6. IsSeq(f[m - 1] \o NumText(body, m) \o body[m].words) /\ Guarded(f[m - 1] \o NumText(body, m) \o body[m].words)
    BY <2>3, <2>5, GuardedJoin, Joined
  <2>7. IsSeq(f[m]) /\ Guarded(f[m])
    BY <2>1, <2>2, <2>6 DEF DocxLine
  <2> QED
    BY <1>1, <2>7
<1> HIDE DEF P
<1>5. \A m \in 0 .. n : m \in P
  BY <1>1, <1>3, <1>4, Induct
<1>6. n \in P
  BY <1>1, <1>5
<1>7. IsSeq(f[n]) /\ Guarded(f[n])
  BY <1>6 DEF P
<1> QED
  BY <1>2, <1>7, GuardedSet

LEMMA FlatEmpty ==
  ASSUME NEW ss, IsSeqs(ss), \A i \in 1 .. Len(ss) : ss[i] = << >>
  PROVE  FlattenSeq(ss) = << >>
<1> DEFINE f == FlattenSeq(ss)
<1>1. IsSeq(f) /\ ToSet(f) = UNION {ToSet(ss[i]) : i \in 1 .. Len(ss)}
  BY Flattened
<1>2. ToSet(f) = {}
  BY <1>1, NoPageShows
<1> HIDE DEF f
<1>3. Len(f) \in Nat /\ ToSet(f) = {f[k] : k \in 1 .. Len(f)}
  BY <1>1, SeqIs DEF ToSet
<1>4. Len(f) = 0
  <2>1. CASE Len(f) # 0
    <3>1. 1 \in 1 .. Len(f)
      BY <1>3, <2>1
    <3> QED
      BY <1>2, <1>3, <3>1
  <2> QED
    BY <2>1
<1>5. IsSeq(<< >>) /\ Len(<< >>) = 0
  BY NoneSeq
<1>6. f = << >>
  BY <1>1, <1>4, <1>5, SeqEq
<1> QED
  BY <1>6 DEF f

\* A source without redactions has nothing to hide.
LEMMA PlainSource ==
  ASSUME src \in Sources, ~HasRedactions(src), SecretsMarked, NEW v
  PROVE  /\ \A i \in 1 .. Len(src.body) : Guarded(Unsealed(v)[i].text)
         /\ LogOf(Unsealed(v)) = << >>
<1> DEFINE n == Len(src.body)  r == Unsealed(v)
<1>1. /\ r = [i \in 1 .. n |-> r[i]] /\ n \in Nat /\ DOMAIN src.body = 1 .. n
      /\ \A i \in 1 .. n : r[i] = Redacted(src.body[i].words, src.literals, v)
  BY UnsealedOk
<1> HIDE DEF r
<1>2. ASSUME NEW i \in 1 .. n PROVE r[i].log = << >> /\ Guarded(r[i].text)
  <2> DEFINE t == src.body[i].words
  <2>1. IsSeq(t) /\ MarkedFrom(t, 1)
    BY BodyIs DEF SecretsMarked
  <2>2. DOMAIN t = 1 .. Len(t) /\ Len(t) \in Nat
    BY <2>1, SeqIs
  <2>3. \A k \in 1 .. Len(t) : t[k] # "redact"
    BY <1>1, <2>2 DEF HasRedactions
  <2> HIDE DEF t
  <2>4. ASSUME NEW k \in 1 .. Len(t), t[k] \in Secrets PROVE FALSE
    <3>1. PICK j \in 1 .. k - 1 : Hides(t, j, k)
      BY <2>1, <2>4 DEF MarkedFrom
    <3>2. t[j] = "redact" /\ j \in 1 .. Len(t)
      BY <2>2, <3>1 DEF Hides
    <3> QED
      BY <2>3, <3>2
  <2>5. \A k \in 1 .. Len(t) : t[k] # "redact" /\ t[k] \notin Secrets
    BY <2>3, <2>4
  <2>6. Redacted(t, src.literals, v).log = << >> /\ Guarded(Redacted(t, src.literals, v).text)
    BY <2>1, <2>5, RedactedPlain
  <2> QED
    BY <1>1, <2>6 DEF t
<1>3. LogOf(r) = << >>
  <2> DEFINE ss == [i \in DOMAIN r |-> r[i].log]
  <2>1. ss = [i \in 1 .. n |-> r[i].log]
    BY <1>1
  <2> HIDE DEF ss
  <2>2. IsSeq(ss) /\ Len(ss) = n /\ \A i \in 1 .. n : ss[i] = << >>
    BY <1>1, <1>2, <2>1, FcnSeq
  <2>3. IsSeqs(ss)
    BY <2>2, NoneSeq DEF IsSeqs
  <2>4. FlattenSeq(ss) = << >>
    BY <2>2, <2>3, FlatEmpty
  <2> QED
    BY <2>4 DEF LogOf, ss
<1> QED
  BY <1>2, <1>3 DEF r

\* The texts of a renderer that was not asked for the sealed variant.
LEMMA TextsClean ==
  ASSUME src \in Sources, SecretsMarked, NEW v, v = "public" \/ ~HasRedactions(src),
         \A i \in 1 .. Len(src.body) : Unsealed(v)[i].ok
  PROVE  \A i \in 1 .. Len(src.body) : Guarded(Unsealed(v)[i].text)
<1>1. CASE v = "public"
  BY <1>1, UnsealedClean
<1>2. CASE ~HasRedactions(src)
  BY <1>2, PlainSource
<1> QED
  BY <1>1, <1>2

\* The letters that the .docx lists are letters.
LEMMA ListedClean ==
  ASSUME WordsApart
  PROVE  IsSeq(DocxListed(src)) /\ \A k \in 1 .. Len(DocxListed(src)) : DocxListed(src)[k] \notin Secrets
<1> DEFINE listed == {Letter(DocxMap(src), src.external, n) : n \in Citable(DocxMap(src), src.external)}
           ss == [k \in DOMAIN Letters |-> IF Letters[k] \in listed THEN <<Letters[k]>> ELSE << >>]
<1>1. DocxListed(src) = FlattenSeq(ss)
  BY DEF DocxListed
<1> HIDE DEF listed
<1>2. Len(Letters) \in Nat /\ DOMAIN Letters = 1 .. Len(Letters) /\ \A k \in 1 .. Len(Letters) : Letters[k] \notin Secrets
  BY SeqIs, LettersSeq DEF WordsApart
<1>3. IsSeq(ss) /\ Len(ss) = Len(Letters) /\ \A k \in 1 .. Len(Letters) : ss[k] \in {<<Letters[k]>>, << >>}
  <2>1. ss = [k \in 1 .. Len(Letters) |-> IF Letters[k] \in listed THEN <<Letters[k]>> ELSE << >>]
    BY <1>2
  <2>2. ss = [k \in 1 .. Len(Letters) |-> ss[k]]
    BY <1>2
  <2>3. \A k \in 1 .. Len(Letters) : ss[k] \in {<<Letters[k]>>, << >>}
    BY <1>2
  <2> HIDE DEF ss
  <2> QED
    BY <1>2, <2>2, <2>3, FcnSeq
<1> HIDE DEF ss
<1>4. IsSeqs(ss)
  <2>1. \A k \in 1 .. Len(Letters) : IsSeq(ss[k])
    BY <1>3, NoneSeq, OneSeq
  <2> QED
    BY <1>3, <2>1 DEF IsSeqs
<1>5. \A k \in 1 .. Len(Letters) : ToSet(ss[k]) \cap Secrets = {}
  BY <1>2, <1>3, OneSet, NoPageShows
<1>6. IsSeq(FlattenSeq(ss)) /\ ToSet(FlattenSeq(ss)) \cap Secrets = {}
  BY <1>3, <1>4, <1>5, Flattened
<1> QED
  BY <1>1, <1>6, SeqIs DEF ToSet

LEMMA ExhibitRefs ==
  ASSUME src \in Sources, NEW v, NEW ex, NEW ext, BodyOk(Unsealed(v), ex, ext)
  PROVE  \A i \in 1 .. Len(src.body) : Unsealed(v)[i].ok /\ IsSeq(Unsealed(v)[i].text) /\ RefsOk(ex, ext, Unsealed(v)[i].text)
<1> DEFINE r == Unsealed(v)  n == Len(src.body)
<1>1. DOMAIN r = 1 .. n /\ \A i \in 1 .. n : ReadOk(r[i])
  BY UnsealedOk
<1> HIDE DEF r
<1> QED
  BY <1>1 DEF BodyOk, ReadOk, r

LEMMA ExportsPut ==
  ASSUME NEW x, NEW y, NEW z
  PROVE  LET e == [docx |-> x, txt |-> y] IN
         /\ e.docx = x /\ e.txt = y
         /\ [e EXCEPT !.docx = z].docx = z /\ [e EXCEPT !.docx = z].txt = y
         /\ [e EXCEPT !.txt = z].txt = z /\ [e EXCEPT !.txt = z].docx = x
  OBVIOUS

LEMMA NoExportIs == NoExport.asked = "none" /\ CleanWords(NoExport.words) /\ NoExport.log = << >>
  BY DEF NoExport, CleanWords

\* What is written beside the packet.
ExportInv ==
  /\ exports.docx.asked # "sealed" => CleanWords(exports.docx.words) /\ exports.docx.log = << >>
  /\ exports.txt.asked = "public" => CleanWords(exports.txt.words)

\* The variant of a request that is not for the sealed one.
LEMMA AskedPlain ==
  ASSUME NEW request \in Variants \cup {"none"}, request # "sealed"
  PROVE  Effective(src, request) = "public" \/ (Effective(src, request) = "sealed" /\ ~HasRedactions(src))
  BY DEF Variants, Effective

LEMMA DocxClean ==
  ASSUME src \in Sources, SecretsMarked, WordsApart, NumbersNamed, exports = [docx |-> NoExport, txt |-> NoExport],
         NEW request \in Variants \cup {"none"}, NEW fin, RenderDocx(request, fin)
  PROVE  ExportInv'
<1> DEFINE v == Effective(src, request)  r == Unsealed(v)  ex == DocxMap(src)
           cited == CitedText(ex, src.external, r)
           lined == cited \o InlineList(DocxListed(src))
           body == WithoutNotes(Autonumbered(lined))
           e == [words |-> ToSet(DocxWords(body)), asked |-> request, variant |-> v, marked |-> ~fin,
                 log |-> IF v = "sealed" THEN LogOf(r) ELSE << >>, copied |-> {}]
<1>1. BodyOk(r, ex, src.external) /\ exports' = [exports EXCEPT !.docx = e]
  BY DEF RenderDocx, CitedText
<1>2. e.asked = request /\ e.words = ToSet(DocxWords(body)) /\ e.log = (IF v = "sealed" THEN LogOf(r) ELSE << >>)
  OBVIOUS
<1> HIDE DEF e
<1>3. exports'.docx = e /\ exports'.txt = NoExport
  BY <1>1, ExportsPut
<1>4. CASE request = "sealed"
  BY <1>2, <1>3, <1>4, NoExportIs DEF ExportInv
<1>5. CASE request # "sealed"
  <2>1. v = "public" \/ (v = "sealed" /\ ~HasRedactions(src))
    BY <1>5, AskedPlain
  <2> HIDE DEF v
  <2>2. \A i \in 1 .. Len(src.body) : r[i].ok /\ IsSeq(r[i].text) /\ RefsOk(ex, src.external, r[i].text)
    BY <1>1, ExhibitRefs
  <2>3. \A i \in 1 .. Len(src.body) : Guarded(r[i].text)
    BY <2>1, <2>2, TextsClean
  <2>4. e.log = << >>
    BY <1>2, <2>1, PlainSource
  <2>5. Lettered(ex) /\ IsSeq(src.external) /\ Len(src.external) <= Len(Letters)
    BY ExhibitsLettered
  <2> HIDE DEF r, ex
  <2>6. LikeBody(cited)
    <3>1. \A i \in 1 .. Len(src.body) : IsSeq(r[i].text) /\ Guarded(r[i].text) /\ RefsOk(ex, src.external, r[i].text)
      BY <2>2, <2>3
    <3> QED
      BY <2>5, <3>1, CitedLines
  <2> HIDE DEF cited
  <2>7. BodyLines(body) /\ LinesGuarded(body)
    BY <2>6, ListedClean, LinedGuarded
  <2> HIDE DEF body
  <2>9. CleanWords(e.words)
    BY <1>2, <2>7, DocxWordsClean
  <2> QED
    BY <1>3, <2>4, <2>9, NoExportIs DEF ExportInv, CleanWords
<1> QED
  BY <1>4, <1>5

LEMMA TxtClean ==
  ASSUME src \in Sources, SecretsMarked, WordsApart, NumbersNamed, exports = [docx |-> NoExport, txt |-> NoExport],
         NEW request \in Variants \cup {"none"}, NEW fin, RenderText(request, fin)
  PROVE  ExportInv'
<1> DEFINE v == TxtVariant(request)  r == Unsealed(v)  ex == DocxMap(src)
           body == WithoutNotes(Autonumbered(TxtLines(v)))
           e == [words |-> UNION {ToSet(LineWords(body, i)) : i \in DOMAIN body}, asked |-> request,
                 variant |-> v, marked |-> ~fin, log |-> << >>,
                 copied |-> {src.exhibits[k].name : k \in {k \in DOMAIN src.exhibits : "plain" \in src.exhibits[k].files}}]
<1>1. BodyOk(r, ex, << >>) /\ exports' = [exports EXCEPT !.txt = e]
  BY DEF RenderText
<1>2. e.asked = request /\ e.words = UNION {ToSet(LineWords(body, i)) : i \in DOMAIN body}
  OBVIOUS
<1> HIDE DEF e
<1>3. exports'.txt = e /\ exports'.docx = NoExport
  BY <1>1, ExportsPut
<1>4. CASE request # "public"
  BY <1>2, <1>3, <1>4, NoExportIs DEF ExportInv
<1>5. CASE request = "public"
  <2>1. v = "public"
    BY <1>5 DEF TxtVariant
  <2> HIDE DEF v
  <2>2. \A i \in 1 .. Len(src.body) : r[i].ok /\ IsSeq(r[i].text) /\ RefsOk(ex, << >>, r[i].text)
    BY <1>1, ExhibitRefs
  <2>3. \A i \in 1 .. Len(src.body) : Guarded(r[i].text)
    BY <2>1, <2>2, TextsClean
  <2>4. Lettered(ex) /\ IsSeq(<< >>) /\ Len(<< >>) <= Len(Letters)
    <3>1. Len(Letters) \in Nat
      BY ExhibitsLettered, SeqIs
    <3> QED
      BY <3>1, ExhibitsLettered, NoneSeq
  <2> DEFINE cited == CitedText(ex, << >>, r)
  <2>5. TxtLines(v) = cited
    BY DEF TxtLines, CitedText
  <2> HIDE DEF r, ex
  <2>6. LikeBody(cited)
    <3>1. \A i \in 1 .. Len(src.body) : IsSeq(r[i].text) /\ Guarded(r[i].text) /\ RefsOk(ex, << >>, r[i].text)
      BY <2>2, <2>3
    <3> QED
      BY <2>4, <3>1, CitedLines
  <2> HIDE DEF cited
  <2>7. BodyLines(body) /\ LinesGuarded(body)
    <3>1. BodyLines(cited) /\ LinesGuarded(cited) /\ AutosNamed(cited)
      <4>1. Len(cited) = Len(src.body) /\ Len(src.body) \in Nat /\ BodyLines(cited) /\ LinesGuarded(cited)
            /\ \A i \in 1 .. Len(src.body) : cited[i].k = src.body[i].k
        BY <2>6, BodyIs DEF LikeBody
      <4>2. \A i \in Len(src.body) + 1 .. Len(cited) : cited[i].k # "auto"
        BY <4>1
      <4> QED
        BY <4>1, <4>2, AutosCounted
    <3> QED
      BY <2>5, <3>1, AutonumberedOk, WithoutNotesOk, BodyGuarded
  <2> HIDE DEF body
  <2>8. CleanWords(e.words)
    BY <1>2, <2>7, TxtWordsClean
  <2> QED
    BY <1>3, <2>8, NoExportIs DEF ExportInv, CleanWords
<1> QED
  BY <1>4, <1>5

LEMMA ExportFirst ==
  ASSUME PleadInit
  PROVE  ExportInv
<1>1. exports = [docx |-> NoExport, txt |-> NoExport]
  BY DEF PleadInit
<1>2. exports.docx = NoExport /\ exports.txt = NoExport
  BY <1>1, ExportsPut
<1> QED
  BY <1>2, NoExportIs DEF ExportInv

LEMMA ExportStep ==
  ASSUME LayInv, ExportInv, SecretsMarked, WordsApart, NumbersNamed, [PleadNext]_pleadVars
  PROVE  ExportInv'
<1>1. CASE exports' = exports
  BY <1>1 DEF ExportInv, CleanWords
<1>2. CASE \E request \in Variants \cup {"none"} : \E fin \in BOOLEAN : Export(request, fin)
  <2>1. PICK request \in Variants \cup {"none"}, fin \in BOOLEAN : Export(request, fin)
    BY <1>2
  <2>2. src \in Sources /\ exports = [docx |-> NoExport, txt |-> NoExport]
    BY <2>1 DEF LayInv, Export
  <2>3. RenderDocx(request, fin) \/ RenderText(request, fin)
    BY <2>1 DEF Export
  <2> QED
    BY <2>2, <2>3, DocxClean, TxtClean
<1> QED
  BY <1>1, <1>2, StepAsks

\* What the other two renderers write is clean.
THEOREM ExportHolds == PleadSpec => []ExportInv
<1>1. PleadInit => ExportInv
  BY ExportFirst
<1>2. LayInv /\ ExportInv /\ [PleadNext]_pleadVars => ExportInv'
  BY ExportStep, SecretAssumption
<1> QED
  BY <1>1, <1>2, LayHolds, PTL DEF PleadSpec

\* In a public build no secret follows no warning.
THEOREM CleanHolds == PleadSpec => []CleanInv
<1>1. PleadInit => CleanInv
  BY CleanFirst
<1>2. LayInv /\ PackInv /\ CleanInv /\ [PleadNext]_pleadVars => CleanInv'
  BY CleanStep, SecretAssumption
<1> QED
  BY <1>1, <1>2, LayHolds, PackHolds, PTL DEF PleadSpec

LEMMA AllClean ==
  ASSUME LayInv, PackInv, CleanInv, CacheInv, ExportInv, SecretsMarked, WordsApart
  PROVE  PublicClean
<1>1. PacketClean
  BY PacketIsClean
<1>2. /\ exports.docx.asked # "sealed" /\ HasRedactions(src) /\ "redact" \notin exports.docx.words
           => exports.docx.words \cap Secrets = {} /\ exports.docx.log = << >>
      /\ exports.txt.asked = "public" /\ "redact" \notin exports.txt.words => exports.txt.words \cap Secrets = {}
  BY DEF ExportInv, CleanWords
<1> QED
  BY <1>1, <1>2 DEF PublicClean, PacketClean

\* No sequence of builds, edits, stops and exports lets a secret out: not
\* through the packet, whatever an earlier build left at its place and in the
\* cover sheet's cache, nor through the .docx or the .txt (PublicClean).
THEOREM NothingSealedShows == PleadSpec => []PublicClean
<1>1. LayInv /\ PackInv /\ CleanInv /\ CacheInv /\ ExportInv => PublicClean
  BY AllClean, SecretAssumption
<1> QED
  BY <1>1, LayHolds, PackHolds, CleanHolds, CacheHolds, ExportHolds, PTL

-----------------------------------------------------------------------------
(* The cover sheet holds the text.                                         *)

\* The form has a box for the text on one of the pages that are filed.
HoldsText ==
  \E k \in DOMAIN CoverForm.fields :
    /\ CoverForm.fields[k].name = "body" /\ CoverForm.fields[k].when = ""
    /\ CoverForm.fields[k].page # 0 /\ CoverForm.fields[k].page \in ToSet(KeptPages(CoverForm, << >>))

LEMMA TextShown ==
  ASSUME HoldsText, NEW ws, IsSeq(ws)
  PROVE  ToSet(ws) \subseteq Shows(CoverOf(ws))
<1>1. PICK k \in DOMAIN CoverForm.fields :
        /\ CoverForm.fields[k].name = "body" /\ CoverForm.fields[k].when = ""
        /\ CoverForm.fields[k].page # 0 /\ CoverForm.fields[k].page \in ToSet(KeptPages(CoverForm, << >>))
  BY DEF HoldsText
<1>2. k \in 1 .. Len(CoverForm.fields)
  BY CoverAssumption
<1>3. TextsOf(ws)[k] = <<ws>> /\ k \in DOMAIN TextsOf(ws)
  <2>1. TextsOf(ws)[k] = <<ws>> /\ IsSeq(TextsOf(ws)) /\ Len(TextsOf(ws)) = Len(CoverForm.fields)
    BY <1>1, <1>2, TextsAre
  <2>2. k \in DOMAIN TextsOf(ws)
    BY <1>2, <2>1, SeqIs
  <2> QED
    BY <2>1, <2>2
<1>4. <<ws>> # << >>
  OBVIOUS
<1>5. k \in Placed(CoverForm, TextsOf(ws))
  BY <1>1, <1>3, <1>4 DEF Placed
<1> QED
  BY <1>1, <1>3, <1>5, AllShown

\* No cover sheet leaves out a word of the text, however long that is, when
\* the form has a box for it on a page that is filed (fill,
\* _append_mc025_attachments; ensure_cached, whose key has the text).
THEOREM CoverIsWhole ==
  ASSUME HoldsText
  PROVE  PleadSpec => []CoverWhole
<1>1. LayInv /\ PackInv /\ CacheInv => CoverWhole
  <2> SUFFICES ASSUME LayInv, PackInv, CacheInv, stage = "done", src.cover, ~disk.cache.torn
               PROVE  ToSet(FormWords) \subseteq
                        UNION {disk.packet[p].words : p \in {p \in DOMAIN disk.packet : disk.packet[p].part = "cover"}}
    BY DEF CoverWhole
  <2>1. src \in Sources /\ IsSeq(disk.cache.pages)
    BY DEF LayInv, PackInv, Ready, Filled
  <2>2. disk.cache.pages = CoverOf(FormWords)
    BY DEF CacheInv, Ready
  <2>3. ToSet(FormWords) \subseteq Shows(disk.cache.pages)
    BY <2>1, <2>2, FormWordsSeq, TextShown
  <2>4. PagesShow(FrontPages) = Shows(disk.cache.pages) /\ \A e \in ToSet(FrontPages) : e.part = "cover"
    BY <2>1, FrontShows
  <2>5. ASSUME NEW w \in ToSet(FormWords)
        PROVE  \E p \in DOMAIN disk.packet : disk.packet[p].part = "cover" /\ w \in disk.packet[p].words
    <3>1. PICK e \in ToSet(FrontPages) : w \in e.words
      BY <2>3, <2>4, <2>5 DEF PagesShow
    <3>2. PICK p \in DOMAIN disk.packet : disk.packet[p].part = e.part /\ disk.packet[p].words = e.words
      BY PacketParts
    <3> QED
      BY <2>4, <3>1, <3>2
  <2> QED
    BY <2>5
<1> QED
  BY <1>1, LayHolds, PackHolds, CacheHolds, PTL

\* The cover sheet that is prepended is the one of this build, not one that an
\* earlier variant or mode left in the cache, unless a build stopped between
\* the fill and its key (ensure_cached).
THEOREM CoverOfThisBuild == PleadSpec => [](CoverIsThisBuild \/ disk.cache.torn)
<1>1. CacheInv /\ LayInv /\ PackInv => CoverIsThisBuild \/ disk.cache.torn
  <2> SUFFICES ASSUME CacheInv, PackInv, stage = "prepend", ~disk.cache.torn PROVE disk.cache.pages = CoverFill
    BY DEF CoverIsThisBuild
  <2>1. src.cover
    BY DEF PackInv
  <2>2. disk.cache.pages = CoverOf(FormWords)
    BY <2>1 DEF CacheInv
  <2>3. CoverFill = CoverOf(FormWords)
    BY DEF CoverFill, CoverOf, CoverMeta, MetaOf
  <2> QED
    BY <2>2, <2>3
<1> QED
  BY <1>1, LayHolds, PackHolds, CacheHolds, PTL

-----------------------------------------------------------------------------
(* The words of the lines and those of the blocks.                         *)

LEMMA JoinAssoc ==
  ASSUME NEW a, IsSeq(a), NEW b, IsSeq(b), NEW c, IsSeq(c)
  PROVE  (a \o b) \o c = a \o (b \o c)
<1>1. PICK A, B, C : a \in Seq(A) /\ b \in Seq(B) /\ c \in Seq(C)
  BY DEF IsSeq
<1> DEFINE S == A \cup B \cup C
<1>2. a \in Seq(S) /\ b \in Seq(S) /\ c \in Seq(S)
  BY <1>1
<1> HIDE DEF S
<1> QED
  BY <1>2

LEMMA JoinNone ==
  ASSUME NEW s, IsSeq(s)
  PROVE  s \o << >> = s /\ << >> \o s = s
<1>1. PICK S : s \in Seq(S)
  BY DEF IsSeq
<1> QED
  BY <1>1

\* The words of a line are drawn, or not; those of the first blocks, and of
\* the first lines.
Read(bs) == FlattenSeq([b \in DOMAIN bs |-> BlockWords(bs[b])])
Done(n)  == FlattenSeq([i \in 1 .. n |-> LineWords(lines, i)])

Wordy(bs) == IsSeq(bs) /\ \A i \in 1 .. Len(bs) : IsSeq(bs[i].words)

LEMMA BlockSeq ==
  ASSUME NEW b, IsSeq(b.words)
  PROVE  IsSeq(BlockWords(b))
<1>1. IsSeq(<<Num[b.n]>>) /\ IsSeq(<< >>)
  BY OneSeq, NoneSeq
<1> QED
  BY <1>1, Joined DEF BlockWords

LEMMA LineSeq ==
  ASSUME NEW body, NEW i, IsSeq(body[i].words)
  PROVE  IsSeq(LineWords(body, i))
<1>1. IsSeq(<<Num[body[i].n]>>) /\ IsSeq(<< >>)
  BY OneSeq, NoneSeq
<1> QED
  BY <1>1, Joined DEF LineWords

LEMMA FlatNone ==
  ASSUME NEW f
  PROVE  FlattenSeq([i \in 1 .. 0 |-> f[i]]) = << >>
<1> DEFINE s == [i \in 1 .. 0 |-> f[i]]
<1>1. s = << >>
  <2>1. s = [i \in 1 .. 0 |-> s[i]]
    OBVIOUS
  <2> HIDE DEF s
  <2>2. IsSeq(s) /\ Len(s) = 0
    BY <2>1, FcnSeq
  <2> QED
    BY <2>2, NoneSeq, SeqEq
<1>2. FlattenSeq(<< >>) = << >>
  BY NoneSeq DEF FlattenSeq
<1> QED
  BY <1>1, <1>2

LEMMA ReadNone == Read(<< >>) = << >>
<1>1. DOMAIN << >> = 1 .. 0
  OBVIOUS
<1> DEFINE f == [b \in 1 .. 0 |-> BlockWords(<< >>[b])]
<1>2. [b \in DOMAIN << >> |-> BlockWords(<< >>[b])] = [i \in 1 .. 0 |-> f[i]]
  BY <1>1
<1> QED
  BY <1>2, FlatNone DEF Read

LEMMA ReadMore ==
  ASSUME NEW bs, Wordy(bs), NEW b, IsSeq(b.words)
  PROVE  IsSeq(Read(bs)) /\ Wordy(Append(bs, b)) /\ Read(Append(bs, b)) = Read(bs) \o BlockWords(b)
<1> DEFINE c == Append(bs, b)
           ss == [i \in 1 .. Len(bs) |-> BlockWords(bs[i])]
           tt == [i \in 1 .. Len(bs) + 1 |-> BlockWords(c[i])]
<1>1. /\ Len(bs) \in Nat /\ DOMAIN bs = 1 .. Len(bs) /\ IsSeq(c) /\ Len(c) = Len(bs) + 1
      /\ c[Len(bs) + 1] = b /\ \A i \in 1 .. Len(bs) : c[i] = bs[i]
  BY Appended, SeqIs DEF Wordy
<1> HIDE DEF c
<1>2. \A i \in 1 .. Len(bs) + 1 : IsSeq(c[i].words)
  <2>1. \A i \in 1 .. Len(bs) + 1 : i = Len(bs) + 1 \/ i \in 1 .. Len(bs)
    BY <1>1
  <2> QED
    BY <1>1, <2>1 DEF Wordy
<1>3. DOMAIN c = 1 .. Len(bs) + 1
  BY <1>1, SeqIs
<1>4. Read(bs) = FlattenSeq(ss) /\ Read(c) = FlattenSeq(tt)
  BY <1>1, <1>3 DEF Read
<1>5. /\ ss = [i \in 1 .. Len(bs) |-> ss[i]] /\ tt = [i \in 1 .. Len(bs) + 1 |-> tt[i]]
      /\ \A i \in 1 .. Len(bs) : ss[i] = BlockWords(bs[i]) /\ tt[i] = ss[i]
      /\ \A i \in 1 .. Len(bs) + 1 : tt[i] = BlockWords(c[i])
  <2>1. \A i \in 1 .. Len(bs) : i \in 1 .. Len(bs) + 1
    BY <1>1
  <2> QED
    BY <1>1, <2>1
<1> HIDE DEF ss, tt
<1>6. IsSeqs(ss) /\ Len(ss) = Len(bs)
  <2>1. IsSeq(ss) /\ Len(ss) = Len(bs)
    BY <1>1, <1>5, FcnSeq
  <2>2. \A i \in 1 .. Len(bs) : IsSeq(ss[i])
    BY <1>5, BlockSeq DEF Wordy
  <2> QED
    BY <2>1, <2>2 DEF IsSeqs
<1>7. IsSeqs(tt) /\ Len(tt) = Len(ss) + 1
  <2>1. Len(bs) + 1 \in Nat
    BY <1>1
  <2>2. IsSeq(tt) /\ Len(tt) = Len(bs) + 1
    BY <1>5, <2>1, FcnSeq
  <2>3. \A i \in 1 .. Len(bs) + 1 : IsSeq(tt[i])
    BY <1>2, <1>5, BlockSeq
  <2> QED
    BY <1>6, <2>2, <2>3 DEF IsSeqs
<1>8. FlattenSeq(tt) = FlattenSeq(ss) \o tt[Len(tt)]
  BY <1>5, <1>6, <1>7, FlattenLast
<1>9. tt[Len(tt)] = BlockWords(b)
  <2>1. Len(tt) = Len(bs) + 1 /\ Len(tt) \in 1 .. Len(bs) + 1
    BY <1>1, <1>6, <1>7
  <2> QED
    BY <1>1, <1>5, <2>1
<1> QED
  BY <1>1, <1>2, <1>4, <1>6, <1>8, <1>9, Flattened DEF Wordy, c

LEMMA DoneNone == Done(0) = << >>
<1> DEFINE f == [i \in 1 .. 0 |-> LineWords(lines, i)]
<1>1. [i \in 1 .. 0 |-> LineWords(lines, i)] = [i \in 1 .. 0 |-> f[i]]
  OBVIOUS
<1> QED
  BY <1>1, FlatNone DEF Done

LEMMA DoneMore ==
  ASSUME BodyLines(lines), NEW n \in 1 .. Len(lines)
  PROVE  IsSeq(Done(n - 1)) /\ IsSeq(LineWords(lines, n)) /\ Done(n) = Done(n - 1) \o LineWords(lines, n)
<1> DEFINE ss == [i \in 1 .. n - 1 |-> LineWords(lines, i)]
           tt == [i \in 1 .. n |-> LineWords(lines, i)]
<1>1. Len(lines) \in Nat /\ n \in Nat /\ n - 1 \in Nat
  BY SeqIs DEF BodyLines
<1>2. \A i \in 1 .. n : IsSeq(LineWords(lines, i))
  <2>1. \A i \in 1 .. n : i \in 1 .. Len(lines)
    BY <1>1
  <2> QED
    BY <2>1, LineSeq DEF BodyLines, LineOk
<1>3. /\ ss = [i \in 1 .. n - 1 |-> ss[i]] /\ tt = [i \in 1 .. n |-> tt[i]]
      /\ \A i \in 1 .. n - 1 : tt[i] = ss[i] /\ IsSeq(ss[i])
      /\ \A i \in 1 .. n : tt[i] = LineWords(lines, i)
  <2>1. \A i \in 1 .. n - 1 : i \in 1 .. n
    BY <1>1
  <2> QED
    BY <1>2, <2>1
<1>4. Done(n - 1) = FlattenSeq(ss) /\ Done(n) = FlattenSeq(tt)
  BY DEF Done
<1> HIDE DEF ss, tt
<1>5. IsSeq(ss) /\ Len(ss) = n - 1
  BY <1>1, <1>3, FcnSeq
<1>6. IsSeq(tt) /\ Len(tt) = n
  BY <1>1, <1>3, FcnSeq
<1>7. IsSeqs(ss) /\ IsSeqs(tt)
  BY <1>2, <1>3, <1>5, <1>6 DEF IsSeqs
<1>8. Len(tt) = Len(ss) + 1 /\ n \in 1 .. n
  BY <1>1, <1>5, <1>6
<1>9. FlattenSeq(tt) = FlattenSeq(ss) \o tt[Len(tt)]
  BY <1>3, <1>5, <1>7, <1>8, FlattenLast
<1>10. tt[Len(tt)] = LineWords(lines, n)
  BY <1>3, <1>6, <1>8
<1> QED
  BY <1>2, <1>4, <1>7, <1>8, <1>9, <1>10, Flattened

-----------------------------------------------------------------------------
(* What is read, and what is still awaited.                                *)

Leveled(bs) == \A i \in 1 .. Len(bs) : bs[i].kind = "heading" => bs[i].n \in 1 .. 3

\* The blocks c are the blocks bs and others, which have the words ws.
Grown(bs, c, ws) == Wordy(c) /\ Read(c) = Read(bs) \o ws /\ (Leveled(bs) => Leveled(c))

LEMMA GrownNone ==
  ASSUME NEW bs, Wordy(bs)
  PROVE  Grown(bs, bs, << >>) /\ IsSeq(Read(bs))
<1>1. IsSeq(Read(bs))
  <2>1. IsSeq([kind |-> "none", words |-> << >>, n |-> 0].words)
    BY NoneSeq
  <2> QED
    BY <2>1, ReadMore
<1> QED
  BY <1>1, JoinNone DEF Grown

LEMMA GrownOne ==
  ASSUME NEW bs, Wordy(bs), NEW b, IsSeq(b.words), b.kind = "heading" => b.n \in 1 .. 3
  PROVE  Grown(bs, Append(bs, b), BlockWords(b))
<1> DEFINE c == Append(bs, b)
<1>1. Wordy(c) /\ Read(c) = Read(bs) \o BlockWords(b)
  BY ReadMore
<1>2. Len(bs) \in Nat /\ Len(c) = Len(bs) + 1 /\ c[Len(bs) + 1] = b /\ \A i \in 1 .. Len(bs) : c[i] = bs[i]
  BY Appended, SeqIs DEF Wordy
<1> HIDE DEF c
<1>3. ASSUME Leveled(bs), NEW i \in 1 .. Len(c), c[i].kind = "heading" PROVE c[i].n \in 1 .. 3
  <2>1. i = Len(bs) + 1 \/ i \in 1 .. Len(bs)
    BY <1>2
  <2> QED
    BY <1>2, <1>3, <2>1 DEF Leveled
<1> QED
  BY <1>1, <1>3 DEF Grown, Leveled, c

LEMMA GrownMore ==
  ASSUME NEW bs, Wordy(bs), NEW c, NEW ws, IsSeq(ws), Grown(bs, c, ws), NEW d, NEW vs, IsSeq(vs), Grown(c, d, vs)
  PROVE  Grown(bs, d, ws \o vs)
<1>1. IsSeq(Read(bs))
  BY GrownNone
<1>2. (Read(bs) \o ws) \o vs = Read(bs) \o (ws \o vs)
  BY <1>1, JoinAssoc
<1> QED
  BY <1>2 DEF Grown

LEMMA WordyBlocks ==
  ASSUME NEW bs, BlocksOk(bs)
  PROVE  Wordy(bs)
  BY DEF Wordy, BlocksOk, BlockOk

\* What a paragraph, a quotation or an item has read.
Held(p) == IF p.words = << >> THEN << >> ELSE BlockWords(p)

LEMMA PendSeq ==
  ASSUME PendOk(pend)
  PROVE  IsSeq(pend.words) /\ IsSeq(Held(pend))
<1>1. IsSeq(pend.words)
  <2>1. Nothing.words = << >>
    BY BlockWordsAre DEF Nothing
  <2> QED
    BY <2>1, NoneSeq DEF PendOk, BlockOk
<1> QED
  BY <1>1, BlockSeq, NoneSeq DEF Held

LEMMA FlushedRead ==
  ASSUME NEW bs, Wordy(bs), PendOk(pend), pend.kind # "heading"
  PROVE  Grown(bs, Flushed(bs), Held(pend))
<1>1. IsSeq(pend.words)
  BY PendSeq
<1>2. CASE pend.words = << >>
  <2>1. Flushed(bs) = bs /\ Held(pend) = << >>
    BY <1>2 DEF Flushed, Held
  <2> QED
    BY <2>1, GrownNone
<1>3. CASE pend.words # << >>
  <2>1. Flushed(bs) = Append(bs, pend) /\ Held(pend) = BlockWords(pend)
    BY <1>3 DEF Flushed, Held
  <2> QED
    BY <1>1, <2>1, GrownOne
<1> QED
  BY <1>2, <1>3

LEMMA PlainBlock ==
  ASSUME NEW kind, kind # "numbered", NEW ws, IsSeq(ws), NEW n
  PROVE  Block(kind, ws, n).kind = kind /\ Block(kind, ws, n).n = n /\ BlockWords(Block(kind, ws, n)) = ws
<1> DEFINE b == Block(kind, ws, n)
<1>1. b.kind = kind /\ b.words = ws /\ b.n = n
  BY DEF Block
<1> HIDE DEF b
<1>2. BlockWords(b) = << >> \o ws
  BY <1>1 DEF BlockWords
<1> QED
  BY <1>1, <1>2, JoinNone DEF b

LEMMA TabledRead ==
  ASSUME ParseOk
  PROVE  Grown(blocks, Tabled, table)
<1>1. Wordy(blocks) /\ IsSeq(table)
  BY WordyBlocks DEF ParseOk
<1>2. CASE table = << >>
  BY <1>1, <1>2, GrownNone DEF Tabled
<1>3. CASE table # << >>
  <2> DEFINE b == Block("table", table, 0)
  <2>1. Tabled = Append(blocks, b)
    BY <1>3 DEF Tabled
  <2>2. b.kind = "table" /\ b.words = table /\ BlockWords(b) = table
    BY <1>1, PlainBlock, BlockWordsAre
  <2> HIDE DEF b
  <2>3. Grown(blocks, Append(blocks, b), BlockWords(b))
    BY <1>1, <2>2, GrownOne
  <2> QED
    BY <2>1, <2>2, <2>3
<1> QED
  BY <1>2, <1>3

\* What is read and not yet in a block.
Awaits == IF verb.on THEN verb.words ELSE IF table # << >> THEN table ELSE Held(pend)

LEMMA HeldNothing == Held(Nothing) = << >> /\ Nothing.kind = "none" /\ Nothing.words = << >>
  BY DEF Held, Nothing, Block

LEMMA SettledRead ==
  ASSUME ParseOk, ~verb.on, pend.kind # "heading", table # << >> => pend = Nothing
  PROVE  Grown(blocks, Settled, Awaits)
<1>1. Wordy(blocks) /\ IsSeq(table) /\ PendOk(pend) /\ IsSeq(Held(pend))
  BY WordyBlocks, PendSeq DEF ParseOk
<1>2. Grown(blocks, Tabled, table)
  BY TabledRead
<1>3. Grown(Tabled, Settled, Held(pend))
  BY <1>1, <1>2, FlushedRead DEF Settled, Grown
<1>4. Grown(blocks, Settled, table \o Held(pend))
  BY <1>1, <1>2, <1>3, GrownMore
<1>5. table \o Held(pend) = Awaits
  <2>1. CASE table # << >>
    BY <1>1, <2>1, HeldNothing, JoinNone DEF Awaits
  <2>2. CASE table = << >>
    BY <1>1, <2>2, JoinNone DEF Awaits
  <2> QED
    BY <2>1, <2>2
<1> QED
  BY <1>4, <1>5

-----------------------------------------------------------------------------
\* The lines up to n end in a comment, in a table, in verbatim text.
InComment(n) == \E s \in 1 .. n : lines[s].k = "open" /\ \A j \in s .. n : lines[j].k # "close"

Tabular(m) == lines[m].k \in {"row", "rule"} \/ Hidden(lines, m)
OfTable(n) == \E s \in 1 .. n : lines[s].k = "row" /\ \A m \in s + 1 .. n : Tabular(m)

InFixed(n) == \E i \in 1 .. n : lines[i].k = "fixed" /\ \A m \in i + 1 .. n : lines[m].k # "end"

LEMMA CommentOn ==
  ASSUME NEW n \in Nat, n # 0
  PROVE  InComment(n) <=> (InComment(n - 1) \/ lines[n].k = "open") /\ lines[n].k # "close"
<1>1. ASSUME InComment(n) PROVE (InComment(n - 1) \/ lines[n].k = "open") /\ lines[n].k # "close"
  <2>1. PICK s \in 1 .. n : lines[s].k = "open" /\ \A j \in s .. n : lines[j].k # "close"
    BY <1>1 DEF InComment
  <2>2. n \in s .. n /\ (s = n \/ s \in 1 .. n - 1) /\ \A j \in s .. n - 1 : j \in s .. n
    BY <2>1
  <2> QED
    BY <2>1, <2>2 DEF InComment
<1>2. ASSUME InComment(n - 1), lines[n].k # "close" PROVE InComment(n)
  <2>1. PICK s \in 1 .. n - 1 : lines[s].k = "open" /\ \A j \in s .. n - 1 : lines[j].k # "close"
    BY <1>2 DEF InComment
  <2>2. s \in 1 .. n /\ \A j \in s .. n : j = n \/ j \in s .. n - 1
    OBVIOUS
  <2> QED
    BY <1>2, <2>1, <2>2 DEF InComment
<1>3. ASSUME lines[n].k = "open" PROVE InComment(n)
  <2>1. n \in 1 .. n /\ \A j \in n .. n : j = n
    OBVIOUS
  <2> QED
    BY <1>3, <2>1 DEF InComment
<1> QED
  BY <1>1, <1>2, <1>3

LEMMA HiddenAt ==
  ASSUME IsSeq(lines), Sane(lines), NEW n \in 1 .. Len(lines)
  PROVE  Hidden(lines, n) <=> lines[n].k \in {"comment", "open"} \/ InComment(n - 1)
<1>0. Len(lines) \in Nat /\ DOMAIN lines = 1 .. Len(lines) /\ n \in Nat
  BY SeqIs
<1>1. ASSUME lines[n].k = "open" \/ InComment(n - 1) PROVE Hidden(lines, n)
  <2>1. PICK s \in 1 .. n : lines[s].k = "open" /\ \A j \in s .. n - 1 : lines[j].k # "close"
    <3>1. CASE lines[n].k = "open"
      <4>1. n \in 1 .. n /\ \A j \in n .. n - 1 : FALSE
        BY <1>0
      <4> QED
        BY <3>1, <4>1
    <3>2. CASE InComment(n - 1)
      <4>1. \A s \in 1 .. n - 1 : s \in 1 .. n
        BY <1>0
      <4> QED
        BY <3>2, <4>1 DEF InComment
    <3> QED
      BY <1>1, <3>1, <3>2
  <2>2. s \in DOMAIN lines /\ s \in Nat
    BY <1>0
  <2> DEFINE E == {e \in s .. Len(lines) : lines[e].k = "close"}
  <2>3. E \subseteq Nat /\ E # {}
    BY <1>0, <2>1, <2>2 DEF Sane
  <2> DEFINE e == Min(E)
  <2>4. e \in E /\ \A y \in E : e <= y
    BY <2>3, MinIs
  <2> HIDE DEF e
  <2>5. e \in n .. Len(lines)
    BY <1>0, <2>1, <2>2, <2>4
  <2>6. ASSUME NEW j \in s .. e - 1 PROVE lines[j].k # "close"
    <3>1. j \in s .. Len(lines) /\ ~(e <= j)
      BY <1>0, <2>2, <2>4
    <3> QED
      BY <2>4, <3>1
  <2> QED
    BY <2>1, <2>4, <2>5, <2>6 DEF Hidden
<1>2. ASSUME Hidden(lines, n), lines[n].k # "comment" PROVE lines[n].k = "open" \/ InComment(n - 1)
  <2>1. PICK s \in 1 .. n : \E e \in n .. Len(lines) :
          lines[s].k = "open" /\ lines[e].k = "close" /\ \A j \in s .. e - 1 : lines[j].k # "close"
    BY <1>2 DEF Hidden
  <2>2. PICK e \in n .. Len(lines) :
          lines[s].k = "open" /\ lines[e].k = "close" /\ \A j \in s .. e - 1 : lines[j].k # "close"
    BY <2>1
  <2>3. (s = n \/ s \in 1 .. n - 1) /\ \A j \in s .. n - 1 : j \in s .. e - 1
    BY <1>0
  <2> QED
    BY <2>2, <2>3 DEF InComment
<1>3. lines[n].k = "comment" => Hidden(lines, n)
  BY DEF Hidden
<1> QED
  BY <1>1, <1>2, <1>3

LEMMA TableOn ==
  ASSUME NEW n \in Nat, n # 0, OfTable(n - 1), Tabular(n)
  PROVE  OfTable(n)
<1>1. PICK s \in 1 .. n - 1 : lines[s].k = "row" /\ \A m \in s + 1 .. n - 1 : Tabular(m)
  BY DEF OfTable
<1>2. s \in 1 .. n /\ \A m \in s + 1 .. n : m = n \/ m \in s + 1 .. n - 1
  OBVIOUS
<1> QED
  BY <1>1, <1>2 DEF OfTable

LEMMA TableBegins ==
  ASSUME NEW n \in Nat, n # 0, lines[n].k = "row"
  PROVE  OfTable(n)
<1>1. n \in 1 .. n /\ \A m \in n + 1 .. n : FALSE
  OBVIOUS
<1> QED
  BY <1>1 DEF OfTable

LEMMA FixedOn ==
  ASSUME NEW n \in Nat, n # 0, lines[n].k = "fixed" \/ (InFixed(n - 1) /\ lines[n].k # "end")
  PROVE  InFixed(n)
<1>1. CASE lines[n].k = "fixed"
  <2>1. n \in 1 .. n /\ \A m \in n + 1 .. n : FALSE
    OBVIOUS
  <2> QED
    BY <1>1, <2>1 DEF InFixed
<1>2. CASE InFixed(n - 1) /\ lines[n].k # "end"
  <2>1. PICK i \in 1 .. n - 1 : lines[i].k = "fixed" /\ \A m \in i + 1 .. n - 1 : lines[m].k # "end"
    BY <1>2 DEF InFixed
  <2>2. i \in 1 .. n /\ \A m \in i + 1 .. n : m = n \/ m \in i + 1 .. n - 1
    OBVIOUS
  <2> QED
    BY <1>2, <2>1, <2>2 DEF InFixed
<1> QED
  BY <1>1, <1>2

\* In verbatim text there is no comment, and it has an end.
LEMMA FixedIs ==
  ASSUME IsSeq(lines), Sane(lines), NEW n \in 1 .. Len(lines) + 1, InFixed(n - 1)
  PROVE  n \in 1 .. Len(lines) /\ lines[n].k \notin {"open", "comment"}
<1>0. Len(lines) \in Nat /\ DOMAIN lines = 1 .. Len(lines) /\ n \in Nat
  BY SeqIs
<1>1. PICK i \in 1 .. n - 1 : lines[i].k = "fixed" /\ \A m \in i + 1 .. n - 1 : lines[m].k # "end"
  BY DEF InFixed
<1>2. i \in DOMAIN lines /\ i \in Nat
  BY <1>0
<1>3. PICK e \in i + 1 .. Len(lines) : lines[e].k = "end" /\ \A j \in i .. e : lines[j].k \notin {"open", "comment"}
  BY <1>1, <1>2 DEF Sane
<1>4. e \in Nat /\ ~(e <= n - 1)
  BY <1>0, <1>1, <1>2, <1>3
<1>5. n \in i .. e /\ n \in 1 .. Len(lines)
  BY <1>0, <1>2, <1>3, <1>4
<1> QED
  BY <1>3, <1>5

\* Verbatim text begins neither in a comment nor in a table.
LEMMA FixedApart ==
  ASSUME IsSeq(lines), Sane(lines), NEW n \in 1 .. Len(lines), lines[n].k = "fixed"
  PROVE  ~InComment(n - 1) /\ ~OfTable(n - 1)
<1>0. Len(lines) \in Nat /\ n \in DOMAIN lines /\ n \in Nat
  BY SeqIs
<1>1. ~Hidden(lines, n)
  BY <1>0 DEF Sane
<1>2. ~InComment(n - 1)
  BY <1>1, HiddenAt
<1>3. ASSUME OfTable(n - 1) PROVE FALSE
  <2>1. PICK s \in 1 .. n - 1 : lines[s].k = "row" /\ \A m \in s + 1 .. n - 1 : Tabular(m)
    BY <1>3 DEF OfTable
  <2>2. PICK m \in s + 1 .. n - 1 : lines[m].k \notin {"row", "rule"} /\ ~Hidden(lines, m)
    BY <1>0, <2>1 DEF Sane
  <2> QED
    BY <2>1, <2>2 DEF Tabular
<1> QED
  BY <1>2, <1>3

\* What is read of the lines so far: what is in blocks, and what is awaited.
ReadTo ==
  /\ Read(blocks) \o Awaits = Done(at - 1) /\ Leveled(blocks)
  /\ commented <=> InComment(at - 1)
  /\ table # << >> => pend = Nothing /\ OfTable(at - 1)
  /\ verb.on => pend = Nothing /\ table = << >> /\ InFixed(at - 1) /\ ~InComment(at - 1)
  /\ ~verb.on => verb.words = << >>
  /\ pend.kind = "numbered" => pend.words # << >>
  /\ pend.kind # "heading"

\* A line of a body in order is read.
Reading == ParseOk /\ ReadTo /\ Formed(lines) /\ Sane(lines) /\ at \in 1 .. Len(lines) /\ lines' = lines /\ at' = at + 1

LEMMA AwaitsSeq ==
  ASSUME ParseOk
  PROVE  IsSeq(Awaits) /\ Wordy(blocks) /\ IsSeq(Read(blocks)) /\ IsSeq(table) /\ IsSeq(verb.words) /\ PendOk(pend)
<1>1. IsSeq(table) /\ IsSeq(verb.words) /\ PendOk(pend) /\ Wordy(blocks)
  BY WordyBlocks DEF ParseOk
<1> QED
  BY <1>1, PendSeq, GrownNone DEF Awaits

\* What is closed and what stays open are what was open and a line.
Rejoins(c, d, b, e) == c \o d = b \o e

LEMMA Rejoined ==
  ASSUME NEW a, IsSeq(a), NEW b, IsSeq(b), NEW c, IsSeq(c), NEW d, IsSeq(d), NEW e, IsSeq(e)
  PROVE  Rejoins(c, d, b, e) => (a \o c) \o d = (a \o b) \o e
<1>1. (a \o c) \o d = a \o (c \o d)
  BY JoinAssoc
<1>2. (a \o b) \o e = a \o (b \o e)
  BY JoinAssoc
<1> QED
  BY <1>1, <1>2 DEF Rejoins

LEMMA ReadOn ==
  ASSUME Reading, NEW ws, IsSeq(ws), NEW more, more = Awaits', IsSeq(more), Grown(blocks, blocks', ws),
         Rejoins(ws, more, Awaits, LineWords(lines, at)), commented' <=> InComment(at),
         table' # << >> => pend' = Nothing /\ OfTable(at),
         verb'.on => pend' = Nothing /\ table' = << >> /\ InFixed(at) /\ ~InComment(at),
         ~verb'.on => verb'.words = << >>, pend'.kind = "numbered" => pend'.words # << >>, pend'.kind # "heading"
  PROVE  ReadTo'
<1>1. at' - 1 = at /\ BodyLines(lines) /\ at \in Nat
  BY SeqIs DEF Reading, ParseOk
<1>2. /\ Done(at - 1)' = Done(at) /\ InComment(at - 1)' = InComment(at) /\ OfTable(at - 1)' = OfTable(at)
      /\ InFixed(at - 1)' = InFixed(at)
  BY <1>1 DEF Reading, Done, InComment, OfTable, InFixed, Tabular, LineWords, Hidden, FlattenSeq
<1>3. IsSeq(Read(blocks)) /\ IsSeq(Awaits)
  BY AwaitsSeq DEF Reading
<1>4. IsSeq(LineWords(lines, at)) /\ Done(at) = Done(at - 1) \o LineWords(lines, at)
  BY <1>1, DoneMore DEF Reading
<1>5. Read(blocks') = Read(blocks) \o ws /\ Leveled(blocks')
  BY DEF Grown, Reading, ReadTo
<1>6. Read(blocks)' = Read(blocks') /\ Leveled(blocks)' = Leveled(blocks')
  BY DEF Read, Leveled, BlockWords
<1>7. Read(blocks') \o more = Done(at)
  <2>1. IsSeq(LineWords(lines, at)) /\ IsSeq(Read(blocks)) /\ IsSeq(Awaits) /\ IsSeq(ws) /\ IsSeq(more)
    BY <1>3, <1>4
  <2>2. Rejoins(ws, more, Awaits, LineWords(lines, at))
          => (Read(blocks) \o ws) \o more = (Read(blocks) \o Awaits) \o LineWords(lines, at)
    BY <2>1, Rejoined
  <2>3. Read(blocks) \o Awaits = Done(at - 1)
    BY DEF Reading, ReadTo
  <2> QED
    BY <1>4, <1>5, <2>2, <2>3
<1> QED
  BY <1>2, <1>5, <1>6, <1>7 DEF ReadTo

LEMMA ReadingLine ==
  ASSUME Reading
  PROVE  /\ LineOk(Line) /\ IsSeq(Text) /\ IsSeq(Line.words) /\ IsSeq(lines) /\ at \in Nat /\ at # 0 /\ Line = lines[at]
         /\ Line.k \in {"blank", "rule", "fixed", "end"} => Line.words = << >>
         /\ Line.k = "item" => Line.words # << >>
         /\ Line.k = "heading" => Line.n \in 1 .. 3
         /\ Line.k # "item" => Text = Line.words
<1>1. IsSeq(lines) /\ Len(lines) \in Nat /\ DOMAIN lines = 1 .. Len(lines)
  BY SeqIs DEF Reading, ParseOk, BodyLines
<1>2. LineOk(Line) /\ Line = lines[at] /\ at \in DOMAIN lines
  BY <1>1 DEF Reading, ParseOk, BodyLines, Line
<1>3. IsSeq(Text) /\ IsSeq(Line.words)
  BY <1>2, TextSeq
<1>4. Line.k # "item" => Text = Line.words
  BY DEF Text
<1> QED
  BY <1>1, <1>2, <1>3, <1>4 DEF Reading, Formed

LEMMA LineIs ==
  ASSUME Reading
  PROVE  LineWords(lines, at) = IF Hidden(lines, at) THEN << >> ELSE Text
<1>1. Line = lines[at] /\ IsSeq(Line.words)
  BY ReadingLine
<1>2. << >> \o Line.words = Line.words
  BY <1>1, JoinNone
<1> QED
  BY <1>1, <1>2 DEF LineWords, Text

LEMMA VerbatimRead ==
  ASSUME Reading, verb.on \/ Line.k = "fixed", Verbatim
  PROVE  ReadTo'
<1>0. /\ IsSeq(lines) /\ Line = lines[at] /\ IsSeq(Text) /\ at \in Nat /\ at # 0 /\ Sane(lines) /\ at \in 1 .. Len(lines) /\ ParseOk
      /\ Line.k \in {"blank", "rule", "fixed", "end"} => Text = << >>
  BY ReadingLine DEF Reading
<1>1. /\ ~InComment(at - 1) /\ Line.k \notin {"open", "comment"}
      /\ pend = pend /\ (verb.on => pend = Nothing) /\ table = << >>
  <2>1. CASE verb.on
    <3>1. InFixed(at - 1) /\ ~InComment(at - 1) /\ pend = Nothing /\ table = << >>
      BY <2>1 DEF Reading, ReadTo
    <3>2. at \in 1 .. Len(lines) + 1
      BY <1>0, SeqIs
    <3> QED
      BY <1>0, <3>1, <3>2, FixedIs
  <2>2. CASE ~verb.on
    BY <1>0, <2>2, FixedApart DEF Reading, ReadTo
  <2> QED
    BY <2>1, <2>2
<1>2. LineWords(lines, at) = Text
  BY <1>0, <1>1, HiddenAt, LineIs
<1>3. ~InComment(at) /\ ~commented /\ commented' = commented /\ table' = << >>
  BY <1>0, <1>1, CommentOn DEF Verbatim, Reading, ReadTo
<1>4. Wordy(blocks) /\ IsSeq(verb.words) /\ IsSeq(Awaits) /\ PendOk(pend)
  BY <1>0, AwaitsSeq
<1>5. pend' = Nothing
  BY <1>1 DEF Verbatim
<1>6. pend'.kind # "numbered" /\ pend'.kind # "heading" /\ Held(pend') = << >>
  BY <1>5, HeldNothing
<1>7. Awaits' = IF verb'.on THEN verb'.words ELSE << >>
  BY <1>3, <1>5, HeldNothing DEF Awaits, Held, BlockWords
<1>8. CASE verb.on /\ Line.k = "end"
  <2> DEFINE b == Block("fixed", verb.words, 0)
  <2>1. blocks' = Append(blocks, b) /\ verb' = Closed
    BY <1>8 DEF Verbatim
  <2>2. b.kind = "fixed" /\ b.words = verb.words /\ BlockWords(b) = verb.words
    BY <1>4, PlainBlock, BlockWordsAre
  <2> HIDE DEF b
  <2>3. Grown(blocks, blocks', verb.words)
    BY <1>4, <2>1, <2>2, GrownOne
  <2>4. verb'.on = FALSE /\ verb'.words = << >>
    BY <2>1 DEF Closed
  <2>5. Awaits' = << >> /\ Awaits = verb.words
    BY <1>7, <1>8, <2>4 DEF Awaits
  <2>6. Awaits \o LineWords(lines, at) = Awaits
    BY <1>0, <1>2, <1>4, <1>8, JoinNone
  <2>7. verb.words \o << >> = Awaits \o LineWords(lines, at)
    BY <1>4, <2>5, <2>6, JoinNone
  <2> QED
    BY <1>3, <1>4, <1>6, <2>3, <2>4, <2>5, <2>7, NoneSeq, ReadOn DEF Rejoins
<1>9. CASE verb.on /\ Line.k # "end"
  <2> DEFINE w == verb.words \o Text
  <2>1. verb' = [verb EXCEPT !.words = w] /\ blocks' = blocks
    BY <1>9 DEF Verbatim
  <2>2. verb = [on |-> verb.on, words |-> verb.words]
    BY <1>0 DEF ParseOk
  <2>3. IsSeq(w)
    BY <1>0, <1>4, Joined
  <2> HIDE DEF w
  <2>4. verb' = [on |-> verb.on, words |-> w]
    BY <2>1, <2>2
  <2>5. verb'.on /\ verb'.words = w
    BY <1>9, <2>4
  <2>6. Awaits' = w /\ Awaits = verb.words
    BY <1>7, <1>9, <2>5 DEF Awaits
  <2>7. InFixed(at)
    BY <1>0, <1>9, FixedOn DEF Reading, ReadTo
  <2>8. << >> \o w = Awaits \o LineWords(lines, at)
    BY <1>2, <2>3, <2>6, JoinNone DEF w
  <2>9. Grown(blocks, blocks', << >>)
    BY <1>4, <2>1, GrownNone
  <2> QED
    BY <1>3, <1>5, <1>6, <2>3, <2>5, <2>6, <2>7, <2>8, <2>9, NoneSeq, ReadOn DEF Rejoins
<1>10. CASE ~verb.on
  <2>1. blocks' = Flushed(blocks) /\ verb' = [Closed EXCEPT !.on = TRUE] /\ Line.k = "fixed"
    BY <1>10 DEF Verbatim
  <2>2. verb' = [on |-> TRUE, words |-> << >>]
    BY <2>1 DEF Closed
  <2>3. verb'.on /\ verb'.words = << >>
    BY <2>2
  <2>4. Awaits' = << >> /\ Awaits = Held(pend)
    BY <1>1, <1>7, <1>10, <2>3 DEF Awaits
  <2>5. Grown(blocks, blocks', Held(pend))
    BY <1>4, <2>1, FlushedRead DEF Reading, ReadTo
  <2>6. InFixed(at)
    BY <1>0, <2>1, FixedOn
  <2>7. Held(pend) \o << >> = Awaits \o LineWords(lines, at)
    BY <1>0, <1>2, <2>1, <2>4
  <2> QED
    BY <1>3, <1>4, <1>5, <1>6, <2>3, <2>4, <2>5, <2>6, <2>7, NoneSeq, ReadOn DEF Rejoins
<1> QED
  BY <1>8, <1>9, <1>10

LEMMA CommentRead ==
  ASSUME Reading, ~verb.on, Comment
  PROVE  ReadTo'
<1>0. /\ IsSeq(lines) /\ Line = lines[at] /\ at \in Nat /\ at # 0 /\ Sane(lines) /\ at \in 1 .. Len(lines) /\ ParseOk
  BY ReadingLine DEF Reading
<1>1. /\ (commented \/ Line.k = "open") /\ (commented' <=> Line.k # "close")
      /\ pend' = pend /\ table' = table /\ verb' = verb /\ blocks' = blocks
  BY DEF Comment
<1>2. InComment(at - 1) \/ Line.k = "open"
  BY DEF Comment, Reading, ReadTo
<1>3. Hidden(lines, at) /\ (InComment(at) <=> Line.k # "close")
  BY <1>0, <1>2, HiddenAt, CommentOn
<1>4. LineWords(lines, at) = << >>
  BY <1>3, LineIs
<1>5. IsSeq(Awaits) /\ Wordy(blocks)
  BY <1>0, AwaitsSeq
<1>6. Awaits' = Awaits
  BY <1>1 DEF Awaits, Held, BlockWords
<1>7. << >> \o Awaits = Awaits \o LineWords(lines, at) /\ Grown(blocks, blocks', << >>)
  BY <1>1, <1>4, <1>5, JoinNone, GrownNone
<1>8. table' # << >> => pend' = Nothing /\ OfTable(at)
  <2>1. OfTable(at - 1) => OfTable(at)
    BY <1>0, <1>3, TableOn DEF Tabular
  <2> QED
    BY <1>1, <2>1 DEF Reading, ReadTo
<1>9. ~verb'.on /\ verb'.words = << >> /\ (pend'.kind = "numbered" => pend'.words # << >>) /\ pend'.kind # "heading"
  BY <1>1 DEF Reading, ReadTo
<1>10. commented' <=> InComment(at)
  BY <1>3 DEF Comment
<1> QED
  BY <1>5, <1>6, <1>7, <1>8, <1>9, <1>10, NoneSeq, ReadOn DEF Rejoins

LEMMA RowRead ==
  ASSUME Reading, ~verb.on, ~commented, Line.k # "open", Row
  PROVE  ReadTo'
<1>0. /\ IsSeq(lines) /\ Line = lines[at] /\ at \in Nat /\ at # 0 /\ Sane(lines) /\ at \in 1 .. Len(lines) /\ ParseOk
      /\ IsSeq(Line.words) /\ (Line.k = "rule" => Line.words = << >>) /\ (Line.k # "item" => Text = Line.words)
  BY ReadingLine DEF Reading
<1>1. Line.k = "row" \/ (Line.k = "rule" /\ table # << >>)
  BY DEF Row, InTable
<1>2. ~InComment(at - 1) /\ ~InComment(at) /\ ~Hidden(lines, at)
  BY <1>0, <1>1, HiddenAt, CommentOn DEF Reading, ReadTo
<1>3. LineWords(lines, at) = Line.words
  BY <1>0, <1>1, <1>2, LineIs
<1>4. IsSeq(Awaits) /\ Wordy(blocks) /\ IsSeq(table) /\ PendOk(pend)
  BY <1>0, AwaitsSeq
<1>5. /\ verb' = verb /\ commented' = commented
      /\ table' = IF Line.k = "row" THEN table \o Line.words ELSE table
      /\ pend' = (IF table = << >> THEN Nothing ELSE pend) /\ blocks' = IF table = << >> THEN Flushed(blocks) ELSE blocks
  BY DEF Row
<1>6. pend' = Nothing
  BY <1>5 DEF Reading, ReadTo
<1>7. table' = table \o Line.words
  BY <1>0, <1>1, <1>4, <1>5, JoinNone
<1>8. IsSeq(table')
  BY <1>0, <1>4, <1>7, Joined
<1>9. ~verb'.on /\ verb'.words = << >> /\ pend'.kind # "numbered" /\ pend'.kind # "heading" /\ Held(pend') = << >>
  BY <1>5, <1>6, HeldNothing DEF Reading, ReadTo
<1>10. Awaits' = table'
  BY <1>6, <1>9, HeldNothing DEF Awaits, Held, BlockWords
<1>11. OfTable(at)
  <2>1. CASE Line.k = "row"
    BY <1>0, <2>1, TableBegins
  <2>2. CASE Line.k # "row"
    BY <1>0, <1>1, <2>2, TableOn DEF Tabular, Reading, ReadTo
  <2> QED
    BY <2>1, <2>2
<1>12. \E ws : IsSeq(ws) /\ Grown(blocks, blocks', ws) /\ ws \o table' = Awaits \o Line.words
  <2>1. CASE table = << >>
    <3>1. Awaits = Held(pend) /\ table' = Line.words
      BY <1>0, <1>7, <2>1, JoinNone DEF Awaits
    <3>2. Grown(blocks, blocks', Held(pend))
      BY <1>4, <1>5, <2>1, FlushedRead DEF Reading, ReadTo
    <3> QED
      BY <1>4, <3>1, <3>2
  <2>2. CASE table # << >>
    <3>1. Awaits = table /\ Grown(blocks, blocks', << >>)
      BY <1>4, <1>5, <2>2, GrownNone DEF Awaits
    <3>2. << >> \o table' = Awaits \o Line.words
      BY <1>7, <1>8, <3>1, JoinNone
    <3> QED
      BY <3>1, <3>2, NoneSeq
  <2> QED
    BY <2>1, <2>2
<1>13. PICK ws : IsSeq(ws) /\ Grown(blocks, blocks', ws) /\ ws \o table' = Awaits \o Line.words
  BY <1>12
<1>14. commented' <=> InComment(at)
  BY <1>2, <1>5
<1> QED
  BY <1>3, <1>6, <1>8, <1>9, <1>10, <1>11, <1>13, <1>14, ReadOn DEF Rejoins

\* An item or a paragraph that goes on, and what it holds.
GoesOn(p, ws, q) ==
  /\ p = [kind |-> p.kind, words |-> p.words, n |-> p.n] /\ IsSeq(p.words) /\ (p.kind = "numbered" => p.words # << >>)
  /\ q = [p EXCEPT !.words = p.words \o ws]

LEMMA HeldMore ==
  ASSUME NEW p, NEW ws, IsSeq(ws), NEW q, GoesOn(p, ws, q)
  PROVE  /\ Held(q) = Held(p) \o ws /\ q.kind = p.kind /\ q.words = p.words \o ws
         /\ q.kind = "numbered" => q.words # << >>
<1> DEFINE w == p.words \o ws
<1>0. IsSeq(p.words) /\ (p.kind = "numbered" => p.words # << >>)
  BY DEF GoesOn
<1>1. IsSeq(w) /\ Len(w) = Len(p.words) + Len(ws)
  BY <1>0, Joined
<1>2. q = [p EXCEPT !.words = w] /\ p = [kind |-> p.kind, words |-> p.words, n |-> p.n]
  BY DEF GoesOn
<1>3. p.words # << >> => w # << >>
  <2>1. Len(p.words) \in Nat /\ p.words = [i \in 1 .. Len(p.words) |-> p.words[i]] /\ Len(ws) \in Nat
    BY <1>0, SeqIs
  <2>2. Len(p.words) = 0 => p.words = << >>
    BY <2>1
  <2>3. w = << >> => Len(w) = 0
    BY NoneSeq
  <2> HIDE DEF w
  <2> QED
    BY <1>1, <2>1, <2>2, <2>3
<1>4. p.words = << >> => w = ws
  BY JoinNone
<1>5. << >> \o w = w /\ << >> \o p.words = p.words /\ << >> \o ws = ws
  BY <1>0, <1>1, JoinNone
<1>6. (<<Num[p.n]>> \o p.words) \o ws = <<Num[p.n]>> \o w
  <2> DEFINE v == <<Num[p.n]>>
             u == p.words
  <2>1. IsSeq(v) /\ IsSeq(u)
    BY <1>0, OneSeq
  <2> HIDE DEF v, u
  <2>2. (v \o u) \o ws = v \o (u \o ws)
    BY <2>1, JoinAssoc
  <2> QED
    BY <2>2 DEF v, u
<1> HIDE DEF w
<1>7. q = [kind |-> p.kind, words |-> w, n |-> p.n]
  BY <1>2
<1>8. q.kind = p.kind /\ q.words = w /\ q.n = p.n
  BY <1>7
<1>9. CASE p.words = << >>
  <2>1. Held(p) = << >> /\ p.kind # "numbered"
    BY <1>0, <1>9 DEF Held
  <2>2. BlockWords(q) = w
    BY <1>5, <1>8, <2>1 DEF BlockWords
  <2>3. Held(q) = w
    BY <1>8, <2>2 DEF Held
  <2> QED
    BY <1>4, <1>5, <1>8, <1>9, <2>1, <2>3 DEF w
<1>10. CASE p.words # << >>
  <2>1. Held(p) = BlockWords(p) /\ Held(q) = BlockWords(q)
    BY <1>3, <1>8, <1>10 DEF Held
  <2>2. CASE p.kind = "numbered"
    <3>1. BlockWords(p) = <<Num[p.n]>> \o p.words /\ BlockWords(q) = <<Num[p.n]>> \o w
      BY <1>8, <2>2 DEF BlockWords
    <3> QED
      BY <1>3, <1>6, <1>8, <1>10, <2>1, <3>1 DEF w
  <2>3. CASE p.kind # "numbered"
    <3>1. BlockWords(p) = p.words /\ BlockWords(q) = w
      BY <1>5, <1>8, <2>3 DEF BlockWords
    <3> QED
      BY <1>3, <1>8, <1>10, <2>1, <2>3, <3>1 DEF w
  <2> QED
    BY <2>2, <2>3
<1> QED
  BY <1>9, <1>10

\* What begins with a line holds its text, unless it is a block of its own.
LEMMA StartsRead ==
  ASSUME LineOk(Line), Line.k = "item" => Line.words # << >>
  PROVE  /\ Held(Starts) = IF Line.k \in {"blank", "comment", "heading", "macro"} THEN << >> ELSE Text
         /\ Starts.kind = "numbered" => Starts.words # << >>
         /\ Starts.kind # "heading" /\ (Starts.kind \in {"paragraph", "quote"} => Line.k \notin {"comment", "heading", "macro"})
<1>1. IsSeq(Text) /\ IsSeq(Line.words) /\ (Line.k # "item" => Text = Line.words)
  BY TextSeq DEF Text
<1>2. ASSUME NEW kind, kind # "numbered", NEW ws, IsSeq(ws), NEW n
      PROVE  Held(Block(kind, ws, n)) = ws /\ Block(kind, ws, n).kind = kind
  <2>1. Block(kind, ws, n).words = ws /\ BlockWords(Block(kind, ws, n)) = ws /\ Block(kind, ws, n).kind = kind
    BY <1>2, PlainBlock, BlockWordsAre
  <2> QED
    BY <2>1 DEF Held
<1>3. CASE Line.k = "bullet" /\ ~Line.indent
  <2>1. Starts = Block("bullet", Line.words, 0)
    BY <1>3 DEF Starts
  <2> QED
    BY <1>1, <1>2, <1>3, <2>1
<1>4. CASE ~(Line.k = "bullet" /\ ~Line.indent) /\ Line.k = "item" /\ (letter \/ Tight(at))
  <2> DEFINE b == Block("numbered", Line.words, Line.n)
  <2>1. Starts = b
    BY <1>4 DEF Starts
  <2>2. b.kind = "numbered" /\ b.words = Line.words /\ b.n = Line.n
    BY DEF Block
  <2> HIDE DEF b
  <2>3. BlockWords(b) = Text
    BY <1>4, <2>2 DEF BlockWords, Text
  <2>4. Held(b) = Text
    BY <1>4, <2>2, <2>3 DEF Held
  <2> QED
    BY <1>4, <2>1, <2>2, <2>4
<1>5. CASE Line.k = "quote"
  <2>1. Starts = Block("quote", Line.words, 0)
    BY <1>5 DEF Starts
  <2> QED
    BY <1>1, <1>2, <1>5, <2>1
<1>6. CASE Line.k \in {"blank", "comment", "heading", "macro"}
  <2>1. Starts = Nothing
    BY <1>6 DEF Starts
  <2> QED
    BY <1>6, <2>1, HeldNothing
<1>7. CASE /\ ~(Line.k = "bullet" /\ ~Line.indent) /\ ~(Line.k = "item" /\ (letter \/ Tight(at)))
           /\ Line.k # "quote" /\ Line.k \notin {"blank", "comment", "heading", "macro"}
  <2>1. Starts = Block("paragraph", Text, 0)
    BY <1>7 DEF Starts
  <2> QED
    BY <1>1, <1>2, <1>7, <2>1
<1> QED
  BY <1>3, <1>4, <1>5, <1>6, <1>7

\* The words of a block that is one line.
Alone == IF Line.k \in {"heading", "macro"} THEN Line.words ELSE << >>

LEMMA WholeRead ==
  ASSUME LineOk(Line), Line.k = "heading" => Line.n \in 1 .. 3, NEW bs, Wordy(bs)
  PROVE  Grown(bs, bs \o Whole, Alone)
<1> DEFINE kind == IF Line.k = "heading" THEN "heading" ELSE Line.macro
           b == Block(kind, Line.words, Line.n)
<1>1. CASE Line.k \in {"heading", "macro"}
  <2>1. Whole = <<b>> /\ Alone = Line.words
    BY <1>1 DEF Whole, Alone
  <2>2. kind # "numbered" /\ (kind = "heading" => Line.k = "heading")
    BY <1>1 DEF LineOk, MacroOk, SignKinds
  <2>3. IsSeq(Line.words)
    BY TextSeq
  <2> HIDE DEF kind
  <2>4. b.kind = kind /\ b.n = Line.n /\ BlockWords(b) = Line.words /\ b.words = Line.words
    BY <2>2, <2>3, PlainBlock, BlockWordsAre
  <2> HIDE DEF b
  <2>5. bs \o <<b>> = Append(bs, b)
    BY JoinOne DEF Wordy
  <2>6. Grown(bs, Append(bs, b), BlockWords(b))
    BY <2>2, <2>3, <2>4, GrownOne
  <2> QED
    BY <2>1, <2>4, <2>5, <2>6
<1>2. CASE Line.k \notin {"heading", "macro"}
  <2>1. Whole = << >> /\ Alone = << >>
    BY <1>2 DEF Whole, Alone
  <2>2. bs \o << >> = bs
    BY JoinNone DEF Wordy
  <2> QED
    BY <2>1, <2>2, GrownNone
<1> QED
  BY <1>1, <1>2

LEMMA ReadLineRead ==
  ASSUME Reading, ~verb.on, ~commented, Line.k # "open", Line.k # "fixed", ReadLine
  PROVE  ReadTo'
<1>0. /\ LineOk(Line) /\ IsSeq(lines) /\ Line = lines[at] /\ at \in Nat /\ at # 0 /\ Sane(lines) /\ at \in 1 .. Len(lines) /\ ParseOk
      /\ IsSeq(Line.words) /\ IsSeq(Text) /\ (Line.k = "blank" => Text = << >>) /\ (Line.k = "item" => Line.words # << >>)
      /\ (Line.k = "heading" => Line.n \in 1 .. 3) /\ (Line.k # "item" => Text = Line.words)
  BY ReadingLine DEF Reading
<1>1. /\ IsSeq(Awaits) /\ Wordy(blocks) /\ IsSeq(table) /\ PendOk(pend)
      /\ verb.words = << >> /\ (table # << >> => pend = Nothing)
      /\ (pend.kind = "numbered" => pend.words # << >>) /\ pend.kind # "heading"
  BY <1>0, AwaitsSeq DEF Reading, ReadTo
<1>2. ~InComment(at - 1) /\ ~InComment(at) /\ (Hidden(lines, at) <=> Line.k = "comment")
  BY <1>0, HiddenAt, CommentOn DEF Reading, ReadTo
<1>3. LineWords(lines, at) = IF Line.k = "comment" THEN << >> ELSE Text
  BY <1>2, LineIs
<1>4. verb' = verb /\ commented' = commented /\ table' = << >> /\ Awaits' = Held(pend')
  <2>1. verb' = verb /\ commented' = commented /\ table' = << >>
    BY DEF ReadLine
  <2> QED
    BY <2>1 DEF Awaits, Held, BlockWords
<1>5. ~verb'.on /\ verb'.words = << >> /\ (commented' <=> InComment(at))
  BY <1>1, <1>2, <1>4
<1>6. CASE Joins
  <2>1. pend' = [pend EXCEPT !.words = @ \o Text] /\ blocks' = Tabled
    BY <1>6 DEF ReadLine
  <2>2. pend # Nothing /\ Line.k # "comment"
    <3>1. Nothing.kind = "none"
      BY HeldNothing
    <3>2. CASE Continues
      BY <3>1, <3>2 DEF Continues
    <3>3. CASE Starts.kind = pend.kind /\ Starts.kind \in {"paragraph", "quote"}
      BY <1>0, <3>1, <3>3, StartsRead
    <3> QED
      BY <1>6, <3>2, <3>3 DEF Joins
  <2>3. pend = [kind |-> pend.kind, words |-> pend.words, n |-> pend.n] /\ IsSeq(pend.words)
    BY <1>1, <2>2 DEF PendOk, BlockOk
  <2>4. GoesOn(pend, Text, pend')
    BY <1>1, <2>1, <2>3 DEF GoesOn
  <2>5. /\ Held(pend') = Held(pend) \o Text /\ pend'.kind = pend.kind /\ (pend'.kind = "numbered" => pend'.words # << >>)
    BY <1>0, <2>4, HeldMore
  <2>6. table = << >> /\ Awaits = Held(pend)
    BY <1>1, <2>2 DEF Awaits
  <2>7. Grown(blocks, blocks', << >>)
    BY <1>0, <2>1, <2>6, TabledRead
  <2>8. IsSeq(Held(pend) \o Text)
    BY <1>0, <1>1, <2>6, Joined
  <2>9. << >> \o Held(pend') = Awaits \o LineWords(lines, at)
    BY <1>3, <2>2, <2>5, <2>6, <2>8, JoinNone
  <2> QED
    BY <1>1, <1>4, <1>5, <2>5, <2>7, <2>8, <2>9, NoneSeq, ReadOn DEF Rejoins
<1>7. CASE ~Joins
  <2>1. pend' = Starts /\ blocks' = Settled \o Whole
    BY <1>7 DEF ReadLine
  <2>2. Grown(blocks, Settled, Awaits)
    BY <1>0, <1>1, SettledRead
  <2>3. Wordy(Settled)
    BY <2>2 DEF Grown
  <2>4. Grown(Settled, Settled \o Whole, Alone) /\ IsSeq(Alone)
    BY <1>0, <2>3, WholeRead, NoneSeq DEF Alone
  <2>5. Grown(blocks, blocks', Awaits \o Alone) /\ IsSeq(Awaits \o Alone)
    BY <1>1, <2>1, <2>2, <2>4, GrownMore, Joined
  <2>6. /\ Held(pend') = IF Line.k \in {"blank", "comment", "heading", "macro"} THEN << >> ELSE Text
        /\ (pend'.kind = "numbered" => pend'.words # << >>) /\ pend'.kind # "heading"
    <3>1. /\ Held(Starts) = IF Line.k \in {"blank", "comment", "heading", "macro"} THEN << >> ELSE Text
          /\ (Starts.kind = "numbered" => Starts.words # << >>) /\ Starts.kind # "heading"
      BY <1>0, StartsRead
    <3> QED
      BY <2>1, <3>1
  <2>7. IsSeq(Held(pend'))
    BY <1>0, <2>6, NoneSeq
  <2>8. (Awaits \o Alone) \o Held(pend') = Awaits \o LineWords(lines, at)
    <3>1. CASE Line.k \in {"heading", "macro"}
      <4>1. Held(pend') = << >> /\ Alone = Text /\ LineWords(lines, at) = Text
        BY <1>0, <1>3, <2>6, <3>1 DEF Alone
      <4> QED
        BY <2>5, <4>1, JoinNone
    <3>2. CASE Line.k \notin {"heading", "macro"}
      <4>1. Alone = << >> /\ Held(pend') = LineWords(lines, at)
        BY <1>0, <1>3, <2>6, <3>2 DEF Alone
      <4> QED
        BY <1>1, <4>1, JoinNone
    <3> QED
      BY <3>1, <3>2
  <2> QED
    BY <1>1, <1>4, <1>5, <2>5, <2>6, <2>7, <2>8, ReadOn DEF Rejoins
<1> QED
  BY <1>6, <1>7

\* One line is read as it should be.
LEMMA ParsedRead ==
  ASSUME ParseOk, ReadTo, Formed(lines), Sane(lines), ParseLine
  PROVE  ReadTo'
<1>1. IsSeq(lines) /\ Len(lines) \in Nat /\ at \in Nat \ {0}
  BY SeqIs DEF ParseOk, BodyLines
<1>2. Reading
  BY <1>1 DEF Reading, ParseLine
<1>3. CASE verb.on \/ Line.k = "fixed"
  BY <1>2, <1>3, VerbatimRead DEF ParseLine
<1>4. CASE ~(verb.on \/ Line.k = "fixed") /\ (commented \/ Line.k = "open")
  BY <1>2, <1>4, CommentRead DEF ParseLine
<1>5. CASE ~(verb.on \/ Line.k = "fixed") /\ ~(commented \/ Line.k = "open")
  BY <1>2, <1>5, RowRead, ReadLineRead DEF ParseLine
<1> QED
  BY <1>3, <1>4, <1>5

\* At the end nothing is awaited.
LEMMA EndRead ==
  ASSUME ParseOk, ReadTo, Sane(lines), ParseEnd
  PROVE  Read(blocks') = Done(Len(lines)) /\ Leveled(blocks')
<1>1. IsSeq(lines) /\ Len(lines) \in Nat /\ at = Len(lines) + 1 /\ blocks' = Settled /\ at - 1 = Len(lines)
  BY SeqIs DEF ParseOk, BodyLines, ParseEnd
<1>2. ~verb.on
  <2>1. ASSUME verb.on PROVE FALSE
    <3>1. InFixed(at - 1)
      BY <2>1 DEF ReadTo
    <3>2. at \in 1 .. Len(lines) + 1
      BY <1>1
    <3>3. at \in 1 .. Len(lines)
      BY <1>1, <3>1, <3>2, FixedIs
    <3> QED
      BY <1>1, <3>3
  <2> QED
    BY <2>1
<1>3. Grown(blocks, Settled, Awaits)
  BY <1>2, SettledRead DEF ReadTo
<1>4. Read(Settled) = Read(blocks) \o Awaits /\ Leveled(Settled)
  BY <1>3 DEF Grown, ReadTo
<1> QED
  BY <1>1, <1>4 DEF ReadTo

-----------------------------------------------------------------------------
(* OrderInv: the body is read from its first line to its last.             *)

\* A body in order is read to where the parser is, and then to its end.
OrderInv ==
  /\ stage = "parse" /\ Formed(lines) /\ Sane(lines) => ReadTo
  /\ stage = "lay" => BodyLines(lines)
  /\ stage = "lay" /\ Formed(lines) /\ Sane(lines) => Read(blocks) = Done(Len(lines)) /\ Leveled(blocks)

LEMMA OrderFirst ==
  ASSUME PleadInit
  PROVE  OrderInv
<1>1. stage = "idle"
  BY DEF PleadInit
<1> QED
  BY <1>1 DEF OrderInv

LEMMA OrderBegins ==
  ASSUME NEW body, AtRest(body)
  PROVE  ReadTo'
<1>1. /\ lines' = body /\ at' = 1 /\ pend' = Nothing /\ table' = << >> /\ verb' = Closed /\ commented' = FALSE
      /\ blocks' = << >>
  BY DEF AtRest
<1>2. Closed.on = FALSE /\ Closed.words = << >>
  BY DEF Closed
<1>3. Held(Nothing) = << >> /\ Nothing.kind = "none"
  BY HeldNothing
<1>4. Awaits' = << >>
  BY <1>1, <1>2, <1>3 DEF Awaits, Held, BlockWords
<1>5. Read(<< >>) = << >>
  BY ReadNone
<1>6. Done(at - 1)' = << >>
  <2>1. at' - 1 = 0
    BY <1>1
  <2>2. Done(0)' = << >>
    BY DoneNone DEF Done, FlattenSeq
  <2> QED
    BY <2>1, <2>2 DEF Done
<1>7. Read(blocks)' = << >>
  BY <1>1, <1>5 DEF Read
<1>8. Read(blocks)' \o Awaits' = Done(at - 1)'
  BY <1>4, <1>6, <1>7, NoneSeq, JoinNone
<1>9. Leveled(blocks)'
  BY <1>1, NoneSeq DEF Leveled
<1>10. ~(InComment(at - 1))'
  BY <1>1 DEF InComment
<1>11. /\ ~commented' /\ table' = << >> /\ ~verb'.on /\ verb'.words = << >> /\ pend'.kind = "none"
  BY <1>1, <1>2, <1>3
<1> QED
  BY <1>8, <1>9, <1>10, <1>11 DEF ReadTo

LEMMA OrderStep ==
  ASSUME LayInv, OrderInv, [PleadNext]_pleadVars
  PROVE  OrderInv'
<1>1. ASSUME NEW request \in Variants \cup {"none"}, NEW fin \in BOOLEAN, Begin(request, fin) PROVE OrderInv'
  <2>1. stage' \in {"fill", "parse"} /\ \E body : AtRest(body)
    BY <1>1 DEF Begin
  <2>2. ReadTo'
    BY <2>1, OrderBegins
  <2> QED
    BY <2>1, <2>2 DEF OrderInv
<1>2. CASE Parse
  <2>1. stage = "parse" /\ ParseOk /\ stage' = (IF at = Len(lines) + 1 THEN "lay" ELSE stage) /\ lines' = lines /\ IsSeq(lines)
        /\ BodyLines(lines)
    BY <1>2 DEF Parse, LayInv, ParseLine, ParseEnd, ParseOk, BodyLines
  <2>2. Len(lines) \in Nat /\ Len(lines)' = Len(lines)
    BY <2>1, SeqIs
  <2>3. CASE ParseLine
    <3>1. stage' = "parse"
      BY <2>1, <2>2, <2>3 DEF ParseLine
    <3>2. ASSUME Formed(lines)', Sane(lines)' PROVE ReadTo'
      <4>1. Formed(lines) /\ Sane(lines)
        BY <2>1, <3>2 DEF Formed, Sane, Hidden
      <4> QED
        BY <2>1, <2>3, <4>1, ParsedRead DEF OrderInv
    <3> QED
      BY <3>1, <3>2 DEF OrderInv
  <2>4. CASE ParseEnd
    <3>1. stage' = "lay" /\ BodyLines(lines)'
      BY <2>1, <2>4 DEF ParseEnd, BodyLines, LineOk, IsSeq
    <3>2. ASSUME Formed(lines)', Sane(lines)' PROVE Read(blocks)' = Done(Len(lines))' /\ Leveled(blocks)'
      <4>1. Formed(lines) /\ Sane(lines)
        BY <2>1, <3>2 DEF Formed, Sane, Hidden
      <4>2. Read(blocks') = Done(Len(lines)) /\ Leveled(blocks')
        BY <2>1, <2>4, <4>1, EndRead DEF OrderInv
      <4>3. Done(Len(lines))' = Done(Len(lines))
        BY <2>1, <2>2 DEF Done, LineWords, Hidden, FlattenSeq
      <4> QED
        BY <4>2, <4>3 DEF Read, Leveled
    <3> QED
      BY <3>1, <3>2 DEF OrderInv
  <2> QED
    BY <1>2, <2>3, <2>4 DEF Parse
<1>3. ASSUME UNCHANGED <<parseVars, stage>> PROVE OrderInv'
  <2>1. /\ lines' = lines /\ at' = at /\ pend' = pend /\ table' = table /\ verb' = verb /\ blocks' = blocks
        /\ commented' = commented /\ stage' = stage
    BY <1>3 DEF parseVars
  <2>2. ReadTo' <=> ReadTo
    BY <2>1 DEF ReadTo, Read, Awaits, Done, Held, BlockWords, LineWords, Hidden, Leveled, InComment, InFixed, OfTable, Tabular
  <2>3. (Read(blocks) = Done(Len(lines)) /\ Leveled(blocks))' <=> (Read(blocks) = Done(Len(lines)) /\ Leveled(blocks))
    BY <2>1 DEF Read, Done, BlockWords, LineWords, Hidden, Leveled
  <2>4. (Formed(lines) /\ Sane(lines))' <=> (Formed(lines) /\ Sane(lines))
    BY <2>1 DEF Formed, Sane, Hidden
  <2>5. BodyLines(lines)' <=> BodyLines(lines)
    BY <2>1 DEF BodyLines
  <2> QED
    BY <2>1, <2>2, <2>3, <2>4, <2>5 DEF OrderInv
<1>4. CASE Lay
  <2>1. stage = "lay" /\ stage' \in {"lay", "merge"} /\ UNCHANGED parseVars
    BY <1>4 DEF Lay
  <2>2. CASE stage' = "lay"
    BY <1>3, <2>1, <2>2
  <2>3. CASE stage' = "merge"
    BY <2>3 DEF OrderInv
  <2> QED
    BY <2>1, <2>2, <2>3
<1>5. CASE Later
  <2>1. stage' \in Late
    BY <1>5 DEF Later, Late, Merge, Fill, WriteKey, Prepend, Notices, StampPacket, StampNotices, WriteFields, WriteLog
  <2> QED
    BY <2>1 DEF OrderInv, Late
<1>6. CASE Stop \/ Edit
  <2>1. stage' = "idle"
    BY <1>6 DEF Stop, Edit
  <2> QED
    BY <2>1 DEF OrderInv
<1>7. ASSUME NEW request, NEW fin, Export(request, fin) PROVE UNCHANGED <<parseVars, stage>>
  BY <1>7 DEF Export
<1>8. UNCHANGED <<parseVars, layVars, srcVars, stage, disk>> => UNCHANGED <<parseVars, stage>>
  OBVIOUS
<1> QED
  BY <1>1, <1>2, <1>3, <1>4, <1>5, <1>6, <1>7, <1>8, StepAsks

\* A body is read from its first line to its last, and every word that is to
\* be drawn is in a block (OrderInv).
THEOREM BodyIsRead == PleadSpec => []OrderInv
<1>1. PleadInit => OrderInv
  BY OrderFirst
<1>2. LayInv /\ OrderInv /\ [PleadNext]_pleadVars => OrderInv'
  BY OrderStep
<1> QED
  BY <1>1, <1>2, LayHolds, PTL DEF PleadSpec

-----------------------------------------------------------------------------
(* The .docx of the same lines.                                            *)

\* A chunk that begins with a bullet is all bullets, unless it loses text.
LEMMA AllKept ==
  ASSUME NEW body, IsSeq(body), ~DocxLoses(body), NEW i \in 1 .. Len(body)
  PROVE  Kept(body, i)
<1> SUFFICES ASSUME NEW s \in 1 .. i, body[s].k = "bullet", \A j \in s .. i : ~Parts(body, j)
             PROVE  body[i].k = "bullet"
  BY DEF Kept
<1> DEFINE P == {j \in 0 .. i : j < s \/ body[j].k = "bullet"}
<1>1. 0 \in P
  OBVIOUS
<1>2. ASSUME NEW j \in 1 .. i, j - 1 \in P PROVE j \in P
  <2>1. CASE j <= s
    BY <2>1
  <2>2. CASE j > s
    <3>1. body[j - 1].k = "bullet" /\ j \in 2 .. Len(body) /\ j \in s .. i
      BY <1>2, <2>2, SeqIs
    <3>2. body[j].k \in {"bullet", "blank", "fixed"} /\ ~Parts(body, j)
      BY <3>1 DEF DocxLoses
    <3> QED
      BY <3>2 DEF Parts
  <2> QED
    BY <2>1, <2>2
<1> HIDE DEF P
<1>3. i \in Nat /\ i \in 0 .. i
  OBVIOUS
<1>4. i \in P
  BY <1>1, <1>2, <1>3, Induct
<1> QED
  BY <1>4 DEF P

LEMMA DocxReads ==
  ASSUME BodyLines(lines), ~DocxLoses(lines)
  PROVE  DocxWords(lines) = Done(Len(lines))
<1> DEFINE n == Len(lines)
<1>1. n \in Nat /\ IsSeq(lines) /\ \A i \in 1 .. n : IsSeq(lines[i].words)
  BY SeqIs DEF BodyLines, LineOk
<1>2. PICK f : DocxFrom(lines, n, f) /\ DocxWords(lines) = f[n]
  BY <1>1, DocxWordsIs
<1>3. f[0] = << >> /\ \A i \in 1 .. n : f[i] = DocxLine(lines, f[i - 1], i)
  BY <1>1, <1>2 DEF DocxFrom
<1> DEFINE P == {i \in 0 .. n : f[i] = Done(i)}
<1>4. 0 \in P
  BY <1>1, <1>3, DoneNone
<1>5. ASSUME NEW i \in 1 .. n, i - 1 \in P PROVE i \in P
  <2> DEFINE w == Done(i - 1)  v == NumText(lines, i)  u == lines[i].words
  <2>1. Kept(lines, i)
    BY <1>1, AllKept
  <2>2. IsSeq(w) /\ Done(i) = w \o LineWords(lines, i)
    BY DoneMore
  <2>3. IsSeq(v) /\ IsSeq(u)
    BY <1>1, OneSeq, NoneSeq DEF NumText
  <2>4. f[i] = DocxLine(lines, w, i)
    BY <1>3, <1>5
  <2>5. LineWords(lines, i) = IF Hidden(lines, i) THEN << >> ELSE v \o u
    BY DEF LineWords, NumText
  <2>6. f[i] = IF Hidden(lines, i) THEN w ELSE (w \o v) \o u
    BY <2>1, <2>4 DEF DocxLine
  <2> HIDE DEF w, v, u
  <2>7. (w \o v) \o u = w \o (v \o u)
    BY <2>2, <2>3, JoinAssoc
  <2>8. w \o << >> = w
    BY <2>2, JoinNone
  <2>9. f[i] = Done(i)
    BY <2>2, <2>5, <2>6, <2>7, <2>8
  <2> QED
    BY <2>9
<1> HIDE DEF P
<1>6. n \in P
  BY <1>1, <1>4, <1>5, Induct
<1> QED
  BY <1>2, <1>6 DEF P

-----------------------------------------------------------------------------
(* A heading's number.                                                     *)

CountedAt(bs, c, i) == IF bs[i].kind = "heading" THEN Counted(c, bs[i].n) ELSE c
CountsTo(bs, n, f) == f = [i \in 0 .. n |-> IF i = 0 THEN <<0, 0, 0>> ELSE CountedAt(bs, f[i - 1], i)]

LEMMA CountsExist ==
  ASSUME NEW bs, NEW n \in Nat
  PROVE  \E f : CountsTo(bs, n, f)
<1> DEFINE P == {m \in 0 .. n : \E f : CountsTo(bs, m, f)}
<1>1. 0 \in P
  <2> DEFINE g == [k \in 0 .. 0 |-> <<0, 0, 0>>]
  <2>1. CountsTo(bs, 0, g)
    BY DEF CountsTo
  <2> QED
    BY <2>1
<1>2. ASSUME NEW m \in 1 .. n, m - 1 \in P PROVE m \in P
  <2>1. PICK f : CountsTo(bs, m - 1, f)
    BY <1>2
  <2> DEFINE g == [k \in 0 .. m |-> IF k = m THEN CountedAt(bs, f[m - 1], m) ELSE f[k]]
             Next1(h, k) == IF k = 0 THEN <<0, 0, 0>> ELSE CountedAt(bs, h[k - 1], k)
  <2>2. \A k \in 0 .. m - 1 : f[k] = Next1(f, k)
    BY <2>1 DEF CountsTo
  <2>3. \A k \in 0 .. m - 1 : g[k] = f[k]
    OBVIOUS
  <2>4. g[m] = Next1(f, m)
    OBVIOUS
  <2>5. ASSUME NEW k \in 0 .. m PROVE g[k] = Next1(g, k)
    <3>1. k # 0 => g[k - 1] = f[k - 1]
      BY <2>3
    <3>2. Next1(g, k) = Next1(f, k)
      <4> HIDE DEF g
      <4> QED
        BY <3>1
    <3>3. g[k] = Next1(f, k)
      <4>1. k = m \/ k \in 0 .. m - 1
        OBVIOUS
      <4> HIDE DEF g, Next1
      <4> QED
        BY <2>2, <2>3, <2>4, <4>1
    <3> HIDE DEF g, Next1
    <3> QED
      BY <3>2, <3>3
  <2>6. g = [k \in 0 .. m |-> g[k]]
    OBVIOUS
  <2> HIDE DEF g
  <2>7. CountsTo(bs, m, g)
    BY <2>5, <2>6 DEF CountsTo
  <2> QED
    BY <2>7
<1> HIDE DEF P
<1>3. \A i \in 0 .. n : i \in P
  BY <1>1, <1>2, Induct
<1>4. n \in P
  BY <1>3
<1> QED
  BY <1>4 DEF P

\* The headings of a level up to a block, since the last one above it.
Peers(bs, i, l) ==
  {c \in 1 .. i : bs[c].kind = "heading" /\ bs[c].n = l
     /\ \A m \in c .. i : bs[m].kind = "heading" => bs[m].n >= l}

LEMMA PeersMore ==
  ASSUME NEW bs, NEW i \in Nat, i # 0, bs[i].kind = "heading" => bs[i].n \in 1 .. 3, NEW l \in 1 .. 3
  PROVE  /\ bs[i].kind # "heading" => Peers(bs, i, l) = Peers(bs, i - 1, l)
         /\ bs[i].kind = "heading" =>
              /\ l < bs[i].n => Peers(bs, i, l) = Peers(bs, i - 1, l)
              /\ l = bs[i].n => Peers(bs, i, l) = Peers(bs, i - 1, l) \cup {i}
              /\ l > bs[i].n => Peers(bs, i, l) = {}
<1> DEFINE In(c, k) == bs[c].kind = "heading" /\ bs[c].n = l /\ \A m \in c .. k : bs[m].kind = "heading" => bs[m].n >= l
           Fits == bs[i].kind = "heading" => bs[i].n >= l
<1>1. ASSUME NEW c \in 1 .. i - 1 PROVE In(c, i) <=> In(c, i - 1) /\ Fits
  <2>1. \A m : m \in c .. i <=> m \in c .. i - 1 \/ m = i
    OBVIOUS
  <2> QED
    BY <2>1
<1>2. In(i, i) <=> bs[i].kind = "heading" /\ bs[i].n = l
  OBVIOUS
<1>3. \A c : c \in 1 .. i <=> c \in 1 .. i - 1 \/ c = i
  OBVIOUS
<1>4. Peers(bs, i, l) = {c \in 1 .. i : In(c, i)} /\ Peers(bs, i - 1, l) = {c \in 1 .. i - 1 : In(c, i - 1)}
  BY DEF Peers
<1> HIDE DEF In
<1>5. CASE bs[i].kind # "heading"
  BY <1>1, <1>2, <1>3, <1>4, <1>5
<1>6. CASE bs[i].kind = "heading" /\ l < bs[i].n
  BY <1>1, <1>2, <1>3, <1>4, <1>6
<1>7. CASE bs[i].kind = "heading" /\ l = bs[i].n
  BY <1>1, <1>2, <1>3, <1>4, <1>7
<1>8. CASE bs[i].kind = "heading" /\ l > bs[i].n
  BY <1>1, <1>2, <1>3, <1>4, <1>8
<1> QED
  BY <1>5, <1>6, <1>7, <1>8

LEMMA CountsAre ==
  ASSUME NEW bs, IsSeq(bs), Leveled(bs), NEW f, CountsTo(bs, Len(bs), f)
  PROVE  \A i \in 0 .. Len(bs) : \A l \in 1 .. 3 : f[i][l] = Cardinality(Peers(bs, i, l))
<1> DEFINE n == Len(bs)
           Right(i) == \A l \in 1 .. 3 : f[i][l] = Cardinality(Peers(bs, i, l))
           P == {i \in 0 .. n : Right(i)}
<1>1. n \in Nat /\ f[0] = <<0, 0, 0>> /\ \A i \in 1 .. n : f[i] = CountedAt(bs, f[i - 1], i)
  BY SeqIs DEF CountsTo
<1>2. 0 \in P
  <2>1. \A l \in 1 .. 3 : Cardinality(Peers(bs, 0, l)) = 0
    <3>1. \A l : Peers(bs, 0, l) = {}
      BY DEF Peers
    <3> QED
      BY <3>1, FS_EmptySet
  <2>2. \A l \in 1 .. 3 : <<0, 0, 0>>[l] = 0
    OBVIOUS
  <2>3. Right(0)
    BY <1>1, <2>1, <2>2
  <2> QED
    BY <1>1, <2>3
<1>3. ASSUME NEW i \in 1 .. n, i - 1 \in P PROVE i \in P
  <2>1. Right(i - 1) /\ f[i] = CountedAt(bs, f[i - 1], i)
    BY <1>1, <1>3
  <2>2. bs[i].kind = "heading" => bs[i].n \in 1 .. 3
    BY DEF Leveled
  <2>3. ASSUME NEW l \in 1 .. 3 PROVE f[i][l] = Cardinality(Peers(bs, i, l))
    <3>1. f[i - 1][l] = Cardinality(Peers(bs, i - 1, l))
      BY <2>1
    <3>2. IsFiniteSet(Peers(bs, i - 1, l)) /\ i \notin Peers(bs, i - 1, l)
      <4>1. Peers(bs, i - 1, l) \in SUBSET (1 .. i - 1) /\ IsFiniteSet(1 .. i - 1)
        BY FS_Interval DEF Peers
      <4> QED
        BY <4>1, FS_Subset
    <3>3. Cardinality(Peers(bs, i - 1, l) \cup {i}) = Cardinality(Peers(bs, i - 1, l)) + 1
      BY <3>2, FS_AddElement
    <3>4. /\ bs[i].kind # "heading" => Peers(bs, i, l) = Peers(bs, i - 1, l)
          /\ bs[i].kind = "heading" =>
               /\ l < bs[i].n => Peers(bs, i, l) = Peers(bs, i - 1, l)
               /\ l = bs[i].n => Peers(bs, i, l) = Peers(bs, i - 1, l) \cup {i}
               /\ l > bs[i].n => Peers(bs, i, l) = {}
      BY <2>2, PeersMore
    <3>5. CASE bs[i].kind # "heading"
      BY <2>1, <3>1, <3>4, <3>5 DEF CountedAt
    <3>6. CASE bs[i].kind = "heading"
      <4>1. f[i][l] = IF l < bs[i].n THEN f[i - 1][l] ELSE IF l = bs[i].n THEN f[i - 1][l] + 1 ELSE 0
        BY <2>1, <3>6 DEF CountedAt, Counted
      <4>2. l < bs[i].n \/ l = bs[i].n \/ l > bs[i].n
        BY <2>2, <3>6
      <4>3. Cardinality({}) = 0
        BY FS_EmptySet
      <4>4. CASE l < bs[i].n
        BY <3>1, <3>4, <3>6, <4>1, <4>4
      <4>5. CASE l = bs[i].n
        <5>1. f[i][l] = f[i - 1][l] + 1
          BY <2>2, <3>6, <4>1, <4>5
        <5> QED
          BY <3>1, <3>3, <3>4, <3>6, <4>5, <5>1
      <4>6. CASE l > bs[i].n
        <5>1. f[i][l] = 0
          BY <2>2, <3>6, <4>1, <4>6
        <5> QED
          BY <3>4, <3>6, <4>3, <4>6, <5>1
      <4> QED
        BY <4>2, <4>4, <4>5, <4>6
    <3> QED
      BY <3>5, <3>6
  <2> QED
    BY <2>3
<1> HIDE DEF P
<1>4. \A i \in 0 .. n : i \in P
  BY <1>1, <1>2, <1>3, Induct
<1> QED
  BY <1>4 DEF P

LEMMA NumbersAre ==
  ASSUME NEW bs, BlocksOk(bs), Leveled(bs), NEW b \in 1 .. Len(bs), bs[b].kind = "heading"
  PROVE  NumberHeadings(bs)[b].n = Cardinality(Peers(bs, b, bs[b].n))
<1> DEFINE f == CHOOSE g : CountsTo(bs, Len(bs), g)
<1>1. Len(bs) \in Nat /\ DOMAIN bs = 1 .. Len(bs) /\ IsSeq(bs) /\ BlockOk(bs[b]) /\ bs[b].n \in 1 .. 3
  BY SeqIs DEF BlocksOk, Leveled
<1>2. CountsTo(bs, Len(bs), f)
  BY <1>1, CountsExist
<1>3. NumberHeadings(bs) = [i \in DOMAIN bs |-> IF bs[i].kind = "heading" THEN [bs[i] EXCEPT !.n = f[i][bs[i].n]] ELSE bs[i]]
  BY DEF NumberHeadings, CountsTo, CountedAt
<1> HIDE DEF f
<1>4. f[b][bs[b].n] = Cardinality(Peers(bs, b, bs[b].n))
  BY <1>1, <1>2, CountsAre
<1> DEFINE e == bs[b]  m == NumberHeadings(bs)[b]  v == f[b][e.n]
<1>5. e = [kind |-> e.kind, words |-> e.words, n |-> e.n]
  BY <1>1 DEF BlockOk
<1>6. m = [e EXCEPT !.n = v]
  BY <1>1, <1>3
<1> HIDE DEF e, m, v
<1>7. m = [kind |-> e.kind, words |-> e.words, n |-> v]
  BY <1>5, <1>6
<1>8. m.n = v
  BY <1>7
<1> QED
  BY <1>4, <1>8 DEF e, m, v

LEMMA AllInOrder ==
  ASSUME LayInv, OrderInv
  PROVE  InOrder
<1> SUFFICES ASSUME stage = "lay", Formed(lines), Sane(lines)
             PROVE  /\ Read(blocks) = FlattenSeq([i \in DOMAIN lines |-> LineWords(lines, i)])
                    /\ DocxLoses(lines) \/ DocxWords(lines) = Read(blocks)
                    /\ \A b \in {b \in DOMAIN blocks : blocks[b].kind = "heading"} :
                         Numbered[b].n = Cardinality(Peers(blocks, b, blocks[b].n))
  BY DEF InOrder, Read, Peers
<1>1. BodyLines(lines) /\ Read(blocks) = Done(Len(lines)) /\ Leveled(blocks) /\ BlocksOk(blocks)
  BY DEF OrderInv, LayInv
<1>2. DOMAIN lines = 1 .. Len(lines) /\ DOMAIN blocks = 1 .. Len(blocks)
  BY <1>1, SeqIs DEF BodyLines, BlocksOk
<1>3. Done(Len(lines)) = FlattenSeq([i \in DOMAIN lines |-> LineWords(lines, i)])
  BY <1>2 DEF Done
<1>4. DocxLoses(lines) \/ DocxWords(lines) = Read(blocks)
  BY <1>1, DocxReads
<1>5. \A b \in {b \in DOMAIN blocks : blocks[b].kind = "heading"} :
        Numbered[b].n = Cardinality(Peers(blocks, b, blocks[b].n))
  BY <1>1, <1>2, NumbersAre DEF Numbered
<1> QED
  BY <1>1, <1>3, <1>4, <1>5

\* Whatever kinds of lines alternate, no word of a body in order is lost,
\* doubled or out of its place in the blocks, nor, unless a chunk mixes
\* bullets and text, in the .docx; and a heading's number is its place among
\* those of its level (InOrder).
THEOREM WordsInOrder == PleadSpec => []InOrder
<1>1. LayInv /\ OrderInv => InOrder
  BY AllInOrder
<1> QED
  BY <1>1, LayHolds, BodyIsRead, PTL

-----------------------------------------------------------------------------
(* What lists make, one after the other.                                   *)

\* What the first i of them make, and the first k places of one.
Upto(ss, i)  == FlattenSeq([j \in 1 .. i |-> ss[j]])
FirstOf(s, k) == [j \in 1 .. k |-> s[j]]

LEMMA FrontSeq ==
  ASSUME NEW s, NEW k \in Nat
  PROVE  IsSeq(FirstOf(s, k)) /\ Len(FirstOf(s, k)) = k /\ \A j \in 1 .. k : FirstOf(s, k)[j] = s[j]
<1> DEFINE f == FirstOf(s, k)
<1>1. f = [j \in 1 .. k |-> f[j]] /\ \A j \in 1 .. k : f[j] = s[j]
  BY DEF FirstOf
<1> HIDE DEF f
<1>2. IsSeq(f) /\ Len(f) = k
  BY <1>1, FcnSeq
<1> QED
  BY <1>1, <1>2 DEF f

LEMMA FrontAll ==
  ASSUME NEW s, IsSeq(s)
  PROVE  FirstOf(s, Len(s)) = s
  BY SeqIs DEF FirstOf

LEMMA FrontMore ==
  ASSUME NEW s, IsSeq(s), NEW a \in 0 .. Len(s), NEW b \in a .. Len(s)
  PROVE  FirstOf(s, a) \o SubSeq(s, a + 1, b) = FirstOf(s, b)
<1> DEFINE f == FirstOf(s, a)  c == SubSeq(s, a + 1, b)  g == FirstOf(s, b)
<1>1. Len(s) \in Nat
  BY SeqIs
<1>2. a \in Nat /\ b \in Nat /\ a <= b /\ a + 1 \in 1 .. Len(s) + 1 /\ b \in 0 .. Len(s)
  BY <1>1
<1>3. IsSeq(f) /\ Len(f) = a /\ \A j \in 1 .. a : f[j] = s[j]
  BY <1>2, FrontSeq
<1>4. IsSeq(g) /\ Len(g) = b /\ \A j \in 1 .. b : g[j] = s[j]
  BY <1>2, FrontSeq
<1>5. IsSeq(c)
  BY <1>2, CutSeq
<1>6. Len(c) = b - a /\ \A i \in 1 .. b - a : c[i] = s[a + i]
  <2>1. PICK S : s \in Seq(S)
    BY DEF IsSeq
  <2> QED
    BY <1>1, <1>2, <2>1
<1> HIDE DEF f, c, g
<1>7. IsSeq(f \o c) /\ Len(f \o c) = b
  BY <1>2, <1>3, <1>5, <1>6, Joined
<1>8. ASSUME NEW j \in 1 .. b PROVE (f \o c)[j] = g[j]
  <2>1. CASE j <= a
    BY <1>2, <1>3, <1>4, <1>5, <2>1, Joined
  <2>2. CASE j > a
    <3>1. j - a \in 1 .. b - a /\ a + (j - a) = j
      BY <1>2, <2>2
    <3>2. (f \o c)[Len(f) + (j - a)] = c[j - a]
      BY <1>3, <1>5, <1>6, <3>1, Joined
    <3>3. c[j - a] = s[a + (j - a)]
      BY <1>6, <3>1
    <3> QED
      BY <1>3, <1>4, <3>1, <3>2, <3>3
  <2>3. j <= a \/ j > a
    BY <1>2
  <2> QED
    BY <2>1, <2>2, <2>3
<1>9. f \o c = g
  BY <1>4, <1>7, <1>8, SeqEq
<1> QED
  BY <1>9 DEF f, c, g

LEMMA FrontSeqs ==
  ASSUME NEW ss, IsSeqs(ss), NEW i \in 0 .. Len(ss)
  PROVE  IsSeqs(FirstOf(ss, i))
<1>1. Len(ss) \in Nat
  BY SeqIs DEF IsSeqs
<1>2. i \in Nat /\ i <= Len(ss)
  BY <1>1
<1>3. IsSeq(FirstOf(ss, i)) /\ Len(FirstOf(ss, i)) = i /\ \A j \in 1 .. i : FirstOf(ss, i)[j] = ss[j]
  BY <1>2, FrontSeq
<1> QED
  BY <1>1, <1>2, <1>3 DEF IsSeqs

LEMMA UptoIs ==
  ASSUME NEW ss, IsSeqs(ss)
  PROVE  /\ Len(ss) \in Nat /\ Upto(ss, 0) = << >> /\ Upto(ss, Len(ss)) = FlattenSeq(ss)
         /\ \A i \in 1 .. Len(ss) : Upto(ss, i) = Upto(ss, i - 1) \o ss[i]
         /\ \A i \in 0 .. Len(ss) : IsSeq(Upto(ss, i))
<1>1. Len(ss) \in Nat /\ FirstOf(ss, Len(ss)) = ss
  BY FrontAll, SeqIs DEF IsSeqs
<1>2. Upto(ss, 0) = << >>
  BY FlatNone DEF Upto
<1>3. Upto(ss, Len(ss)) = FlattenSeq(ss)
  BY <1>1 DEF Upto, FirstOf
<1>4. ASSUME NEW i \in 0 .. Len(ss) PROVE IsSeq(Upto(ss, i))
  BY <1>4, FrontSeqs, Flattened DEF Upto, FirstOf
<1>5. ASSUME NEW i \in 1 .. Len(ss) PROVE Upto(ss, i) = Upto(ss, i - 1) \o ss[i]
  <2> DEFINE a == FirstOf(ss, i - 1)  b == FirstOf(ss, i)
  <2>1. i \in Nat /\ i - 1 \in Nat /\ i \in 0 .. Len(ss) /\ i - 1 \in 0 .. Len(ss)
    BY <1>1
  <2>2. IsSeqs(a) /\ IsSeqs(b)
    BY <2>1, FrontSeqs
  <2>3. Len(a) = i - 1 /\ Len(b) = i /\ (\A j \in 1 .. i - 1 : a[j] = ss[j]) /\ \A j \in 1 .. i : b[j] = ss[j]
    BY <2>1, FrontSeq
  <2>4. Upto(ss, i) = FlattenSeq(b) /\ Upto(ss, i - 1) = FlattenSeq(a)
    BY DEF Upto, FirstOf
  <2> HIDE DEF a, b
  <2>5. Len(b) = Len(a) + 1 /\ \A j \in 1 .. Len(a) : b[j] = a[j]
    BY <2>1, <2>3
  <2>6. FlattenSeq(b) = FlattenSeq(a) \o b[Len(b)]
    BY <2>2, <2>5, FlattenLast
  <2>7. b[Len(b)] = ss[i]
    BY <2>1, <2>3
  <2> QED
    BY <2>4, <2>6, <2>7
<1> QED
  BY <1>1, <1>2, <1>3, <1>4, <1>5

\* g says what the first of them make.
MadeOf(ss, g) == IsSeqs(ss) /\ g[0] = << >> /\ \A i \in 1 .. Len(ss) : g[i - 1] \o ss[i] = g[i]

LEMMA FlatBy ==
  ASSUME NEW ss, NEW g, MadeOf(ss, g)
  PROVE  FlattenSeq(ss) = g[Len(ss)]
<1> DEFINE n == Len(ss)
<1>6. n \in Nat /\ IsSeqs(ss) /\ g[0] = << >> /\ \A i \in 1 .. n : g[i - 1] \o ss[i] = g[i]
  BY SeqIs DEF MadeOf, IsSeqs
<1> DEFINE P == {i \in 0 .. n : Upto(ss, i) = g[i]}
<1>0. /\ Upto(ss, 0) = << >> /\ Upto(ss, n) = FlattenSeq(ss)
      /\ \A i \in 1 .. n : Upto(ss, i) = Upto(ss, i - 1) \o ss[i]
  BY <1>6, UptoIs
<1> HIDE DEF n
<1>1. 0 \in P
  BY <1>0, <1>6
<1>2. ASSUME NEW i \in 1 .. n, i - 1 \in P PROVE i \in P
  <2>1. Upto(ss, i) = Upto(ss, i - 1) \o ss[i] /\ Upto(ss, i - 1) = g[i - 1] /\ g[i - 1] \o ss[i] = g[i]
    BY <1>0, <1>2, <1>6
  <2>2. i \in 0 .. n
    BY <1>6
  <2> QED
    BY <2>1, <2>2
<1> HIDE DEF P
<1>3. \A i \in 0 .. n : i \in P
  BY <1>1, <1>2, <1>6, Induct
<1>4. n \in 0 .. n
  BY <1>6
<1>5. Upto(ss, n) = g[n]
  BY <1>3, <1>4 DEF P
<1> QED
  BY <1>0, <1>5 DEF n

LEMMA FlatOnes ==
  ASSUME NEW t, IsSeq(t), NEW ss, ss = [k \in 1 .. Len(t) |-> <<t[k]>>]
  PROVE  FlattenSeq(ss) = t
<1> DEFINE n == Len(t)  g == [i \in 0 .. n |-> FirstOf(t, i)]
<1>1. n \in Nat
  BY SeqIs
<1>2. IsSeq(ss) /\ Len(ss) = n /\ \A k \in 1 .. n : ss[k] = <<t[k]>>
  <2>1. ss = [k \in 1 .. n |-> ss[k]] /\ \A k \in 1 .. n : ss[k] = <<t[k]>>
    OBVIOUS
  <2> QED
    BY <1>1, <2>1, FcnSeq
<1>3. IsSeqs(ss)
  BY <1>2, OneSeq DEF IsSeqs
<1>4. \A i \in 0 .. n : g[i] = FirstOf(t, i)
  OBVIOUS
<1> HIDE DEF n, g
<1>5. g[0] = << >>
  <2>1. IsSeq(FirstOf(t, 0)) /\ Len(FirstOf(t, 0)) = 0
    BY FrontSeq
  <2>2. FirstOf(t, 0) = << >>
    BY <2>1, NoneSeq, SeqEq
  <2> QED
    BY <1>1, <1>4, <2>2
<1>6. ASSUME NEW i \in 1 .. n PROVE g[i - 1] \o ss[i] = g[i]
  <2>1. i - 1 \in 0 .. Len(t) /\ i \in i - 1 .. Len(t) /\ i \in 0 .. n /\ (i - 1) + 1 = i
    BY <1>1 DEF n
  <2>2. FirstOf(t, i - 1) \o SubSeq(t, (i - 1) + 1, i) = FirstOf(t, i)
    BY <2>1, FrontMore
  <2>3. SubSeq(t, i, i) = <<t[i]>>
    <3>1. IsSeq(SubSeq(t, i, i)) /\ Len(SubSeq(t, i, i)) = 1 /\ SubSeq(t, i, i)[1] = t[i]
      <4>1. i \in 1 .. Len(t) + 1 /\ i \in 0 .. Len(t) /\ i \in 1 .. Len(t)
        BY <1>1 DEF n
      <4>2. PICK S : t \in Seq(S)
        BY DEF IsSeq
      <4>3. Len(SubSeq(t, i, i)) = 1 /\ SubSeq(t, i, i)[1] = t[i]
        BY <4>1, <4>2
      <4> QED
        BY <4>1, <4>3, CutSeq
    <3>2. IsSeq(<<t[i]>>) /\ Len(<<t[i]>>) = 1 /\ <<t[i]>>[1] = t[i]
      BY OneSeq
    <3>3. \A k \in 1 .. 1 : k = 1
      OBVIOUS
    <3>4. \A k \in 1 .. Len(SubSeq(t, i, i)) : SubSeq(t, i, i)[k] = <<t[i]>>[k]
      BY <3>1, <3>2, <3>3
    <3> QED
      BY <3>1, <3>2, <3>4, SeqEq
  <2> QED
    BY <1>2, <1>4, <2>1, <2>2, <2>3 DEF n
<1>9. MadeOf(ss, g)
  BY <1>2, <1>3, <1>5, <1>6 DEF MadeOf
<1>7. FlattenSeq(ss) = g[n]
  BY <1>2, <1>9, FlatBy
<1>8. g[n] = t
  BY <1>1, <1>4, FrontAll DEF n
<1> QED
  BY <1>7, <1>8

\* A sequence cut in pieces and joined.
LEMMA FlatPieces ==
  ASSUME NEW s, IsSeq(s), NEW n \in Nat \ {0}, NEW ps, ArePieces(s, n, ps)
  PROVE  FlattenSeq(ps) = s
<1> DEFINE l == Len(s)  m == PieceCount(s, n)  end(i) == IF i * n <= l THEN i * n ELSE l
           g == [i \in 0 .. m |-> FirstOf(s, end(i))]
<1>1. l \in Nat /\ m \in Nat /\ IsSeqs(ps) /\ Len(ps) = m
  BY PieceWords, SeqIs
<1>2. /\ \A i \in 1 .. m : (i - 1) * n + 1 \in 1 .. l /\ Min({i * n, l}) \in (i - 1) * n + 1 .. l
      /\ \A k \in 1 .. l : \E i \in 1 .. m : k \in (i - 1) * n + 1 .. Min({i * n, l})
  BY <1>1, Pieces DEF PieceCount
<1>3. \A i \in 1 .. m : ps[i] = SubSeq(s, (i - 1) * n + 1, Min({i * n, l}))
  BY DEF ArePieces
<1>4. \A i \in 0 .. m : g[i] = FirstOf(s, end(i))
  OBVIOUS
<1>5. \A i \in 0 .. m : i * n \in Nat
  BY <1>1
<1>6. \A i \in 1 .. m : Min({i * n, l}) = end(i)
  <2> SUFFICES ASSUME NEW i \in 1 .. m PROVE Min({i * n, l}) = end(i)
    OBVIOUS
  <2> DEFINE x == i * n
  <2>1. x \in Nat
    BY <1>1
  <2> HIDE DEF x, l
  <2>2. Min({x, l}) \in {x, l} /\ Min({x, l}) <= x /\ Min({x, l}) <= l
    BY <1>1, <2>1, MinTwo
  <2>3. Min({x, l}) = IF x <= l THEN x ELSE l
    BY <1>1, <2>1, <2>2
  <2> QED
    BY <2>3 DEF x
<1> HIDE DEF m, g, l
<1>7. g[0] = << >>
  <2>1. end(0) = 0 /\ 0 \in 0 .. m
    BY <1>1
  <2>2. IsSeq(FirstOf(s, 0)) /\ Len(FirstOf(s, 0)) = 0
    BY FrontSeq
  <2>3. FirstOf(s, 0) = << >>
    BY <2>2, NoneSeq, SeqEq
  <2> QED
    BY <1>4, <2>1, <2>3
<1>8. ASSUME NEW i \in 1 .. m PROVE g[i - 1] \o ps[i] = g[i]
  <2> DEFINE a == (i - 1) * n  b == end(i)
  <2>1. i - 1 \in 0 .. m /\ i \in 0 .. m
    BY <1>1
  <2>2. a + 1 \in 1 .. l /\ b \in a + 1 .. l /\ a \in Nat
    BY <1>2, <1>5, <1>6, <2>1
  <2> HIDE DEF b
  <2>3. end(i - 1) = a
    BY <1>1, <2>2
  <2> HIDE DEF a, end
  <2>4. a \in 0 .. l /\ b \in a .. l
    BY <1>1, <2>2
  <2>5. FirstOf(s, a) \o SubSeq(s, a + 1, b) = FirstOf(s, b)
    BY <2>4, FrontMore DEF l
  <2>6. ps[i] = SubSeq(s, a + 1, b)
    BY <1>3, <1>6 DEF a, b
  <2> QED
    BY <1>4, <2>1, <2>3, <2>5, <2>6 DEF b
<1>12. MadeOf(ps, g)
  BY <1>1, <1>7, <1>8 DEF MadeOf
<1>9. FlattenSeq(ps) = g[m]
  BY <1>1, <1>12, FlatBy
<1>10. end(m) = l
  <2>1. CASE l = 0
    BY <1>1, <1>5, <2>1
  <2>2. CASE l # 0
    <3>1. l \in 1 .. l
      BY <1>1, <2>2
    <3>2. PICK i \in 1 .. m : l \in (i - 1) * n + 1 .. Min({i * n, l})
      BY <1>2, <3>1
    <3>8. i \in 0 .. m
      BY <1>1
    <3>7. Min({i * n, l}) = end(i) /\ (i - 1) * n + 1 \in Nat /\ i * n \in Nat
      BY <1>2, <1>5, <1>6, <3>8
    <3>3. end(i) = l
      BY <1>1, <3>2, <3>7
    <3>4. i \in Nat /\ i <= m
      BY <1>1
    <3>5. i * n <= m * n
      BY <1>1, <3>4, ProductGrows
    <3>6. i * n \in Nat /\ m * n \in Nat
      BY <1>1, <1>5
    <3> QED
      BY <1>1, <3>3, <3>5, <3>6
  <2> QED
    BY <2>1, <2>2
<1>11. m \in 0 .. m
  BY <1>1
<1> QED
  BY <1>4, <1>9, <1>10, <1>11, FrontAll DEF l

LEMMA FlatJoin ==
  ASSUME NEW a, IsSeqs(a), NEW b, IsSeqs(b)
  PROVE  IsSeqs(a \o b) /\ FlattenSeq(a \o b) = FlattenSeq(a) \o FlattenSeq(b)
<1> DEFINE l == Len(a)  m == Len(b)  x == FlattenSeq(a)
           g == [i \in 0 .. l + m |-> IF i <= l THEN Upto(a, i) ELSE x \o Upto(b, i - l)]
<1>1. IsSeq(a) /\ IsSeq(b) /\ l \in Nat /\ m \in Nat
  BY SeqIs DEF IsSeqs
<1>2. /\ IsSeq(a \o b) /\ Len(a \o b) = l + m
      /\ \A i \in 1 .. l : (a \o b)[i] = a[i]
      /\ \A i \in 1 .. m : (a \o b)[l + i] = b[i]
  BY <1>1, Joined
<1>3. /\ Upto(a, 0) = << >> /\ Upto(a, l) = x /\ \A i \in 1 .. l : Upto(a, i) = Upto(a, i - 1) \o a[i]
      /\ \A i \in 0 .. l : IsSeq(Upto(a, i))
  BY UptoIs
<1>4. /\ Upto(b, 0) = << >> /\ Upto(b, m) = FlattenSeq(b) /\ \A i \in 1 .. m : Upto(b, i) = Upto(b, i - 1) \o b[i]
      /\ \A i \in 0 .. m : IsSeq(Upto(b, i))
  BY UptoIs
<1>5. IsSeq(x)
  BY Flattened
<1>6. IsSeqs(a \o b)
  <2>1. ASSUME NEW i \in 1 .. l + m PROVE IsSeq((a \o b)[i])
    <3>1. i \in 1 .. l \/ (i - l \in 1 .. m /\ l + (i - l) = i)
      BY <1>1, Halves
    <3>2. \A k \in 1 .. l : IsSeq(a[k])
      BY DEF IsSeqs
    <3>3. \A k \in 1 .. m : IsSeq(b[k])
      BY DEF IsSeqs
    <3>4. CASE i \in 1 .. l
      BY <1>2, <3>2, <3>4
    <3>5. CASE i - l \in 1 .. m /\ l + (i - l) = i
      <4>1. (a \o b)[l + (i - l)] = b[i - l]
        BY <1>2, <3>5
      <4> QED
        BY <3>3, <3>5, <4>1
    <3> QED
      BY <3>1, <3>4, <3>5
  <2> QED
    BY <1>2, <2>1 DEF IsSeqs
<1>7. \A i \in 0 .. l + m : g[i] = IF i <= l THEN Upto(a, i) ELSE x \o Upto(b, i - l)
  OBVIOUS
<1>8. \A i \in 0 .. m : g[l + i] = x \o Upto(b, i)
  <2> SUFFICES ASSUME NEW i \in 0 .. m PROVE g[l + i] = x \o Upto(b, i)
    OBVIOUS
  <2>1. l + i \in 0 .. l + m /\ (l + i) - l = i /\ (l + i <= l => i = 0)
    BY <1>1
  <2>2. CASE i = 0
    <3>1. l + i = l /\ l \in 0 .. l + m /\ l <= l
      BY <1>1, <2>2
    <3>2. g[l] = x
      BY <1>3, <1>7, <3>1
    <3>3. x \o << >> = x
      BY <1>5, JoinNone
    <3> QED
      BY <1>4, <2>2, <3>1, <3>2, <3>3
  <2>3. CASE i # 0
    <3>1. ~(l + i <= l)
      BY <2>1, <2>3
    <3>2. g[l + i] = x \o Upto(b, (l + i) - l)
      BY <1>7, <2>1, <3>1
    <3> QED
      BY <2>1, <3>2
  <2> QED
    BY <2>2, <2>3
<1> HIDE DEF g, x
<1>9. g[0] = << >>
  BY <1>1, <1>3, <1>7
<1>10. ASSUME NEW i \in 1 .. l + m PROVE g[i - 1] \o (a \o b)[i] = g[i]
  <2>1. i \in 1 .. l \/ (i - l \in 1 .. m /\ l + (i - l) = i)
    BY <1>1, Halves
  <2>2. CASE i \in 1 .. l
    <3>1. i - 1 \in 0 .. l + m /\ i - 1 <= l /\ i \in 0 .. l + m /\ i <= l
      BY <1>1, <2>2
    <3>2. g[i - 1] = Upto(a, i - 1) /\ g[i] = Upto(a, i)
      BY <1>7, <3>1
    <3> QED
      BY <1>2, <1>3, <2>2, <3>2
  <2>3. CASE i - l \in 1 .. m /\ l + (i - l) = i
    <3> DEFINE k == i - l
    <3>1. k \in 1 .. m /\ l + k = i /\ k - 1 \in 0 .. m /\ k \in 0 .. m /\ l + (k - 1) = i - 1
      BY <1>1, <2>3
    <3> HIDE DEF k
    <3>2. g[l + (k - 1)] = x \o Upto(b, k - 1) /\ g[l + k] = x \o Upto(b, k)
      BY <1>8, <3>1
    <3>3. (a \o b)[l + k] = b[k] /\ Upto(b, k) = Upto(b, k - 1) \o b[k]
      BY <1>2, <1>4, <3>1
    <3>4. IsSeq(Upto(b, k - 1)) /\ IsSeq(b[k])
      BY <1>4, <3>1 DEF IsSeqs
    <3> DEFINE u == Upto(b, k - 1)  y == b[k]
    <3>6. IsSeq(u) /\ IsSeq(y)
      BY <3>4
    <3> HIDE DEF u, y
    <3>5. (x \o u) \o y = x \o (u \o y)
      BY <1>5, <3>6, JoinAssoc
    <3> QED
      BY <3>1, <3>2, <3>3, <3>5 DEF u, y
  <2> QED
    BY <2>1, <2>2, <2>3
<1>11. MadeOf(a \o b, g)
  BY <1>2, <1>6, <1>9, <1>10 DEF MadeOf
<1>12. FlattenSeq(a \o b) = g[l + m]
  BY <1>2, <1>11, FlatBy
<1>13. g[l + m] = x \o FlattenSeq(b)
  <2>1. m \in 0 .. m
    BY <1>1
  <2> QED
    BY <1>4, <1>8, <2>1
<1> QED
  BY <1>6, <1>12, <1>13 DEF x

\* A sequence of sequences of sequences.
Deep(ss) == IsSeqs(ss) /\ \A k \in 1 .. Len(ss) : IsSeqs(ss[k])

LEMMA DeepFlat ==
  ASSUME NEW ss, Deep(ss)
  PROVE  IsSeqs(FlattenSeq(ss))
<1> DEFINE f == FlattenSeq(ss)
<1>1. IsSeqs(ss) /\ \A k \in 1 .. Len(ss) : IsSeqs(ss[k])
  BY DEF Deep
<1>2. IsSeq(f) /\ ToSet(f) = UNION {ToSet(ss[k]) : k \in 1 .. Len(ss)}
  BY <1>1, Flattened
<1> HIDE DEF f
<1>3. DOMAIN f = 1 .. Len(f)
  BY <1>2, SeqIs
<1>4. ASSUME NEW i \in 1 .. Len(f) PROVE IsSeq(f[i])
  <2>1. f[i] \in ToSet(f)
    BY <1>3, Zenon DEF ToSet
  <2>2. PICK k \in 1 .. Len(ss) : f[i] \in ToSet(ss[k])
    BY <1>2, <2>1, Zenon
  <2>3. IsSeqs(ss[k]) /\ DOMAIN ss[k] = 1 .. Len(ss[k])
    BY <1>1, SeqIs DEF IsSeqs
  <2>4. PICK j \in DOMAIN ss[k] : f[i] = ss[k][j]
    BY <2>2, Zenon DEF ToSet
  <2> QED
    BY <2>3, <2>4 DEF IsSeqs
<1> QED
  BY <1>2, <1>4 DEF IsSeqs, f

LEMMA FlatFlat ==
  ASSUME NEW ss, Deep(ss), NEW tt, Len(tt) = Len(ss), IsSeq(tt), \A k \in 1 .. Len(ss) : tt[k] = FlattenSeq(ss[k])
  PROVE  FlattenSeq(tt) = FlattenSeq(FlattenSeq(ss))
<1> DEFINE n == Len(ss)  g == [i \in 0 .. n |-> FlattenSeq(Upto(ss, i))]
<1>1. IsSeqs(ss) /\ n \in Nat /\ \A k \in 1 .. n : IsSeqs(ss[k])
  BY SeqIs DEF Deep, IsSeqs
<1>2. IsSeqs(tt)
  <2>1. \A k \in 1 .. n : IsSeq(tt[k])
    BY <1>1, Flattened
  <2> QED
    BY <2>1 DEF IsSeqs
<1>3. /\ Upto(ss, 0) = << >> /\ Upto(ss, n) = FlattenSeq(ss) /\ \A i \in 1 .. n : Upto(ss, i) = Upto(ss, i - 1) \o ss[i]
  BY <1>1, UptoIs
<1>4. \A i \in 0 .. n : g[i] = FlattenSeq(Upto(ss, i))
  OBVIOUS
<1> HIDE DEF g
<1>5. ASSUME NEW i \in 0 .. n PROVE IsSeqs(Upto(ss, i))
  <2>1. i \in Nat /\ i <= n
    BY <1>1
  <2>2. IsSeqs(FirstOf(ss, i)) /\ Len(FirstOf(ss, i)) = i /\ \A j \in 1 .. i : FirstOf(ss, i)[j] = ss[j]
    BY <1>1, <2>1, FrontSeq, FrontSeqs
  <2>3. Deep(FirstOf(ss, i))
    BY <1>1, <2>1, <2>2 DEF Deep
  <2> QED
    BY <2>3, DeepFlat DEF Upto, FirstOf
<1>6. g[0] = << >>
  <2>1. FlattenSeq(<< >>) = << >>
    <3>1. Upto(<< >>, 0) = << >> /\ Upto(<< >>, 0) = FlattenSeq(<< >>)
      <4>1. IsSeqs(<< >>) /\ Len(<< >>) = 0
        BY NoneSeq DEF IsSeqs
      <4> QED
        BY <4>1, UptoIs
    <3> QED
      BY <3>1
  <2>2. 0 \in 0 .. n
    BY <1>1
  <2> QED
    BY <1>3, <1>4, <2>1, <2>2
<1>7. ASSUME NEW i \in 1 .. n PROVE g[i - 1] \o tt[i] = g[i]
  <2>1. i - 1 \in 0 .. n /\ i \in 0 .. n
    BY <1>1
  <2>2. IsSeqs(Upto(ss, i - 1)) /\ IsSeqs(ss[i])
    BY <1>1, <1>5, <2>1
  <2>3. FlattenSeq(Upto(ss, i - 1) \o ss[i]) = FlattenSeq(Upto(ss, i - 1)) \o FlattenSeq(ss[i])
    BY <2>2, FlatJoin
  <2> QED
    BY <1>3, <1>4, <2>1, <2>3
<1>8. MadeOf(tt, g)
  BY <1>2, <1>6, <1>7 DEF MadeOf
<1>9. FlattenSeq(tt) = g[n]
  BY <1>8, FlatBy
<1>10. n \in 0 .. n
  BY <1>1
<1> QED
  BY <1>3, <1>4, <1>9, <1>10

\* What is made of longer pieces is longer.
LEMMA JoinGrows ==
  ASSUME NEW a, IsSeq(a), NEW b, IsSeq(b), NEW c, IsSeq(c), NEW d, IsSeq(d), Len(a) <= Len(c), Len(b) <= Len(d)
  PROVE  Len(a \o b) <= Len(c \o d)
<1>1. Len(a \o b) = Len(a) + Len(b) /\ Len(c \o d) = Len(c) + Len(d)
  BY Joined
<1>2. {Len(a), Len(b), Len(c), Len(d)} \subseteq Nat
  BY SeqIs
<1>3. \A p, q, r, s \in Nat : p <= r /\ q <= s => p + q <= r + s
  OBVIOUS
<1> QED
  BY <1>1, <1>2, <1>3

LEMMA FlatGrows ==
  ASSUME NEW a, IsSeqs(a), NEW b, IsSeqs(b), Len(a) = Len(b), \A i \in 1 .. Len(a) : Len(a[i]) <= Len(b[i])
  PROVE  Len(FlattenSeq(a)) <= Len(FlattenSeq(b))
<1> DEFINE n == Len(a)  P == {i \in 0 .. n : Len(Upto(a, i)) <= Len(Upto(b, i))}
<1>1. /\ n \in Nat /\ Upto(a, 0) = << >> /\ Upto(a, n) = FlattenSeq(a)
      /\ \A i \in 1 .. n : Upto(a, i) = Upto(a, i - 1) \o a[i]
      /\ \A i \in 0 .. n : IsSeq(Upto(a, i))
  BY UptoIs
<1>2. /\ Upto(b, 0) = << >> /\ Upto(b, n) = FlattenSeq(b)
      /\ \A i \in 1 .. n : Upto(b, i) = Upto(b, i - 1) \o b[i]
      /\ \A i \in 0 .. n : IsSeq(Upto(b, i))
  BY UptoIs
<1> HIDE DEF n
<1>3. 0 \in P
  BY <1>1, <1>2
<1>4. ASSUME NEW i \in 1 .. n, i - 1 \in P PROVE i \in P
  <2>1. i - 1 \in 0 .. n /\ i \in 0 .. n
    BY <1>1
  <2>2. IsSeq(Upto(a, i - 1)) /\ IsSeq(Upto(b, i - 1)) /\ IsSeq(a[i]) /\ IsSeq(b[i])
    BY <1>1, <1>2, <2>1 DEF IsSeqs, n
  <2>6. Len(Upto(a, i - 1)) <= Len(Upto(b, i - 1)) /\ Len(a[i]) <= Len(b[i])
    BY <1>4 DEF n
  <2>3. Upto(a, i) = Upto(a, i - 1) \o a[i] /\ Upto(b, i) = Upto(b, i - 1) \o b[i]
    BY <1>1, <1>2
  <2>4. Len(Upto(a, i - 1) \o a[i]) <= Len(Upto(b, i - 1) \o b[i])
    BY <2>2, <2>6, JoinGrows
  <2>7. Len(Upto(a, i)) <= Len(Upto(b, i))
    BY <2>3, <2>4
  <2> QED
    BY <2>1, <2>7
<1> HIDE DEF P
<1>5. \A i \in 0 .. n : i \in P
  BY <1>1, <1>3, <1>4, Induct
<1>6. n \in 0 .. n
  BY <1>1
<1> QED
  BY <1>1, <1>2, <1>5, <1>6 DEF P

-----------------------------------------------------------------------------
(* The lines of a value.                                                   *)

LEMMA OneFlat ==
  ASSUME NEW w, IsSeqs(w), Len(w) = 1
  PROVE  FlattenSeq(w) = w[1]
<1>1. \A i \in 1 .. Len(w) : Upto(w, i) = Upto(w, i - 1) \o w[i]
  BY UptoIs
<1>2. 1 \in 1 .. Len(w) /\ 1 - 1 = 0
  OBVIOUS
<1>3. Upto(w, 1) = Upto(w, 1 - 1) \o w[1]
  BY <1>1, <1>2
<1>4. Upto(w, 1 - 1) = << >>
  BY <1>2, UptoIs
<1>5. Upto(w, 1) = FlattenSeq(w)
  BY UptoIs
<1>6. IsSeq(w[1])
  BY <1>2 DEF IsSeqs
<1> QED
  BY <1>3, <1>4, <1>5, <1>6, JoinNone

LEMMA FlatOne ==
  ASSUME NEW x, IsSeq(x)
  PROVE  IsSeqs(<<x>>) /\ FlattenSeq(<<x>>) = x
<1> DEFINE o == <<x>>
<1>1. IsSeq(o) /\ Len(o) = 1 /\ o[1] = x
  BY OneSeq
<1> HIDE DEF o
<1>2. \A i \in 1 .. 1 : i = 1
  OBVIOUS
<1>3. IsSeqs(o)
  BY <1>1, <1>2 DEF IsSeqs
<1>4. FlattenSeq(o) = o[1]
  BY <1>1, <1>3, OneFlat
<1> QED
  BY <1>1, <1>3, <1>4 DEF o

\* The pieces of a sequence are no longer than n, and no more for a larger n.
LEMMA PieceSize ==
  ASSUME NEW s, IsSeq(s), NEW n \in Nat \ {0}, NEW ps, ArePieces(s, n, ps)
  PROVE  \A i \in 1 .. Len(ps) : Len(ps[i]) <= n
<1> DEFINE l == Len(s)  m == PieceCount(s, n)
<1>1. l \in Nat /\ m \in Nat /\ Len(ps) = m
  BY PieceWords, SeqIs
<1>2. \A i \in 1 .. m : ps[i] = SubSeq(s, (i - 1) * n + 1, Min({i * n, l}))
  BY DEF ArePieces
<1>3. \A i \in 1 .. m : (i - 1) * n + 1 \in 1 .. l /\ Min({i * n, l}) \in (i - 1) * n + 1 .. l
  BY <1>1, Pieces DEF PieceCount
<1> HIDE DEF m
<1>4. ASSUME NEW i \in 1 .. m PROVE Len(ps[i]) <= n
  <2> DEFINE a == (i - 1) * n  b == Min({i * n, l})
  <2>1. i - 1 \in Nat /\ a \in Nat /\ i * n \in Nat /\ i * n = a + n
    BY <1>1
  <2>2. a + 1 \in 1 .. l /\ b \in a + 1 .. l
    BY <1>3
  <2>3. b <= i * n
    BY <1>1, <2>1, MinTwo
  <2>4. ps[i] = SubSeq(s, a + 1, b)
    BY <1>2
  <2> HIDE DEF a, b
  <2>5. b \in Nat /\ b <= a + n /\ a + 1 <= b
    BY <1>1, <2>1, <2>2, <2>3
  <2>6. Len(SubSeq(s, a + 1, b)) = b - a
    <3>1. PICK S : s \in Seq(S)
      BY DEF IsSeq
    <3> QED
      BY <1>1, <2>1, <2>2, <2>5, <3>1
  <2> QED
    BY <2>1, <2>4, <2>5, <2>6
<1> QED
  BY <1>1, <1>4

LEMMA FewerPieces ==
  ASSUME NEW l \in Nat \ {0}, NEW a \in Nat \ {0}, NEW b \in Nat \ {0}, a <= b
  PROVE  (l + b - 1) \div b <= (l + a - 1) \div a
<1> DEFINE p == (l + a - 1) \div a  q == (l + b - 1) \div b
<1>1. l + a - 1 \in Nat /\ l + b - 1 \in Nat
  OBVIOUS
<1>2. p \in Nat /\ l + a - 1 < p * a + a
  BY <1>1, QuotientIs
<1>3. q \in Nat /\ q * b <= l + b - 1
  BY <1>1, QuotientIs
<1> HIDE DEF p, q
<1>4. l <= p * a /\ p * a \in Nat
  BY <1>2
<1>5. p * a <= p * b
  BY <1>2
<1>6. ASSUME ~(q <= p) PROVE FALSE
  <2>1. p + 1 <= q /\ p + 1 \in Nat
    BY <1>2, <1>3, <1>6
  <2>2. (p + 1) * b <= q * b
    BY <1>3, <2>1, ProductGrows
  <2>3. (p + 1) * b = p * b + b /\ p * b \in Nat /\ q * b \in Nat
    BY <1>2, <1>3
  <2> QED
    BY <1>3, <1>4, <1>5, <2>2, <2>3
<1> QED
  BY <1>6 DEF p, q

\* A paragraph in lines of n words.
LEMMA WrappedIs ==
  ASSUME NEW para, IsSeq(para), NEW n \in Nat \ {0}
  PROVE  /\ IsSeqs(Wrapped(para, n)) /\ FlattenSeq(Wrapped(para, n)) = para
         /\ \A i \in 1 .. Len(Wrapped(para, n)) : Len(Wrapped(para, n)[i]) <= n
         /\ Len(Wrapped(para, n)) = IF para = << >> THEN 1 ELSE (Len(para) + n - 1) \div n
<1>1. CASE para = << >>
  <2> DEFINE o == << << >> >>
  <2>1. IsSeqs(o) /\ FlattenSeq(o) = << >>
    BY NoneSeq, FlatOne
  <2>2. IsSeq(o) /\ Len(o) = 1 /\ o[1] = << >>
    BY OneSeq
  <2>3. Wrapped(para, n) = o
    BY <1>1 DEF Wrapped
  <2> HIDE DEF o
  <2>4. \A i \in 1 .. 1 : i = 1
    OBVIOUS
  <2>5. \A i \in 1 .. Len(o) : Len(o[i]) <= n
    BY <2>2, <2>4, NoneSeq
  <2> QED
    BY <1>1, <2>1, <2>2, <2>3, <2>5
<1>2. CASE para # << >>
  <2>1. Wrapped(para, n) = [i \in 1 .. (Len(para) + n - 1) \div n |-> SubSeq(para, (i - 1) * n + 1, Min({i * n, Len(para)}))]
    BY <1>2 DEF Wrapped
  <2>2. ArePieces(para, n, Wrapped(para, n))
    BY <2>1 DEF ArePieces, PieceCount
  <2>3. IsSeqs(Wrapped(para, n)) /\ Len(Wrapped(para, n)) = PieceCount(para, n)
    BY <2>2, PieceWords
  <2>4. FlattenSeq(Wrapped(para, n)) = para
    BY <2>2, FlatPieces
  <2>5. \A i \in 1 .. Len(Wrapped(para, n)) : Len(Wrapped(para, n)[i]) <= n
    BY <2>2, PieceSize
  <2> QED
    BY <1>2, <2>3, <2>4, <2>5 DEF PieceCount
<1> QED
  BY <1>1, <1>2

LEMMA EmptySeq ==
  ASSUME NEW s, IsSeq(s), Len(s) = 0
  PROVE  s = << >>
  BY NoneSeq, SeqEq

LEMMA WrappedFewer ==
  ASSUME NEW para, IsSeq(para), NEW a \in Nat \ {0}, NEW b \in Nat \ {0}, a <= b
  PROVE  Len(Wrapped(para, b)) <= Len(Wrapped(para, a))
<1>1. CASE para = << >>
  BY <1>1, WrappedIs
<1>2. CASE para # << >>
  <2>1. Len(para) \in Nat \ {0}
    BY <1>2, EmptySeq, SeqIs
  <2>2. (Len(para) + b - 1) \div b <= (Len(para) + a - 1) \div a
    BY <2>1, FewerPieces
  <2> QED
    BY <1>2, <2>2, WrappedIs
<1> QED
  BY <1>1, <1>2

\* A line that is short enough stays one.
LEMMA WrappedShort ==
  ASSUME NEW para, IsSeq(para), NEW n \in Nat \ {0}, Len(para) <= n
  PROVE  Wrapped(para, n) = <<para>>
<1> DEFINE w == Wrapped(para, n)  o == <<para>>
<1>1. IsSeqs(w) /\ FlattenSeq(w) = para /\ Len(w) = IF para = << >> THEN 1 ELSE (Len(para) + n - 1) \div n
  BY WrappedIs
<1>2. Len(w) = 1
  <2>1. CASE para = << >>
    BY <1>1, <2>1
  <2>2. CASE para # << >>
    <3> DEFINE l == Len(para)  q == (l + n - 1) \div n
    <3>1. l \in Nat \ {0}
      BY <2>2, EmptySeq, SeqIs
    <3>2. l <= n
      OBVIOUS
    <3> HIDE DEF l
    <3>3. l + n - 1 \in Nat
      BY <3>1
    <3>4. q \in Nat /\ q * n <= l + n - 1 /\ l + n - 1 < q * n + n
      BY <3>3, QuotientIs
    <3> HIDE DEF q
    <3>5. q * n \in Nat /\ n <= l + n - 1 /\ l + n - 1 < n + n
      BY <3>1, <3>2, <3>4
    <3>6. q # 0
      <4>1. 0 * n = 0
        OBVIOUS
      <4> QED
        BY <3>1, <3>4, <4>1
    <3>7. ASSUME q >= 2 PROVE FALSE
      <4>1. 2 * n <= q * n
        BY <3>4, <3>7, ProductGrows
      <4>2. 2 * n = n + n
        OBVIOUS
      <4> QED
        BY <3>1, <3>2, <3>4, <3>5, <4>1, <4>2
    <3>8. q = 1
      BY <3>4, <3>6, <3>7
    <3> QED
      BY <1>1, <2>2, <3>8 DEF q, l
  <2> QED
    BY <2>1, <2>2
<1>3. IsSeq(o) /\ Len(o) = 1 /\ o[1] = para
  BY OneSeq
<1> HIDE DEF w, o
<1>4. IsSeq(w) /\ IsSeq(w[1])
  BY <1>1, <1>2 DEF IsSeqs
<1>5. w[1] = para
  <2>1. FlattenSeq(w) = w[1]
    BY <1>1, <1>2, OneFlat
  <2> QED
    BY <1>1, <2>1
<1>6. \A k \in 1 .. 1 : w[k] = o[k]
  <2>1. \A k \in 1 .. 1 : k = 1
    OBVIOUS
  <2> QED
    BY <1>3, <1>5, <2>1
<1>7. w = o
  BY <1>2, <1>3, <1>4, <1>6, SeqEq
<1> QED
  BY <1>7 DEF w, o

Broken(text, n) == FlattenSeq([k \in DOMAIN text |-> Wrapped(text[k], n)])

WrapOf(text, n) == [k \in 1 .. Len(text) |-> Wrapped(text[k], n)]

LEMMA WrapOfIs ==
  ASSUME NEW text, IsSeqs(text), NEW n \in Nat \ {0}
  PROVE  /\ IsSeqs(WrapOf(text, n)) /\ Len(WrapOf(text, n)) = Len(text) /\ Deep(WrapOf(text, n))
         /\ \A k \in 1 .. Len(text) : WrapOf(text, n)[k] = Wrapped(text[k], n) /\ IsSeq(text[k])
         /\ Broken(text, n) = FlattenSeq(WrapOf(text, n))
<1> DEFINE m == Len(text)  ws == WrapOf(text, n)
<1>1. m \in Nat /\ DOMAIN text = 1 .. m /\ \A k \in 1 .. m : IsSeq(text[k])
  BY SeqIs DEF IsSeqs
<1>2. IsSeq(ws) /\ Len(ws) = m /\ \A k \in 1 .. m : ws[k] = Wrapped(text[k], n)
  BY <1>1, FcnSeq DEF WrapOf
<1>3. Broken(text, n) = FlattenSeq(ws)
  BY <1>1 DEF Broken, WrapOf
<1> HIDE DEF ws
<1>4. \A k \in 1 .. m : IsSeqs(ws[k])
  BY <1>1, <1>2, WrappedIs
<1>5. IsSeqs(ws)
  BY <1>2, <1>4 DEF IsSeqs
<1> QED
  BY <1>1, <1>2, <1>3, <1>4, <1>5 DEF Deep, ws

\* A text in lines of n words is the same text.
LEMMA BrokenIs ==
  ASSUME NEW text, IsSeqs(text), NEW n \in Nat \ {0}
  PROVE  /\ IsSeqs(Broken(text, n)) /\ FlattenSeq(Broken(text, n)) = FlattenSeq(text)
         /\ \A i \in 1 .. Len(Broken(text, n)) : Len(Broken(text, n)[i]) <= n
<1> DEFINE m == Len(text)  ws == WrapOf(text, n)  ls == Broken(text, n)
<1>1. /\ IsSeqs(ws) /\ Len(ws) = m /\ Deep(ws) /\ ls = FlattenSeq(ws)
      /\ \A k \in 1 .. m : ws[k] = Wrapped(text[k], n) /\ IsSeq(text[k])
  BY WrapOfIs
<1>2. IsSeqs(ls)
  BY <1>1, DeepFlat
<1>3. \A k \in 1 .. m : text[k] = FlattenSeq(ws[k])
  BY <1>1, WrappedIs
<1>4. IsSeq(text)
  BY DEF IsSeqs
<1> HIDE DEF ws
<1>5. FlattenSeq(text) = FlattenSeq(FlattenSeq(ws))
  BY <1>1, <1>3, <1>4, FlatFlat
<1>6. IsSeq(ls) /\ ToSet(ls) = UNION {ToSet(ws[k]) : k \in 1 .. m}
  BY <1>1, Flattened
<1>7. ASSUME NEW i \in 1 .. Len(ls) PROVE Len(ls[i]) <= n
  <2>1. ls[i] \in ToSet(ls)
    BY <1>6, SeqIs DEF ToSet
  <2>2. PICK k \in 1 .. m : ls[i] \in ToSet(ws[k])
    BY <1>6, <2>1
  <2>3. IsSeq(ws[k])
    BY <1>1 DEF IsSeqs
  <2>4. PICK j \in 1 .. Len(ws[k]) : ls[i] = ws[k][j]
    BY <2>2, <2>3, SeqIs DEF ToSet
  <2>5. ws[k] = Wrapped(text[k], n) /\ IsSeq(text[k])
    BY <1>1
  <2>6. \A q \in 1 .. Len(Wrapped(text[k], n)) : Len(Wrapped(text[k], n)[q]) <= n
    BY <2>5, WrappedIs
  <2> QED
    BY <2>4, <2>5, <2>6
<1> QED
  BY <1>1, <1>2, <1>5, <1>7

LEMMA BrokenFewer ==
  ASSUME NEW text, IsSeqs(text), NEW a \in Nat \ {0}, NEW b \in Nat \ {0}, a <= b
  PROVE  Len(Broken(text, b)) <= Len(Broken(text, a))
<1> DEFINE m == Len(text)  u == WrapOf(text, a)  v == WrapOf(text, b)
<1>1. IsSeqs(u) /\ Len(u) = m /\ Broken(text, a) = FlattenSeq(u) /\ \A k \in 1 .. m : u[k] = Wrapped(text[k], a) /\ IsSeq(text[k])
  BY WrapOfIs
<1>2. IsSeqs(v) /\ Len(v) = m /\ Broken(text, b) = FlattenSeq(v) /\ \A k \in 1 .. m : v[k] = Wrapped(text[k], b)
  BY WrapOfIs
<1> HIDE DEF u, v
<1>3. \A k \in 1 .. m : Len(v[k]) <= Len(u[k])
  BY <1>1, <1>2, WrappedFewer
<1>4. Len(FlattenSeq(v)) <= Len(FlattenSeq(u))
  BY <1>1, <1>2, <1>3, FlatGrows
<1> QED
  BY <1>1, <1>2, <1>4

LEMMA BrokenShort ==
  ASSUME NEW text, IsSeqs(text), NEW n \in Nat \ {0}, \A k \in 1 .. Len(text) : Len(text[k]) <= n
  PROVE  Broken(text, n) = text
<1> DEFINE m == Len(text)  ws == WrapOf(text, n)  os == [k \in 1 .. m |-> <<text[k]>>]
<1>1. Broken(text, n) = FlattenSeq(ws) /\ \A k \in 1 .. m : ws[k] = Wrapped(text[k], n) /\ IsSeq(text[k])
  BY WrapOfIs
<1>2. \A k \in 1 .. m : ws[k] = <<text[k]>>
  BY <1>1, WrappedShort
<1>3. ws = [k \in 1 .. m |-> ws[k]]
  BY DEF WrapOf
<1> HIDE DEF ws
<1>4. ws = os
  BY <1>2, <1>3
<1>5. IsSeq(text)
  BY DEF IsSeqs
<1>6. FlattenSeq(os) = text
  BY <1>5, FlatOnes
<1> QED
  BY <1>1, <1>4, <1>6

LEMMA MaxOneIs ==
  ASSUME NEW x \in Nat
  PROVE  Max({1, x}) = IF x <= 1 THEN 1 ELSE x
<1> DEFINE S == {1, x}  c == IF x <= 1 THEN 1 ELSE x
<1>1. S # {} /\ S \subseteq 0 .. c /\ c \in Nat /\ c \in S
  OBVIOUS
<1> HIDE DEF S
<1>2. Max(S) \in S /\ \A y \in S : Max(S) >= y
  BY <1>1, MaxIs
<1>3. Max(S) >= c
  BY <1>1, <1>2
<1>4. Max(S) \in 0 .. c
  BY <1>1, <1>2
<1>5. Max(S) = c
  BY <1>1, <1>3, <1>4
<1> QED
  BY <1>5 DEF S

\* How many words a line of the box has at a size.
Columns(spec, size) == Max({1, spec.width \div size})

LEMMA ColumnsIs ==
  ASSUME NEW spec, spec.width \in Nat, NEW s \in Nat \ {0}
  PROVE  /\ Columns(spec, s) \in Nat \ {0} /\ spec.width \div s \in Nat
         /\ Columns(spec, s) = IF spec.width \div s <= 1 THEN 1 ELSE spec.width \div s
<1>1. spec.width \div s \in Nat
  BY QuotientIs
<1> QED
  BY <1>1, MaxOne, MaxOneIs DEF Columns

LEMMA MoreColumns ==
  ASSUME NEW w \in Nat, NEW s \in Nat \ {0}, NEW t \in Nat \ {0}, t <= s
  PROVE  w \div s <= w \div t
<1> DEFINE p == w \div s  q == w \div t
<1>1. p \in Nat /\ p * s <= w
  BY QuotientIs
<1>2. q \in Nat /\ w < q * t + t
  BY QuotientIs
<1> HIDE DEF p, q
<1>3. ASSUME ~(p <= q) PROVE FALSE
  <2>1. q + 1 <= p /\ q + 1 \in Nat
    BY <1>1, <1>2, <1>3
  <2>2. (q + 1) * t <= p * t
    BY <1>1, <2>1, ProductGrows
  <2>3. p * t <= p * s
    BY <1>1
  <2>4. (q + 1) * t = q * t + t /\ q * t \in Nat /\ p * t \in Nat /\ p * s \in Nat
    BY <1>1, <1>2
  <2> QED
    BY <1>1, <1>2, <2>2, <2>3, <2>4
<1> QED
  BY <1>3 DEF p, q

LEMMA LinesIs ==
  ASSUME NEW text, IsSeqs(text), NEW spec, spec.width \in Nat, NEW s \in Nat \ {0}
  PROVE  /\ Lines(text, spec, s) = IF CanWrap(spec) THEN Broken(text, Columns(spec, s)) ELSE text
         /\ IsSeqs(Lines(text, spec, s)) /\ FlattenSeq(Lines(text, spec, s)) = FlattenSeq(text)
<1>1. Lines(text, spec, s) = IF CanWrap(spec) THEN Broken(text, Columns(spec, s)) ELSE text
  BY DEF Lines, Broken, Columns
<1>2. Columns(spec, s) \in Nat \ {0}
  BY ColumnsIs
<1>3. IsSeqs(Broken(text, Columns(spec, s))) /\ FlattenSeq(Broken(text, Columns(spec, s))) = FlattenSeq(text)
  BY <1>2, BrokenIs
<1> QED
  BY <1>1, <1>3

LEMMA ProductBoth ==
  ASSUME NEW a \in Nat, NEW b \in Nat, NEW c \in Nat, NEW d \in Nat, a <= b, c <= d
  PROVE  a * c <= b * d
<1>1. a * c <= b * c
  BY ProductGrows
<1>2. b * c <= b * d
  <2>1. c * b <= d * b
    BY ProductGrows
  <2>2. c * b = b * c /\ d * b = b * d
    OBVIOUS
  <2> QED
    BY <2>1, <2>2
<1>3. a * c \in Nat /\ b * c \in Nat /\ b * d \in Nat
  OBVIOUS
<1> QED
  BY <1>1, <1>2, <1>3

\* What the lines are at, and no wider.
Within(drawn, size, width, height) ==
  Len(drawn) * size <= height /\ \A k \in 1 .. Len(drawn) : Len(drawn[k]) * size <= width

LEMMA FitsIs ==
  ASSUME NEW text, IsSeqs(text), NEW spec, spec.width \in Nat, NEW s \in Nat \ {0}
  PROVE  FitsAt(text, spec, s) <=> Within(Lines(text, spec, s), s, spec.width, spec.height)
<1> DEFINE drawn == Lines(text, spec, s)
<1>1. IsSeqs(drawn)
  BY LinesIs
<1>2. DOMAIN drawn = 1 .. Len(drawn)
  BY <1>1, SeqIs DEF IsSeqs
<1>3. FitsAt(text, spec, s) <=> Len(drawn) * s <= spec.height /\ \A k \in DOMAIN drawn : Len(drawn[k]) * s <= spec.width
  BY DEF FitsAt
<1> HIDE DEF drawn
<1> QED
  BY <1>2, <1>3 DEF drawn, Within

LEMMA WithinSmaller ==
  ASSUME NEW drawn, IsSeqs(drawn), NEW s \in Nat \ {0}, NEW t \in Nat \ {0}, t <= s, NEW w \in Nat, NEW h \in Nat,
         Within(drawn, s, w, h)
  PROVE  Within(drawn, t, w, h)
<1>1. Len(drawn) \in Nat /\ \A k \in 1 .. Len(drawn) : Len(drawn[k]) \in Nat
  BY SeqIs DEF IsSeqs
<1>2. \A l, b \in Nat : l * s <= b => l * t <= b
  <2> SUFFICES ASSUME NEW l \in Nat, NEW b \in Nat, l * s <= b PROVE l * t <= b
    OBVIOUS
  <2>1. l <= l /\ l * t <= l * s
    BY ProductBoth
  <2>2. l * t \in Nat /\ l * s \in Nat
    OBVIOUS
  <2> QED
    BY <2>1, <2>2
<1> QED
  BY <1>1, <1>2 DEF Within

\* What fits at a size fits at every smaller one.
LEMMA FitsSmaller ==
  ASSUME NEW text, IsSeqs(text), NEW spec, spec.width \in Nat, spec.height \in Nat,
         NEW s \in Nat \ {0}, NEW t \in Nat \ {0}, t <= s, FitsAt(text, spec, s)
  PROVE  FitsAt(text, spec, t)
<1> DEFINE w == spec.width  h == spec.height  a == Lines(text, spec, s)  b == Lines(text, spec, t)
           p == Columns(spec, s)  q == Columns(spec, t)
<1>1. w \in Nat /\ h \in Nat
  OBVIOUS
<1>2. IsSeqs(a) /\ IsSeqs(b) /\ Within(a, s, w, h)
  BY FitsIs, LinesIs
<1>3. CASE ~CanWrap(spec) \/ p = q
  <2>1. a = b
    BY <1>3, LinesIs
  <2>2. Within(b, t, w, h)
    BY <1>1, <1>2, <2>1, WithinSmaller
  <2> QED
    BY <2>2, FitsIs
<1>4. CASE CanWrap(spec) /\ p # q
  <2>1. a = Broken(text, p) /\ b = Broken(text, q)
    BY <1>4, LinesIs
  <2>2. p \in Nat \ {0} /\ w \div s \in Nat /\ p = IF w \div s <= 1 THEN 1 ELSE w \div s
    BY ColumnsIs
  <2>3. q \in Nat \ {0} /\ w \div t \in Nat /\ q = IF w \div t <= 1 THEN 1 ELSE w \div t
    BY ColumnsIs
  <2>4. w \div s <= w \div t
    BY <1>1, MoreColumns
  <2>5. (w \div t) * t <= w
    BY <1>1, QuotientIs
  <2> HIDE DEF w, h, a, b, p, q
  <2>6. p <= q /\ q = w \div t
    BY <1>4, <2>2, <2>3, <2>4
  <2>7. Len(b) <= Len(a)
    BY <2>1, <2>2, <2>3, <2>6, BrokenFewer
  <2>8. Len(a) \in Nat /\ Len(b) \in Nat /\ \A k \in 1 .. Len(b) : Len(b[k]) \in Nat
    BY <1>2, SeqIs DEF IsSeqs
  <2>9. Len(b) * t <= h
    <3>1. Len(b) * t <= Len(a) * s
      BY <2>7, <2>8, ProductBoth
    <3>2. Len(a) * s <= h
      BY <1>2 DEF Within
    <3>3. Len(a) * s \in Nat /\ Len(b) * t \in Nat
      BY <2>8
    <3> QED
      BY <1>1, <3>1, <3>2, <3>3
  <2>10. ASSUME NEW k \in 1 .. Len(b) PROVE Len(b[k]) * t <= w
    <3>1. Len(b[k]) <= q
      BY <2>1, <2>3, BrokenIs
    <3>4. Len(b[k]) \in Nat /\ q \in Nat /\ t \in Nat
      BY <2>3, <2>8
    <3>2. Len(b[k]) * t <= q * t
      BY <3>1, <3>4, ProductGrows
    <3>3. Len(b[k]) * t \in Nat /\ q * t \in Nat
      BY <2>3, <2>8
    <3> QED
      BY <1>1, <2>5, <2>6, <3>2, <3>3
  <2>11. Within(b, t, w, h)
    BY <2>9, <2>10 DEF Within
  <2> QED
    BY <2>11, FitsIs DEF b, w, h
<1> QED
  BY <1>3, <1>4

\* fit_text: the largest size that fits, or the smallest that is allowed.
LEMMA FitIs ==
  ASSUME NEW text, IsSeqs(text), NEW spec, FieldOk(spec)
  PROVE  LET fit == Fit(text, spec)
         IN  /\ fit.size \in Sizes(spec) /\ fit.size \in Nat \ {0} /\ fit.lines = Lines(text, spec, fit.size)
             /\ fit.fits \in BOOLEAN /\ (fit.fits => FitsAt(text, spec, fit.size))
             /\ \A s \in Sizes(spec) : FitsAt(text, spec, s) => fit.fits
<1> DEFINE good == {s \in Sizes(spec) : FitsAt(text, spec, s)}
           size == IF good = {} THEN Min(Sizes(spec)) ELSE Max(good)
           fit == Fit(text, spec)
<1>1. Sizes(spec) # {} /\ Sizes(spec) \subseteq 1 .. spec.font /\ Sizes(spec) \subseteq Nat \ {0} /\ spec.font \in Nat
  BY SizesOk DEF FieldOk
<1>2. good \subseteq Sizes(spec) /\ \A s \in good : FitsAt(text, spec, s)
  OBVIOUS
<1>3. \A s \in Sizes(spec) : FitsAt(text, spec, s) => good # {}
  OBVIOUS
<1>4. fit = [size |-> size, lines |-> Lines(text, spec, size), fits |-> good # {}]
  BY DEF Fit
<1> HIDE DEF good
<1>5. size \in Sizes(spec) /\ (good # {} => size \in good)
  <2>1. CASE good = {}
    <3>1. Sizes(spec) \subseteq Nat
      BY <1>1
    <3> QED
      BY <1>1, <2>1, <3>1, MinIs
  <2>2. CASE good # {}
    <3>1. good \subseteq 0 .. spec.font
      BY <1>1, <1>2
    <3>2. Max(good) \in good
      BY <1>1, <2>2, <3>1, MaxIs
    <3> QED
      BY <1>2, <2>2, <3>2
  <2> QED
    BY <2>1, <2>2
<1> HIDE DEF size, fit
<1>6. fit.size = size /\ fit.lines = Lines(text, spec, size) /\ fit.fits = (good # {})
  BY <1>4
<1> QED
  BY <1>1, <1>2, <1>3, <1>5, <1>6 DEF fit

-----------------------------------------------------------------------------
(* The sheets behind a form.                                               *)

LEMMA FlatNones ==
  ASSUME NEW ss, IsSeqs(ss), \A i \in 1 .. Len(ss) : ss[i] = << >>
  PROVE  FlattenSeq(ss) = << >>
<1> DEFINE n == Len(ss)  g == [i \in 0 .. n |-> << >>]
<1>1. n \in Nat
  BY SeqIs DEF IsSeqs
<1>2. \A i \in 0 .. n : g[i] = << >>
  OBVIOUS
<1> HIDE DEF g
<1>3. << >> \o << >> = << >>
  BY NoneSeq, JoinNone
<1>4. ASSUME NEW i \in 1 .. n PROVE g[i - 1] \o ss[i] = g[i]
  <2>1. i - 1 \in 0 .. n /\ i \in 0 .. n
    BY <1>1
  <2>2. g[i - 1] = << >> /\ g[i] = << >> /\ ss[i] = << >>
    BY <1>2, <2>1
  <2> QED
    BY <1>3, <2>2
<1>5. 0 \in 0 .. n /\ n \in 0 .. n
  BY <1>1
<1>6. MadeOf(ss, g)
  BY <1>2, <1>4, <1>5 DEF MadeOf
<1> QED
  BY <1>2, <1>5, <1>6, FlatBy

\* All but one of them are empty.
LEMMA FlatSole ==
  ASSUME NEW ss, IsSeqs(ss), NEW k \in 1 .. Len(ss), \A j \in 1 .. Len(ss) : j # k => ss[j] = << >>
  PROVE  FlattenSeq(ss) = ss[k]
<1> DEFINE n == Len(ss)  x == ss[k]  g == [i \in 0 .. n |-> IF i < k THEN << >> ELSE x]
<1>1. n \in Nat
  BY SeqIs DEF IsSeqs
<1>2. IsSeq(x) /\ k \in Nat /\ k <= n /\ k >= 1
  BY <1>1 DEF IsSeqs
<1>3. \A i \in 0 .. n : g[i] = IF i < k THEN << >> ELSE x
  OBVIOUS
<1> HIDE DEF g, x
<1>4. << >> \o << >> = << >> /\ << >> \o x = x /\ x \o << >> = x
  BY <1>2, NoneSeq, JoinNone
<1>5. ASSUME NEW i \in 1 .. n PROVE g[i - 1] \o ss[i] = g[i]
  <2>1. i - 1 \in 0 .. n /\ i \in 0 .. n /\ i \in Nat
    BY <1>1
  <2>2. g[i - 1] = (IF i - 1 < k THEN << >> ELSE x) /\ g[i] = IF i < k THEN << >> ELSE x
    BY <1>3, <2>1
  <2>3. CASE i < k
    <3>1. i - 1 < k /\ i # k
      BY <1>2, <2>1, <2>3
    <3>2. ss[i] = << >>
      BY <3>1
    <3> QED
      BY <1>4, <2>2, <2>3, <3>1, <3>2
  <2>4. CASE i = k
    <3>1. i - 1 < k /\ ~(i < k)
      BY <1>2, <2>4
    <3>2. ss[i] = x
      BY <2>4 DEF x
    <3> QED
      BY <1>4, <2>2, <3>1, <3>2
  <2>5. CASE i > k
    <3>1. ~(i - 1 < k) /\ ~(i < k) /\ i # k
      BY <1>2, <2>1, <2>5
    <3>2. ss[i] = << >>
      BY <3>1
    <3> QED
      BY <1>4, <2>2, <3>1, <3>2
  <2>6. i < k \/ i = k \/ i > k
    BY <1>2, <2>1
  <2> QED
    BY <2>3, <2>4, <2>5, <2>6
<1>6. 0 \in 0 .. n /\ n \in 0 .. n /\ 0 < k /\ ~(n < k)
  BY <1>1, <1>2
<1>7. g[0] = << >> /\ g[n] = x
  BY <1>3, <1>6
<1>8. MadeOf(ss, g)
  BY <1>5, <1>7 DEF MadeOf
<1> QED
  BY <1>7, <1>8, FlatBy DEF x

\* What a sheet has of a label.
WordsOf(page, label) ==
  IF page.label = label /\ page.of = 0 THEN FlattenSeq((CHOOSE d \in page.drawn : TRUE).fit.lines) ELSE << >>

Worded(pages) == IsSeq(pages) /\ \A i \in 1 .. Len(pages) : \A label : IsSeq(WordsOf(pages[i], label))

WordsOn(pages, label) == [i \in 1 .. Len(pages) |-> WordsOf(pages[i], label)]

LEMMA WordsOnIs ==
  ASSUME NEW pages, Worded(pages), NEW label
  PROVE  /\ SheetWords(pages, label) = FlattenSeq(WordsOn(pages, label)) /\ IsSeqs(WordsOn(pages, label))
         /\ Len(WordsOn(pages, label)) = Len(pages) /\ Len(pages) \in Nat
         /\ \A i \in 1 .. Len(pages) : WordsOn(pages, label)[i] = WordsOf(pages[i], label)
         /\ IsSeq(SheetWords(pages, label))
<1> DEFINE n == Len(pages)  ws == WordsOn(pages, label)
<1>1. IsSeq(pages) /\ n \in Nat /\ DOMAIN pages = 1 .. n
  BY SeqIs DEF Worded
<1>2. SheetWords(pages, label) = FlattenSeq(ws)
  BY <1>1 DEF SheetWords, WordsOn, WordsOf
<1>3. IsSeq(ws) /\ Len(ws) = n /\ \A i \in 1 .. n : ws[i] = WordsOf(pages[i], label)
  BY <1>1, FcnSeq DEF WordsOn
<1> HIDE DEF ws
<1>4. IsSeqs(ws)
  BY <1>3 DEF IsSeqs, Worded
<1>5. IsSeq(FlattenSeq(ws))
  BY <1>4, Flattened
<1> QED
  BY <1>1, <1>2, <1>3, <1>4, <1>5 DEF ws

LEMMA SheetWordsJoin ==
  ASSUME NEW a, Worded(a), NEW b, Worded(b), NEW label
  PROVE  Worded(a \o b) /\ SheetWords(a \o b, label) = SheetWords(a, label) \o SheetWords(b, label)
<1> DEFINE c == a \o b  u == WordsOn(a, label)  v == WordsOn(b, label)  w == WordsOn(c, label)
<1>1. IsSeq(a) /\ IsSeq(b) /\ Len(a) \in Nat /\ Len(b) \in Nat
  BY SeqIs DEF Worded
<1>2. /\ IsSeq(c) /\ Len(c) = Len(a) + Len(b)
      /\ \A i \in 1 .. Len(a) : c[i] = a[i]
      /\ \A i \in 1 .. Len(b) : c[Len(a) + i] = b[i]
  BY <1>1, Joined
<1> HIDE DEF c
<1>3. Worded(c)
  <2>1. ASSUME NEW i \in 1 .. Len(c), NEW l PROVE IsSeq(WordsOf(c[i], l))
    <3>1. i \in 1 .. Len(a) \/ (i - Len(a) \in 1 .. Len(b) /\ Len(a) + (i - Len(a)) = i)
      BY <1>1, <1>2, Halves
    <3>2. CASE i \in 1 .. Len(a)
      BY <1>2, <3>2 DEF Worded
    <3>3. CASE i - Len(a) \in 1 .. Len(b) /\ Len(a) + (i - Len(a)) = i
      <4>1. c[Len(a) + (i - Len(a))] = b[i - Len(a)]
        BY <1>2, <3>3
      <4> QED
        BY <3>3, <4>1 DEF Worded
    <3> QED
      BY <3>1, <3>2, <3>3
  <2> QED
    BY <1>2, <2>1 DEF Worded
<1>4. SheetWords(a, label) = FlattenSeq(u) /\ IsSeqs(u) /\ Len(u) = Len(a) /\ \A i \in 1 .. Len(a) : u[i] = WordsOf(a[i], label)
  BY WordsOnIs
<1>5. SheetWords(b, label) = FlattenSeq(v) /\ IsSeqs(v) /\ Len(v) = Len(b) /\ \A i \in 1 .. Len(b) : v[i] = WordsOf(b[i], label)
  BY WordsOnIs
<1>6. SheetWords(c, label) = FlattenSeq(w) /\ IsSeqs(w) /\ Len(w) = Len(c) /\ \A i \in 1 .. Len(c) : w[i] = WordsOf(c[i], label)
  BY <1>3, WordsOnIs
<1> HIDE DEF u, v, w
<1>7. IsSeqs(u \o v) /\ FlattenSeq(u \o v) = FlattenSeq(u) \o FlattenSeq(v)
  BY <1>4, <1>5, FlatJoin
<1>8. IsSeq(u) /\ IsSeq(v) /\ IsSeq(w)
  BY <1>4, <1>5, <1>6 DEF IsSeqs
<1>9. /\ IsSeq(u \o v) /\ Len(u \o v) = Len(a) + Len(b)
      /\ \A i \in 1 .. Len(a) : (u \o v)[i] = u[i]
      /\ \A i \in 1 .. Len(b) : (u \o v)[Len(a) + i] = v[i]
  BY <1>4, <1>5, <1>8, Joined
<1>10. ASSUME NEW i \in 1 .. Len(c) PROVE w[i] = (u \o v)[i]
  <2>1. i \in 1 .. Len(a) \/ (i - Len(a) \in 1 .. Len(b) /\ Len(a) + (i - Len(a)) = i)
    BY <1>1, <1>2, Halves
  <2>2. CASE i \in 1 .. Len(a)
    BY <1>2, <1>4, <1>6, <1>9, <2>2
  <2>3. CASE i - Len(a) \in 1 .. Len(b) /\ Len(a) + (i - Len(a)) = i
    <3>1. c[Len(a) + (i - Len(a))] = b[i - Len(a)] /\ (u \o v)[Len(a) + (i - Len(a))] = v[i - Len(a)]
      BY <1>2, <1>9, <2>3
    <3>2. v[i - Len(a)] = WordsOf(b[i - Len(a)], label)
      BY <1>5, <2>3
    <3> QED
      BY <1>6, <2>3, <3>1, <3>2
  <2> QED
    BY <2>1, <2>2, <2>3
<1>11. w = u \o v
  BY <1>2, <1>6, <1>8, <1>9, <1>10, SeqEq
<1> QED
  BY <1>3, <1>4, <1>5, <1>6, <1>7, <1>11 DEF c

LEMMA NoSheets == Worded(<< >>) /\ \A label : SheetWords(<< >>, label) = << >>
<1> DEFINE e == << >>
<1>1. IsSeq(e) /\ Len(e) = 0
  BY NoneSeq
<1> HIDE DEF e
<1>2. Worded(e)
  BY <1>1 DEF Worded
<1>3. ASSUME NEW label PROVE SheetWords(e, label) = << >>
  <2>1. SheetWords(e, label) = FlattenSeq(WordsOn(e, label)) /\ IsSeqs(WordsOn(e, label)) /\ Len(WordsOn(e, label)) = 0
    BY <1>1, <1>2, WordsOnIs
  <2> QED
    BY <2>1, FlatNones
<1> QED
  BY <1>2, <1>3 DEF e

\* Lists of pages, one after the other.
LEMMA SheetWordsFlat ==
  ASSUME NEW ss, IsSeqs(ss), \A k \in 1 .. Len(ss) : Worded(ss[k]), NEW label,
         NEW tt, IsSeq(tt), Len(tt) = Len(ss), \A k \in 1 .. Len(ss) : tt[k] = SheetWords(ss[k], label)
  PROVE  Worded(FlattenSeq(ss)) /\ SheetWords(FlattenSeq(ss), label) = FlattenSeq(tt)
<1> DEFINE n == Len(ss)  g == [i \in 0 .. n |-> SheetWords(Upto(ss, i), label)]
           P == {i \in 0 .. n : Worded(Upto(ss, i))}
<1>1. /\ n \in Nat /\ Upto(ss, 0) = << >> /\ Upto(ss, n) = FlattenSeq(ss)
      /\ \A i \in 1 .. n : Upto(ss, i) = Upto(ss, i - 1) \o ss[i]
  BY UptoIs
<1>2. \A i \in 0 .. n : g[i] = SheetWords(Upto(ss, i), label)
  OBVIOUS
<1> HIDE DEF n, g
<1>3. Worded(<< >>) /\ SheetWords(<< >>, label) = << >>
  BY NoSheets
<1>4. 0 \in P
  BY <1>1, <1>3
<1>5. ASSUME NEW i \in 1 .. n, Worded(Upto(ss, i - 1))
      PROVE  Worded(Upto(ss, i)) /\ SheetWords(Upto(ss, i), label) = SheetWords(Upto(ss, i - 1), label) \o tt[i]
  <2>1. Worded(ss[i]) /\ tt[i] = SheetWords(ss[i], label) /\ Upto(ss, i) = Upto(ss, i - 1) \o ss[i]
    BY <1>1 DEF n
  <2> DEFINE a == Upto(ss, i - 1)  b == ss[i]
  <2>2. Worded(a) /\ Worded(b)
    BY <1>5, <2>1
  <2> HIDE DEF a, b
  <2>3. Worded(a \o b) /\ SheetWords(a \o b, label) = SheetWords(a, label) \o SheetWords(b, label)
    BY <2>2, SheetWordsJoin
  <2> QED
    BY <2>1, <2>3 DEF a, b
<1>6. ASSUME NEW i \in 1 .. n, i - 1 \in P PROVE i \in P
  <2>1. i \in 0 .. n
    BY <1>1
  <2> QED
    BY <1>5, <1>6, <2>1
<1> HIDE DEF P
<1>7. \A i \in 0 .. n : i \in P
  BY <1>1, <1>4, <1>6, Induct
<1>8. ASSUME NEW i \in 1 .. n PROVE g[i - 1] \o tt[i] = g[i]
  <2>1. i - 1 \in 0 .. n /\ i \in 0 .. n
    BY <1>1
  <2>2. Worded(Upto(ss, i - 1))
    BY <1>7, <2>1 DEF P
  <2> QED
    BY <1>2, <1>5, <2>1, <2>2
<1>9. 0 \in 0 .. n /\ n \in 0 .. n
  BY <1>1
<1>10. IsSeqs(tt)
  BY WordsOnIs DEF IsSeqs
<1>11. MadeOf(tt, g)
  BY <1>1, <1>2, <1>3, <1>8, <1>9, <1>10 DEF MadeOf, n
<1>12. FlattenSeq(tt) = g[n]
  BY <1>11, FlatBy DEF n
<1>13. Worded(Upto(ss, n))
  BY <1>7, <1>9 DEF P
<1> QED
  BY <1>1, <1>2, <1>9, <1>12, <1>13

SheetSpec == [width |-> Sheet[1], height |-> Sheet[2], fit |-> "shrink_wrap", multiline |-> FALSE,
              font |-> FullSize, floor |-> FloorSize]

SheetColumns == Max({1, Sheet[1] \div FullSize})

LEMMA SheetSizes ==
  /\ SheetColumns \in Nat \ {0} /\ PerSheet \in Nat \ {0} /\ FullSize \in Nat \ {0}
  /\ Sheet[1] \in Nat /\ Sheet[2] \in Nat
  /\ SheetColumns * FullSize <= Sheet[1] /\ PerSheet * FullSize <= Sheet[2]
<1>1. FullSize \in Nat \ {0} /\ Sheet[1] \in Nat /\ Sheet[2] \in Nat
  BY SheetAssumption
<1>2. FullSize <= Sheet[1] /\ FullSize <= Sheet[2]
  BY FormAssumption
<1>3. ASSUME NEW w \in Nat, NEW f \in Nat \ {0}, f <= w
      PROVE  Max({1, w \div f}) \in Nat \ {0} /\ Max({1, w \div f}) * f <= w
  <2> DEFINE q == w \div f  m == Max({1, q})
  <2>1. q \in Nat /\ q * f <= w
    BY QuotientIs
  <2> HIDE DEF q
  <2>2. m = IF q <= 1 THEN 1 ELSE q
    BY <2>1, MaxOneIs
  <2>3. m \in Nat \ {0}
    BY <2>1, MaxOne
  <2> HIDE DEF m
  <2>4. 1 * f = f
    OBVIOUS
  <2>5. m = 1 \/ m = q
    BY <2>2
  <2>6. m * f <= w
    BY <1>3, <2>1, <2>4, <2>5
  <2> QED
    BY <2>3, <2>6 DEF q, m
<1> QED
  BY <1>1, <1>2, <1>3 DEF SheetColumns, PerSheet

\* A sheet is filled with what fits on it.
LEMMA SheetFits ==
  ASSUME NEW cut, IsSeqs(cut), Len(cut) <= PerSheet, \A k \in 1 .. Len(cut) : Len(cut[k]) <= SheetColumns
  PROVE  LET fit == Fit(cut, SheetSpec)
         IN  fit.fits /\ IsSeqs(fit.lines) /\ FlattenSeq(fit.lines) = FlattenSeq(cut)
<1> DEFINE s == SheetSpec  f == FullSize  fit == Fit(cut, s)
<1>1. /\ SheetColumns \in Nat \ {0} /\ PerSheet \in Nat \ {0} /\ f \in Nat \ {0} /\ Sheet[1] \in Nat /\ Sheet[2] \in Nat
      /\ SheetColumns * f <= Sheet[1] /\ PerSheet * f <= Sheet[2]
  BY SheetSizes
<1>2. /\ s.width = Sheet[1] /\ s.height = Sheet[2] /\ s.fit = "shrink_wrap" /\ s.font = f /\ s.floor = FloorSize
      /\ FieldOk(s)
  BY SheetFieldOk DEF SheetSpec
<1> HIDE DEF s
<1>3. CanWrap(s) /\ CanShrink(s)
  BY <1>2 DEF CanWrap, CanShrink
<1>4. f \in Sizes(s)
  <2>1. Floor(s) \in Nat \ {0}
    BY <1>2, SheetAssumption DEF Floor
  <2>2. Min({Floor(s), s.font}) \in {Floor(s), s.font} /\ Min({Floor(s), s.font}) <= s.font
    BY <1>1, <1>2, <2>1, MinTwo
  <2>3. Sizes(s) = Min({Floor(s), s.font}) .. s.font
    BY <1>3 DEF Sizes
  <2> QED
    BY <1>1, <1>2, <2>1, <2>2, <2>3
<1>5. Lines(cut, s, f) = cut
  <2>1. Lines(cut, s, f) = Broken(cut, SheetColumns)
    BY <1>2, <1>3 DEF Lines, Broken, SheetColumns
  <2> QED
    BY <1>1, <2>1, BrokenShort
<1>6. FitsAt(cut, s, f)
  <2>1. Len(cut) \in Nat /\ \A k \in 1 .. Len(cut) : Len(cut[k]) \in Nat
    BY SeqIs DEF IsSeqs
  <2>2. Len(cut) * f <= PerSheet * f
    BY <1>1, <2>1, ProductGrows
  <2>3. ASSUME NEW k \in 1 .. Len(cut) PROVE Len(cut[k]) * f <= Sheet[1]
    <3>1. Len(cut[k]) \in Nat /\ Len(cut[k]) <= SheetColumns
      BY <2>1
    <3>2. Len(cut[k]) * f <= SheetColumns * f
      BY <1>1, <3>1, ProductGrows
    <3>3. Len(cut[k]) * f \in Nat /\ SheetColumns * f \in Nat
      BY <1>1, <3>1
    <3> QED
      BY <1>1, <3>2, <3>3
  <2>4. Len(cut) * f <= Sheet[2]
    <3>1. Len(cut) * f \in Nat /\ PerSheet * f \in Nat
      BY <1>1, <2>1
    <3> QED
      BY <1>1, <2>2, <3>1
  <2>5. Within(cut, f, Sheet[1], Sheet[2])
    BY <2>3, <2>4 DEF Within
  <2> QED
    BY <1>1, <1>2, <1>5, <2>5, FitsIs
<1>7. fit.size \in Nat \ {0} /\ fit.lines = Lines(cut, s, fit.size) /\ fit.fits
  BY <1>2, <1>4, <1>6, FitIs
<1> HIDE DEF fit, f
<1>8. IsSeqs(Lines(cut, s, fit.size)) /\ FlattenSeq(Lines(cut, s, fit.size)) = FlattenSeq(cut)
  BY <1>1, <1>2, <1>7, LinesIs
<1> QED
  BY <1>7, <1>8 DEF fit, s

\* The only text of a sheet.
Carries(page, label, fit) ==
  page.of = 0 /\ page.label = label /\ page.drawn = {[field |-> 0, fit |-> fit]}

LEMMA CarriedWords ==
  ASSUME NEW page, NEW label, NEW fit, Carries(page, label, fit), NEW l
  PROVE  WordsOf(page, l) = IF l = label THEN FlattenSeq(fit.lines) ELSE << >>
<1> DEFINE one == [field |-> 0, fit |-> fit]  c == CHOOSE d \in page.drawn : TRUE
<1>1. page.of = 0 /\ page.label = label /\ page.drawn = {one}
  BY DEF Carries
<1>2. one.fit = fit
  OBVIOUS
<1> HIDE DEF one
<1>3. c = one
  <2>1. one \in page.drawn
    BY <1>1
  <2>2. c \in page.drawn
    BY <2>1
  <2> QED
    BY <1>1, <2>2
<1>4. c.fit = fit
  BY <1>2, <1>3
<1> HIDE DEF c
<1>5. WordsOf(page, l) = IF page.label = l /\ page.of = 0 THEN FlattenSeq(c.fit.lines) ELSE << >>
  BY DEF WordsOf, c
<1> QED
  BY <1>1, <1>4, <1>5

\* The sheets of a text: none is cut, and they hold it in its order.
LEMMA SheetsText ==
  ASSUME NEW text, IsSeqs(text), NEW label
  PROVE  LET s == Sheets(text, label)
         IN  /\ Worded(s)
             /\ \A i \in 1 .. Len(s) : s[i].of = 0 /\ \A d \in s[i].drawn : d.fit.fits
             /\ \A l : SheetWords(s, l) = IF l = label THEN FlattenSeq(text) ELSE << >>
<1> DEFINE broken == Broken(text, SheetColumns)  s == Sheets(text, label)
           total == PieceCount(broken, PerSheet)
           cut(i) == SubSeq(broken, (i - 1) * PerSheet + 1, Min({i * PerSheet, Len(broken)}))
           ps == [i \in 1 .. total |-> cut(i)]
           fit(i) == Fit(cut(i), SheetSpec)
           page(i) == [of |-> 0, printed |-> {}, label |-> label, number |-> i, total |-> total, ticked |-> {},
                       drawn |-> {[field |-> 0, fit |-> fit(i)]}]
<1>1. SheetColumns \in Nat \ {0} /\ PerSheet \in Nat \ {0}
  BY SheetSizes
<1>2. s = [i \in 1 .. total |-> page(i)]
  BY DEF Sheets, PieceCount, Broken, SheetColumns, SheetSpec
<1>3. /\ IsSeqs(broken) /\ FlattenSeq(broken) = FlattenSeq(text)
      /\ \A k \in 1 .. Len(broken) : Len(broken[k]) <= SheetColumns
  BY <1>1, BrokenIs
<1> HIDE DEF broken
<1>4. /\ total \in Nat /\ IsSeqs(ps) /\ Len(ps) = total /\ LineSet(ps) = ToSet(broken)
      /\ FlattenSeq(ps) = broken /\ \A i \in 1 .. Len(ps) : Len(ps[i]) <= PerSheet
  <2>1. ArePieces(broken, PerSheet, ps)
    BY DEF ArePieces
  <2>2. IsSeq(broken)
    BY <1>3 DEF IsSeqs
  <2> HIDE DEF ps
  <2> QED
    BY <1>1, <2>1, <2>2, PieceWords, FlatPieces, PieceSize
<1>5. \A i \in 1 .. total : ps[i] = cut(i)
  OBVIOUS
<1> HIDE DEF total, cut, ps
<1>6. ASSUME NEW i \in 1 .. total
      PROVE  IsSeqs(ps[i]) /\ \A k \in 1 .. Len(ps[i]) : Len(ps[i][k]) <= SheetColumns
  <2>1. IsSeq(ps[i])
    BY <1>4 DEF IsSeqs
  <2>2. ToSet(ps[i]) \subseteq ToSet(broken)
    BY <1>4, LineSetIs DEF IsSeqs
  <2>3. ASSUME NEW j \in 1 .. Len(ps[i]) PROVE IsSeq(ps[i][j]) /\ Len(ps[i][j]) <= SheetColumns
    <3>1. ps[i][j] \in ToSet(broken)
      BY <2>1, <2>2, SeqIs DEF ToSet
    <3>2. IsSeq(broken)
      BY <1>3 DEF IsSeqs
    <3>3. PICK k \in 1 .. Len(broken) : ps[i][j] = broken[k]
      BY <3>1, <3>2, SeqIs DEF ToSet
    <3> QED
      BY <1>3, <3>3 DEF IsSeqs
  <2> QED
    BY <2>1, <2>3 DEF IsSeqs
<1>7. ASSUME NEW i \in 1 .. total
      PROVE  fit(i).fits /\ IsSeqs(fit(i).lines) /\ FlattenSeq(fit(i).lines) = FlattenSeq(ps[i])
  BY <1>4, <1>5, <1>6, SheetFits
<1>8. \A i \in 1 .. total : Carries(page(i), label, fit(i))
  BY DEF Carries
<1> HIDE DEF fit, page, s
<1>9. IsSeq(s) /\ Len(s) = total /\ \A i \in 1 .. total : s[i] = page(i)
  <2>1. s = [i \in 1 .. total |-> s[i]] /\ \A i \in 1 .. total : s[i] = page(i)
    BY <1>2
  <2> QED
    BY <1>4, <2>1, FcnSeq
<1>10. ASSUME NEW i \in 1 .. total, NEW l
       PROVE  WordsOf(s[i], l) = (IF l = label THEN FlattenSeq(ps[i]) ELSE << >>) /\ IsSeq(WordsOf(s[i], l))
  <2>1. WordsOf(s[i], l) = IF l = label THEN FlattenSeq(ps[i]) ELSE << >>
    BY <1>7, <1>8, <1>9, CarriedWords
  <2>2. IsSeq(FlattenSeq(ps[i])) /\ IsSeq(<< >>)
    BY <1>6, Flattened, NoneSeq
  <2> QED
    BY <2>1, <2>2
<1>11. Worded(s)
  BY <1>9, <1>10 DEF Worded
<1>12. ASSUME NEW i \in 1 .. Len(s) PROVE s[i].of = 0 /\ \A d \in s[i].drawn : d.fit.fits
  <2>1. Carries(s[i], label, fit(i)) /\ fit(i).fits
    BY <1>7, <1>8, <1>9
  <2> QED
    BY <2>1 DEF Carries
<1>13. ASSUME NEW l PROVE SheetWords(s, l) = IF l = label THEN FlattenSeq(text) ELSE << >>
  <2> DEFINE ws == WordsOn(s, l)
  <2>1. SheetWords(s, l) = FlattenSeq(ws) /\ IsSeqs(ws) /\ Len(ws) = total /\ \A i \in 1 .. total : ws[i] = WordsOf(s[i], l)
    BY <1>9, <1>11, WordsOnIs
  <2> HIDE DEF ws
  <2>2. CASE l = label
    <3>1. \A i \in 1 .. Len(ps) : ws[i] = FlattenSeq(ps[i])
      BY <1>4, <1>10, <2>1, <2>2
    <3>2. Deep(ps)
      BY <1>4, <1>6 DEF Deep
    <3>3. IsSeq(ws)
      BY <2>1 DEF IsSeqs
    <3>4. FlattenSeq(ws) = FlattenSeq(FlattenSeq(ps))
      BY <1>4, <2>1, <3>1, <3>2, <3>3, FlatFlat
    <3> QED
      BY <1>3, <1>4, <2>1, <2>2, <3>4
  <2>3. CASE l # label
    <3>1. \A i \in 1 .. Len(ws) : ws[i] = << >>
      BY <1>10, <2>1, <2>3
    <3> QED
      BY <2>1, <2>3, <3>1, FlatNones
  <2> QED
    BY <2>2, <2>3
<1> QED
  BY <1>11, <1>12, <1>13 DEF s

-----------------------------------------------------------------------------
(* The values in their boxes.                                              *)

\* The fields of a form, and a text for each.
TextsFor(desc, texts) ==
  /\ desc.fields \in Seq(FieldSpec) /\ IsSeq(texts) /\ Len(texts) = Len(desc.fields)
  /\ \A k \in 1 .. Len(texts) : IsSeqs(texts[k])

LEMMA TextsIn ==
  ASSUME NEW desc, NEW texts, TextsFor(desc, texts)
  PROVE  /\ Len(texts) \in Nat /\ DOMAIN texts = 1 .. Len(texts)
         /\ Placed(desc, texts) \subseteq 1 .. Len(texts) /\ Overflows(desc, texts) \subseteq Placed(desc, texts)
<1>1. IsSeq(texts)
  BY DEF TextsFor
<1>2. Len(texts) \in Nat /\ DOMAIN texts = 1 .. Len(texts)
  BY <1>1, SeqIs
<1>3. Placed(desc, texts) \subseteq 1 .. Len(texts)
  BY <1>2 DEF Placed
<1>4. Overflows(desc, texts) \subseteq Placed(desc, texts)
  BY DEF Overflows
<1> QED
  BY <1>2, <1>3, <1>4

LEMMA FieldOfIs ==
  ASSUME NEW desc, NEW texts, TextsFor(desc, texts), NEW k \in 1 .. Len(texts)
  PROVE  desc.fields[k] \in FieldSpec
<1> DEFINE fs == desc.fields
<1>1. fs \in Seq(FieldSpec) /\ Len(texts) = Len(fs)
  BY DEF TextsFor
<1> HIDE DEF fs
<1>2. fs[k] \in FieldSpec
  BY <1>1
<1> QED
  BY <1>2 DEF fs

LEMMA FieldsDomain ==
  ASSUME NEW desc, NEW texts, TextsFor(desc, texts)
  PROVE  DOMAIN desc.fields = 1 .. Len(texts)
<1> DEFINE fs == desc.fields
<1>1. fs \in Seq(FieldSpec) /\ Len(texts) = Len(fs)
  BY DEF TextsFor
<1> HIDE DEF fs
<1>2. DOMAIN fs = 1 .. Len(fs)
  BY <1>1
<1> QED
  BY <1>1, <1>2 DEF fs

LEMMA NoteIs ==
  ASSUME NEW label
  PROVE  IsSeqs(<< <<"see", label>> >>) /\ FlattenSeq(<< <<"see", label>> >>) = <<"see", label>>
<1> DEFINE note == <<"see", label>>
<1>1. IsSeq(note)
  <2>1. note \in Seq({"see", label})
    OBVIOUS
  <2> QED
    BY <2>1 DEF IsSeq
<1> HIDE DEF note
<1>2. IsSeqs(<<note>>) /\ FlattenSeq(<<note>>) = note
  BY <1>1, FlatOne
<1> QED
  BY <1>2 DEF note

LEMMA ShownIs ==
  ASSUME NEW desc, NEW texts, TextsFor(desc, texts), NEW k \in 1 .. Len(texts)
  PROVE  /\ IsSeqs(Shown(desc, texts, k))
         /\ k \notin Overflows(desc, texts) => Shown(desc, texts, k) = texts[k]
         /\ k \in Overflows(desc, texts) => FlattenSeq(Shown(desc, texts, k)) = <<"see", desc.fields[k].label>>
<1> DEFINE over == k \in Overflows(desc, texts)  note == << <<"see", desc.fields[k].label>> >>
<1>1. Shown(desc, texts, k) = IF over THEN note ELSE texts[k]
  BY DEF Shown
<1>2. IsSeqs(note) /\ FlattenSeq(note) = <<"see", desc.fields[k].label>>
  BY NoteIs
<1>3. IsSeqs(texts[k])
  BY DEF TextsFor
<1> HIDE DEF over, note
<1>4. IsSeqs(Shown(desc, texts, k)) /\ (~over => Shown(desc, texts, k) = texts[k])
      /\ (over => FlattenSeq(Shown(desc, texts, k)) = <<"see", desc.fields[k].label>>)
  BY <1>1, <1>2, <1>3
<1> QED
  BY <1>4 DEF over

\* A value as it is in its box, and what the box is.
SetIn(fit, shown, spec) ==
  /\ fit.size \in Nat \ {0} /\ IsSeqs(fit.lines) /\ FlattenSeq(fit.lines) = FlattenSeq(shown)

HeldBy(fit, text, spec) ==
  fit.fits /\ fit.lines = Lines(text, spec, fit.size) /\ FitsAt(text, spec, fit.size)

LEMMA FitSets ==
  ASSUME NEW text, IsSeqs(text), NEW spec, FieldOk(spec)
  PROVE  /\ SetIn(Fit(text, spec), text, spec)
         /\ Fit(text, spec).fits => HeldBy(Fit(text, spec), text, spec)
<1> DEFINE fit == Fit(text, spec)
<1>1. /\ fit.size \in Nat \ {0} /\ fit.lines = Lines(text, spec, fit.size)
      /\ fit.fits => FitsAt(text, spec, fit.size)
  BY FitIs
<1> HIDE DEF fit
<1>2. spec.width \in Nat
  BY DEF FieldOk
<1>3. IsSeqs(Lines(text, spec, fit.size)) /\ FlattenSeq(Lines(text, spec, fit.size)) = FlattenSeq(text)
  BY <1>1, <1>2, LinesIs
<1> QED
  BY <1>1, <1>3 DEF SetIn, HeldBy, fit

LEMMA FirstIs ==
  ASSUME NEW desc, NEW texts, TextsFor(desc, texts), NEW k \in 1 .. Len(texts)
  PROVE  LET first == First(desc, texts, k)  f == desc.fields[k]
         IN  /\ SetIn(first, Shown(desc, texts, k), f)
             /\ k \notin Overflows(desc, texts) /\ first.fits => HeldBy(first, texts[k], f)
<1> DEFINE f == desc.fields[k]  over == k \in Overflows(desc, texts)  shown == Shown(desc, texts, k)
           spec == IF over THEN [f EXCEPT !.fit = "shrink"] ELSE f  first == First(desc, texts, k)
<1>1. f \in FieldSpec
  BY FieldOfIs
<1>2. FieldOk(spec)
  BY <1>1, SpecOk1
<1>3. first = Fit(shown, spec)
  BY DEF First
<1>4. IsSeqs(shown) /\ (~over => shown = texts[k])
  BY ShownIs
<1>5. ~over => spec = f
  OBVIOUS
<1> HIDE DEF f, over, shown, spec, first
<1>6. SetIn(first, shown, spec) /\ (first.fits => HeldBy(first, shown, spec))
  BY <1>2, <1>3, <1>4, FitSets
<1>7. SetIn(first, shown, f) /\ (~over /\ first.fits => HeldBy(first, texts[k], f))
  BY <1>4, <1>5, <1>6 DEF SetIn
<1> QED
  BY <1>7 DEF f, over, shown, first

LEMMA GroupSizeIs ==
  ASSUME NEW desc, NEW texts, TextsFor(desc, texts), NEW k \in Placed(desc, texts)
  PROVE  LET size == GroupSize(desc, texts, desc.fields[k].group)
         IN  size \in Nat \ {0} /\ size <= First(desc, texts, k).size
<1> DEFINE first(j) == First(desc, texts, j)  group == desc.fields[k].group
           alone == {j \in Placed(desc, texts) : desc.fields[j].group = group}
           S == {first(j).size : j \in alone}
<1>1. GroupSize(desc, texts, group) = Min(S)
  BY DEF GroupSize
<1>2. \A j \in alone : first(j).size \in Nat \ {0}
  <2>1. \A j \in alone : j \in 1 .. Len(texts)
    BY TextsIn
  <2> QED
    BY <2>1, FirstIs DEF SetIn
<1>3. k \in alone
  OBVIOUS
<1> HIDE DEF alone, first
<1>4. S \subseteq Nat /\ S # {} /\ (\A x \in S : x # 0) /\ first(k).size \in S
  BY <1>2, <1>3
<1> HIDE DEF S
<1>5. Min(S) \in S /\ Min(S) <= first(k).size
  BY <1>4, MinIs
<1>6. Min(S) \in Nat \ {0}
  BY <1>4, <1>5
<1> QED
  BY <1>1, <1>5, <1>6 DEF first

LEMMA OtherSize ==
  ASSUME NEW f \in FieldSpec, NEW n \in Nat \ {0}
  PROVE  LET spec == [f EXCEPT !.font = n, !.floor = n]
         IN  /\ FieldOk(spec) /\ spec.width = f.width /\ spec.height = f.height
             /\ Sizes(spec) = {n} /\ \A text, s : Lines(text, spec, s) = Lines(text, f, s)
<1> DEFINE spec == [f EXCEPT !.font = n, !.floor = n]
<1>1. FieldOk(spec)
  BY SpecOk1
<1>2. DOMAIN f = {"name", "when", "auto", "default", "label", "page", "fit", "multiline", "width", "height", "font",
                  "floor", "group", "attached", "inline", "at", "forced", "near", "esign"}
  BY DEF FieldSpec
<1>3. /\ spec.width = f.width /\ spec.height = f.height /\ spec.fit = f.fit /\ spec.multiline = f.multiline
      /\ spec.font = n /\ spec.floor = n
  BY <1>2
<1> HIDE DEF spec
<1>4. CanWrap(spec) <=> CanWrap(f)
  BY <1>3 DEF CanWrap
<1>5. ASSUME NEW text, NEW s PROVE Lines(text, spec, s) = Lines(text, f, s)
  BY <1>3, <1>4 DEF Lines
<1>6. Sizes(spec) = {n}
  <2>1. Floor(spec) = n
    BY <1>3 DEF Floor
  <2>2. Min({n, n}) \in {n, n}
    BY MinTwo
  <2>3. Min({Floor(spec), spec.font}) = n
    BY <1>3, <2>1, <2>2
  <2>4. n .. n = {n}
    OBVIOUS
  <2> QED
    BY <1>3, <2>3, <2>4 DEF Sizes
<1> QED
  BY <1>1, <1>3, <1>5, <1>6 DEF spec

\* Related values have one size; what fitted its box still does.
LEMMA FittedIs ==
  ASSUME NEW desc, NEW texts, TextsFor(desc, texts), NEW k \in Placed(desc, texts)
  PROVE  LET fitted == Fitted(desc, texts, k)  f == desc.fields[k]
         IN  /\ SetIn(fitted, Shown(desc, texts, k), f)
             /\ f.group # "none" => fitted.size = GroupSize(desc, texts, f.group)
             /\ k \notin Overflows(desc, texts) /\ First(desc, texts, k).fits => HeldBy(fitted, texts[k], f)
<1> DEFINE f == desc.fields[k]  over == k \in Overflows(desc, texts)  shown == Shown(desc, texts, k)  text == texts[k]
           first == First(desc, texts, k)  size == GroupSize(desc, texts, f.group)
           spec == [f EXCEPT !.font = size, !.floor = size]  again == Fit(shown, spec)  fitted == Fitted(desc, texts, k)
<1>0. k \in 1 .. Len(texts)
  BY TextsIn
<1>1. k \in 1 .. Len(texts) /\ f \in FieldSpec
  BY <1>0, FieldOfIs
<1>2. IsSeqs(shown) /\ (~over => shown = text)
  BY <1>1, ShownIs
<1>3. SetIn(first, shown, f) /\ (~over /\ first.fits => HeldBy(first, text, f))
  BY <1>1, FirstIs
<1>4. size \in Nat \ {0} /\ size <= first.size
  BY GroupSizeIs
<1>5. fitted = IF f.group = "none" \/ first.size <= size THEN first ELSE again
  BY DEF Fitted
<1>6. /\ FieldOk(spec) /\ spec.width = f.width /\ spec.height = f.height /\ Sizes(spec) = {size}
      /\ \A t, s : Lines(t, spec, s) = Lines(t, f, s)
  BY <1>1, <1>4, OtherSize
<1>7. FieldOk(f) /\ f.width \in Nat /\ f.height \in Nat
  BY <1>1, SpecOk1 DEF FieldOk
<1> HIDE DEF f, over, shown, text, first, size, spec, fitted
<1>8. CASE f.group = "none" \/ first.size <= size
  <2>1. fitted = first
    BY <1>5, <1>8
  <2>2. f.group # "none" => first.size = size
    <3>1. first.size \in Nat
      BY <1>3 DEF SetIn
    <3> QED
      BY <1>4, <1>8, <3>1
  <2> QED
    BY <1>3, <2>1, <2>2 DEF f, over, shown, text, first, size, fitted
<1>9. CASE ~(f.group = "none" \/ first.size <= size)
  <2>1. fitted = again
    BY <1>5, <1>9
  <2>2. SetIn(again, shown, spec) /\ (again.fits => HeldBy(again, shown, spec))
    BY <1>2, <1>6, FitSets
  <2>3. again.size = size /\ (FitsAt(shown, spec, size) => again.fits)
    BY <1>2, <1>6, FitIs
  <2> HIDE DEF again
  <2>4. ASSUME ~over, first.fits PROVE HeldBy(again, text, f)
    <3>1. FitsAt(text, f, first.size) /\ shown = text /\ first.size \in Nat \ {0}
      BY <1>2, <1>3, <2>4 DEF HeldBy, SetIn
    <3>2. FitsAt(text, f, size)
      BY <1>2, <1>4, <1>7, <3>1, FitsSmaller
    <3>3. FitsAt(text, spec, size)
      BY <1>6, <3>2 DEF FitsAt
    <3>4. again.fits /\ again.lines = Lines(text, spec, size)
      BY <2>2, <2>3, <3>1, <3>3 DEF HeldBy
    <3> QED
      BY <1>6, <2>3, <3>2, <3>4 DEF HeldBy
  <2> QED
    BY <2>1, <2>2, <2>3, <2>4 DEF f, over, shown, text, first, size, fitted, SetIn
<1> QED
  BY <1>8, <1>9

-----------------------------------------------------------------------------
(* The columns of a form.                                                  *)

\* The two ends of a stretch around the box, between which no rule divides it.
Between(spec, ends) ==
  /\ ends[1] \in Nat /\ ends[2] \in Nat /\ ends[1] <= spec.at /\ spec.at + spec.width <= ends[2]
  /\ \A c \in spec.near.borders : (c <= spec.at => c <= ends[1]) /\ (c >= spec.at + spec.width => c >= ends[2])

LEMMA PlaceOk ==
  ASSUME NEW f \in FieldSpec
  PROVE  /\ f.at \in Nat /\ f.width \in Nat /\ f.near.cell \in Seq(Nat) /\ f.near.rule \in Seq(Nat)
         /\ f.near.borders \subseteq Nat
  BY DEF FieldSpec

LEMMA StretchIs ==
  ASSUME NEW f \in FieldSpec, Spanned(f), f.near.rule # << >>
  PROVE  Between(f, Stretch(f))
<1> DEFINE rule == f.near.rule  right == f.at + f.width  borders == f.near.borders
           L == {rule[1]} \cup {c \in borders : c <= f.at}  R == {rule[2]} \cup {c \in borders : c >= right}
<1>1. f.at \in Nat /\ f.width \in Nat /\ rule \in Seq(Nat) /\ borders \subseteq Nat /\ right \in Nat
  BY PlaceOk
<1>2. Len(rule) = 2 /\ rule[1] <= f.at /\ right <= rule[2]
  BY DEF Spanned
<1>3. rule[1] \in Nat /\ rule[2] \in Nat
  BY <1>1, <1>2
<1>4. Stretch(f) = <<Max(L), Min(R)>>
  BY DEF Stretch
<1> HIDE DEF rule, right, borders
<1>5. L \subseteq 0 .. f.at /\ L # {} /\ R \subseteq Nat /\ R # {}
  <2>1. \A c \in borders : c \in Nat
    BY <1>1
  <2>2. rule[1] \in 0 .. f.at
    BY <1>1, <1>2, <1>3
  <2>3. ASSUME NEW c \in borders, c <= f.at PROVE c \in 0 .. f.at
    BY <1>1, <2>1, <2>3
  <2> QED
    BY <1>3, <2>1, <2>2, <2>3
<1>6. /\ Max(L) \in L /\ \A y \in L : Max(L) >= y
      /\ Min(R) \in R /\ \A y \in R : Min(R) <= y
  BY <1>1, <1>5, MaxIs, MinIs
<1> DEFINE a == Max(L)  b == Min(R)
<1>7. a \in 0 .. f.at /\ a \in Nat /\ a <= f.at
  <2>1. a \in L
    BY <1>6
  <2> HIDE DEF a
  <2>2. a \in 0 .. f.at
    BY <1>5, <2>1
  <2> QED
    BY <1>1, <2>2
<1>8. b \in Nat /\ right <= b
  BY <1>1, <1>2, <1>3, <1>5, <1>6
<1>9. ASSUME NEW c \in borders PROVE (c <= f.at => c <= a) /\ (c >= right => c >= b)
  BY <1>1, <1>6, <1>7, <1>8
<1>10. Stretch(f)[1] = a /\ Stretch(f)[2] = b
  BY <1>4
<1> HIDE DEF a, b, L, R
<1> QED
  BY <1>7, <1>8, <1>9, <1>10 DEF Between, borders, right

LEMMA ExtentIs ==
  ASSUME NEW f \in FieldSpec, Spanned(f)
  PROVE  Between(f, Extent(f))
<1> DEFINE cell == f.near.cell  rule == f.near.rule  right == f.at + f.width  alone == <<f.at, right>>
           none == f.forced \notin {"", Layout(f)} \/ Layout(f) \in {"none", "labeled"}
           boxed == f.forced \in {"", "box"} /\ Layout(f) = "box" /\ cell # << >> /\ ~f.near.beside
<1>1. f.at \in Nat /\ f.width \in Nat /\ cell \in Seq(Nat) /\ f.near.borders \subseteq Nat /\ right \in Nat /\ f.at <= right
  BY PlaceOk
<1>2. Extent(f) = CASE none -> alone [] boxed -> cell [] OTHER -> Stretch(f)
  BY DEF Extent
<1>3. CASE none
  <2>1. Extent(f) = alone
    <3>1. none /\ boxed => FALSE
      OBVIOUS
    <3> QED
      BY <1>2, <1>3, <3>1
  <2>2. alone[1] = f.at /\ alone[2] = right
    OBVIOUS
  <2> HIDE DEF alone, none
  <2> QED
    BY <1>1, <2>1, <2>2 DEF Between
<1>4. CASE ~none /\ boxed
  <2>1. Extent(f) = cell
    BY <1>2, <1>4
  <2>2. /\ Len(cell) = 2 /\ cell[1] <= f.at /\ right <= cell[2]
        /\ \A c \in f.near.borders : (c <= f.at => c <= cell[1]) /\ (c >= right => c >= cell[2])
    BY <1>4 DEF Spanned
  <2>3. cell[1] \in Nat /\ cell[2] \in Nat
    BY <1>1, <2>2
  <2> HIDE DEF none, boxed, cell
  <2> QED
    BY <2>1, <2>2, <2>3 DEF Between
<1>5. CASE ~none /\ ~boxed
  <2>1. Extent(f) = Stretch(f)
    BY <1>2, <1>5
  <2>2. Layout(f) \in {"box", "line"}
    BY <1>5 DEF Layout
  <2>3. rule # << >>
    BY <1>5, <2>2 DEF Layout
  <2> QED
    BY <2>1, <2>3, StretchIs
<1> QED
  BY <1>3, <1>4, <1>5

\* In the middle of what is wider.
LEMMA Centred ==
  ASSUME NEW a \in Nat, NEW b \in Nat, NEW l \in Nat, a + l <= b
  PROVE  LET x == (a + b - l) \div 2 IN x \in Nat /\ a <= x /\ x + l <= b
<1> DEFINE m == a + b - l  x == m \div 2
<1>1. m \in Nat /\ m >= a + a /\ m + l + l <= b + b
  OBVIOUS
<1> HIDE DEF m
<1>2. x \in Nat /\ x + x <= m /\ m < x + x + 2
  BY <1>1
<1> HIDE DEF x
<1>3. a <= x /\ x + l <= b
  BY <1>1, <1>2
<1> QED
  BY <1>2, <1>3 DEF m, x

\* A line that fits its box is within the column.
LEMMA ColumnKept ==
  ASSUME NEW f \in FieldSpec, Spanned(f), NEW fit, Len(fit.lines) = 1, Len(fit.lines[1]) * fit.size \in Nat,
         Len(fit.lines[1]) * fit.size <= f.width
  PROVE  InColumn(f, fit)
<1> DEFINE l == Len(fit.lines[1]) * fit.size  x == Start(f, fit)  right == f.at + f.width
           beside == (IF f.forced = "" THEN Layout(f) ELSE f.forced) = "labeled"  e == Extent(f)
<1>1. f.at \in Nat /\ f.width \in Nat /\ f.near.borders \subseteq Nat /\ right \in Nat
  BY PlaceOk
<1>2. Between(f, e)
  BY ExtentIs
<1>3. l \in Nat /\ l <= f.width
  OBVIOUS
<1>4. x = IF beside THEN f.at ELSE (e[1] + e[2] - l) \div 2
  <2>1. ~(Len(fit.lines) > 1)
    OBVIOUS
  <2> QED
    BY <2>1 DEF Start
<1>5. InColumn(f, fit) <=> \A c \in f.near.borders : (c <= f.at => c <= x) /\ (c >= right => x + l <= c)
  BY DEF InColumn
<1> HIDE DEF l, x, right, beside, e
<1>6. ASSUME NEW c \in f.near.borders PROVE (c <= f.at => c <= x) /\ (c >= right => x + l <= c)
  <2>0. c \in Nat
    BY <1>1
  <2>1. CASE beside
    <3>1. x = f.at /\ x + l <= right
      BY <1>1, <1>3, <1>4, <2>1 DEF right
    <3> QED
      BY <1>1, <1>3, <2>0, <3>1
  <2>2. CASE ~beside
    <3>1. /\ e[1] \in Nat /\ e[2] \in Nat /\ e[1] <= f.at /\ right <= e[2]
          /\ (c <= f.at => c <= e[1]) /\ (c >= right => c >= e[2])
      BY <1>2 DEF Between, right
    <3> DEFINE a == e[1]  b == e[2]  y == (a + b - l) \div 2
    <3>2. a \in Nat /\ b \in Nat /\ a <= f.at /\ right <= b /\ (c <= f.at => c <= a) /\ (c >= right => c >= b)
      BY <3>1
    <3>3. x = y
      BY <1>4, <2>2
    <3> HIDE DEF a, b
    <3>4. a + l <= b
      BY <1>1, <1>3, <3>2 DEF right
    <3>5. y \in Nat /\ a <= y /\ y + l <= b
      BY <1>3, <3>2, <3>4, Centred
    <3> HIDE DEF y
    <3> QED
      BY <1>1, <1>3, <2>0, <3>2, <3>3, <3>5
  <2> QED
    BY <2>1, <2>2
<1> QED
  BY <1>5, <1>6

-----------------------------------------------------------------------------
(* What the pages of a form show.                                          *)

\* The sheets behind a form, text after text.
SheetsOf(desc, texts) ==
  [k \in 1 .. Len(texts) |-> IF k \in Overflows(desc, texts) THEN Sheets(texts[k], desc.fields[k].label) ELSE << >>]

\* A page of a sheet, of which nothing is cut.
Uncut(page) == page.of = 0 /\ \A d \in page.drawn : d.fit.fits

\* What overflows goes under its label.
Labelled(desc, texts, k, label) == k \in Overflows(desc, texts) /\ desc.fields[k].label = label

LEMMA EachSheet ==
  ASSUME NEW desc, NEW texts, TextsFor(desc, texts), NEW k \in 1 .. Len(texts)
  PROVE  LET s == SheetsOf(desc, texts)[k]
         IN  /\ Worded(s) /\ \A i \in 1 .. Len(s) : Uncut(s[i])
             /\ \A label : SheetWords(s, label) = IF Labelled(desc, texts, k, label) THEN FlattenSeq(texts[k]) ELSE << >>
<1> DEFINE over == k \in Overflows(desc, texts)  own1 == desc.fields[k].label  s == SheetsOf(desc, texts)[k]
<1>1. s = IF over THEN Sheets(texts[k], own1) ELSE << >>
  BY DEF SheetsOf
<1>2. IsSeqs(texts[k])
  BY DEF TextsFor
<1>3. \A label : Labelled(desc, texts, k, label) <=> over /\ label = own1
  BY DEF Labelled
<1> HIDE DEF over, own1, s
<1>4. CASE over
  <2> DEFINE t == Sheets(texts[k], own1)
  <2>1. /\ Worded(t) /\ \A i \in 1 .. Len(t) : t[i].of = 0 /\ \A d \in t[i].drawn : d.fit.fits
        /\ \A l : SheetWords(t, l) = IF l = own1 THEN FlattenSeq(texts[k]) ELSE << >>
    BY <1>2, SheetsText
  <2> HIDE DEF t
  <2>2. s = t
    BY <1>1, <1>4 DEF t
  <2>3. \A i \in 1 .. Len(t) : Uncut(t[i])
    BY <2>1 DEF Uncut
  <2>4. \A l : SheetWords(t, l) = IF Labelled(desc, texts, k, l) THEN FlattenSeq(texts[k]) ELSE << >>
    BY <1>3, <1>4, <2>1
  <2> QED
    BY <2>1, <2>2, <2>3, <2>4 DEF s
<1>5. CASE ~over
  <2> DEFINE e == << >>
  <2>1. Worded(e) /\ (\A label : SheetWords(e, label) = << >>) /\ Len(e) = 0
    BY NoSheets, NoneSeq
  <2>2. s = e
    BY <1>1, <1>5
  <2> HIDE DEF e
  <2>3. \A i \in 1 .. Len(e) : Uncut(e[i])
    BY <2>1
  <2>4. \A l : SheetWords(e, l) = IF Labelled(desc, texts, k, l) THEN FlattenSeq(texts[k]) ELSE << >>
    BY <1>3, <1>5, <2>1
  <2> QED
    BY <2>1, <2>2, <2>3, <2>4 DEF s
<1> QED
  BY <1>4, <1>5

\* What the sheets of a form hold, under each label.
LEMMA AllSheets ==
  ASSUME NEW desc, NEW texts, TextsFor(desc, texts)
  PROVE  LET a == FlattenSeq(SheetsOf(desc, texts))
         IN  /\ Worded(a) /\ \A i \in 1 .. Len(a) : Uncut(a[i])
             /\ \A label : (\A j \in 1 .. Len(texts) : ~Labelled(desc, texts, j, label)) => SheetWords(a, label) = << >>
             /\ \A label : \A k \in 1 .. Len(texts) :
                  Labelled(desc, texts, k, label) /\ (\A j \in 1 .. Len(texts) \ {k} : ~Labelled(desc, texts, j, label))
                    => SheetWords(a, label) = FlattenSeq(texts[k])
<1> DEFINE ss == SheetsOf(desc, texts)  n == Len(texts)  a == FlattenSeq(ss)
<1>1. n \in Nat
  BY TextsIn
<1>2. /\ \A k \in 1 .. n : Worded(ss[k]) /\ \A i \in 1 .. Len(ss[k]) : Uncut(ss[k][i])
      /\ \A k \in 1 .. n : \A label : SheetWords(ss[k], label) = IF Labelled(desc, texts, k, label) THEN FlattenSeq(texts[k]) ELSE << >>
  BY EachSheet
<1>3. ss = [k \in 1 .. n |-> ss[k]]
  BY DEF SheetsOf
<1> HIDE DEF ss, n
<1>4. IsSeq(ss) /\ Len(ss) = n
  BY <1>1, <1>3, FcnSeq
<1>5. IsSeqs(ss)
  BY <1>2, <1>4 DEF IsSeqs, Worded
<1>6. ASSUME NEW label
      PROVE  LET tt == [k \in 1 .. n |-> SheetWords(ss[k], label)]
             IN  Worded(a) /\ SheetWords(a, label) = FlattenSeq(tt) /\ IsSeqs(tt) /\ Len(tt) = n
  <2> DEFINE tt == [k \in 1 .. n |-> SheetWords(ss[k], label)]
  <2>1. tt = [k \in 1 .. n |-> tt[k]] /\ \A k \in 1 .. n : tt[k] = SheetWords(ss[k], label)
    OBVIOUS
  <2> HIDE DEF tt
  <2>2. IsSeq(tt) /\ Len(tt) = n
    BY <1>1, <2>1, FcnSeq
  <2>3. \A k \in 1 .. n : IsSeq(tt[k])
    BY <1>2, <2>1, WordsOnIs
  <2>4. IsSeqs(tt)
    BY <2>2, <2>3 DEF IsSeqs
  <2>5. Worded(a) /\ SheetWords(a, label) = FlattenSeq(tt)
    BY <1>2, <1>4, <1>5, <2>1, <2>2, SheetWordsFlat
  <2> QED
    BY <2>2, <2>4, <2>5 DEF tt
<1>7. ASSUME NEW i \in 1 .. Len(a) PROVE Uncut(a[i])
  <2>1. IsSeq(a) /\ ToSet(a) = UNION {ToSet(ss[k]) : k \in 1 .. n}
    BY <1>4, <1>5, Flattened
  <2>2. a[i] \in ToSet(a)
    BY <2>1, SeqIs DEF ToSet
  <2> HIDE DEF a
  <2>3. PICK k \in 1 .. n : a[i] \in ToSet(ss[k])
    BY <2>1, <2>2
  <2>4. IsSeq(ss[k])
    BY <1>2 DEF Worded
  <2>5. PICK j \in 1 .. Len(ss[k]) : a[i] = ss[k][j]
    BY <2>3, <2>4, SeqIs DEF ToSet
  <2> QED
    BY <1>2, <2>5
<1>8. Worded(a)
  BY <1>6
<1>9. ASSUME NEW label, \A j \in 1 .. n : ~Labelled(desc, texts, j, label) PROVE SheetWords(a, label) = << >>
  <2> DEFINE tt == [k \in 1 .. n |-> SheetWords(ss[k], label)]
  <2>1. SheetWords(a, label) = FlattenSeq(tt) /\ IsSeqs(tt) /\ Len(tt) = n
    BY <1>6
  <2>2. \A i \in 1 .. n : tt[i] = << >>
    BY <1>2, <1>9
  <2> HIDE DEF tt
  <2> QED
    BY <2>1, <2>2, FlatNones
<1>10. ASSUME NEW label, NEW k \in 1 .. n, Labelled(desc, texts, k, label),
              \A j \in 1 .. n \ {k} : ~Labelled(desc, texts, j, label)
       PROVE  SheetWords(a, label) = FlattenSeq(texts[k])
  <2> DEFINE tt == [i \in 1 .. n |-> SheetWords(ss[i], label)]
  <2>1. SheetWords(a, label) = FlattenSeq(tt) /\ IsSeqs(tt) /\ Len(tt) = n
    BY <1>6
  <2>2. \A i \in 1 .. n : i # k => tt[i] = << >>
    BY <1>2, <1>10
  <2>3. tt[k] = FlattenSeq(texts[k])
    BY <1>2, <1>10
  <2> HIDE DEF tt
  <2>4. FlattenSeq(tt) = tt[k]
    BY <2>1, <2>2, FlatSole
  <2> QED
    BY <2>1, <2>3, <2>4
<1> QED
  BY <1>7, <1>8, <1>9, <1>10 DEF ss, n

\* The pages of a form, each of one that is filed.
LEMMA PagesAre ==
  ASSUME NEW desc, NEW meta, NEW data, NEW ranges, NEW ink, KeptPages(desc, ranges) \in Seq(1 .. desc.pages)
  PROVE  LET keep == KeptPages(desc, ranges)  pages == FormPages(desc, meta, data, ranges, ink)
         IN  /\ IsSeq(pages) /\ Len(pages) = Len(keep) /\ Len(keep) \in Nat /\ DOMAIN keep = 1 .. Len(keep)
             /\ \A i \in 1 .. Len(keep) :
                  /\ pages[i].of = keep[i] /\ keep[i] \in 1 .. desc.pages /\ pages[i].of # 0
                  /\ pages[i].printed = (IF ink THEN {} ELSE Baked(desc, keep[i]))
                  /\ pages[i].drawn = Drawn(desc, Texts(desc, meta, data), keep[i])
                  /\ pages[i].ticked = {b \in Marked(desc, meta, data) : desc.boxes[b] = keep[i]}
             /\ Worded(pages) /\ \A label : SheetWords(pages, label) = << >>
<1> DEFINE keep == KeptPages(desc, ranges)  pages == FormPages(desc, meta, data, ranges, ink)  n == Len(keep)
           page(i) == [of |-> keep[i], printed |-> IF ink THEN {} ELSE Baked(desc, keep[i]), label |-> "", number |-> 0,
                       total |-> 0, drawn |-> Drawn(desc, Texts(desc, meta, data), keep[i]),
                       ticked |-> {b \in Marked(desc, meta, data) : desc.boxes[b] = keep[i]}]
<1> HIDE DEF keep
<1>1. keep \in Seq(1 .. desc.pages)
  BY DEF keep
<1>2. n \in Nat /\ DOMAIN keep = 1 .. n /\ \A i \in 1 .. n : keep[i] \in 1 .. desc.pages
  <2> DEFINE S == 1 .. desc.pages
  <2>1. keep \in Seq(S)
    BY <1>1
  <2> HIDE DEF S
  <2>2. Len(keep) \in Nat /\ DOMAIN keep = 1 .. Len(keep) /\ \A i \in 1 .. Len(keep) : keep[i] \in S
    BY <2>1
  <2> QED
    BY <2>2 DEF S
<1>3. pages = [i \in 1 .. n |-> page(i)]
  BY <1>2 DEF FormPages, keep
<1>4. \A i \in 1 .. n :
        /\ page(i).of = keep[i]
        /\ page(i).printed = (IF ink THEN {} ELSE Baked(desc, keep[i]))
        /\ page(i).drawn = Drawn(desc, Texts(desc, meta, data), keep[i])
        /\ page(i).ticked = {b \in Marked(desc, meta, data) : desc.boxes[b] = keep[i]}
  OBVIOUS
<1>5. \A i \in 1 .. n : keep[i] # 0
  <2>1. \A x \in 1 .. desc.pages : x # 0
    OBVIOUS
  <2> QED
    BY <1>2, <2>1
<1> HIDE DEF page, pages
<1>6. pages = [i \in 1 .. n |-> pages[i]] /\ \A i \in 1 .. n : pages[i] = page(i)
  BY <1>3
<1> HIDE DEF n
<1>7. IsSeq(pages) /\ Len(pages) = n
  BY <1>2, <1>6, FcnSeq
<1>8. ASSUME NEW i \in 1 .. n, NEW label PROVE WordsOf(pages[i], label) = << >>
  BY <1>4, <1>5, <1>6 DEF WordsOf
<1>9. Worded(pages)
  BY <1>7, <1>8, NoneSeq DEF Worded
<1>10. ASSUME NEW label PROVE SheetWords(pages, label) = << >>
  <2> DEFINE ws == WordsOn(pages, label)
  <2>1. SheetWords(pages, label) = FlattenSeq(ws) /\ IsSeqs(ws) /\ Len(ws) = n /\ \A i \in 1 .. n : ws[i] = WordsOf(pages[i], label)
    BY <1>7, <1>9, WordsOnIs
  <2> HIDE DEF ws
  <2>2. \A i \in 1 .. Len(ws) : ws[i] = << >>
    BY <1>8, <2>1
  <2> QED
    BY <2>1, <2>2, FlatNones
<1> QED
  BY <1>2, <1>4, <1>5, <1>6, <1>7, <1>9, <1>10 DEF keep, pages, n

-----------------------------------------------------------------------------
(* FormInv: what a form has when it is done.                               *)

\* Of a form that is filled, the file has the pages that are kept and, behind
\* them or beside them, the sheets; then the places to sign.
FormShape == DOMAIN form = {"stage", "desc", "req", "pages", "beside", "fields"}

PagesNow  == FormPages(form.desc, form.req.meta, form.req.data, form.req.pages, form.req.ink)
SheetsNow == Attachments(form.desc, form.req.meta, form.req.data)
FieldsNow == IF form.req.ink THEN {} ELSE SignFields(form.desc, form.req.meta, FormKeep)

AskedFor    == form.desc \in FormDescs /\ form.req \in FormAsks /\ SpecOk(form.req.pages, form.desc.pages)
HasSheets   == IF form.req.ink THEN form.pages = PagesNow /\ form.beside = SheetsNow ELSE form.pages = PagesNow \o SheetsNow

FormInv ==
  /\ FormShape /\ form.stage \in {"idle", "attach", "fields", "done"}
  /\ form.stage # "idle" => AskedFor
  /\ form.stage = "attach" => form.pages = PagesNow
  /\ form.stage \in {"fields", "done"} => HasSheets
  /\ form.stage = "done" => form.fields = FieldsNow

LEMMA FormStep == FormInv /\ [PleadNext]_pleadVars => FormInv'
<1> SUFFICES ASSUME FormInv, [PleadNext]_pleadVars PROVE FormInv'
  OBVIOUS
<1>0. FormShape
  BY DEF FormInv
<1>1. CASE UNCHANGED form
  BY <1>1 DEF FormInv, FormShape, AskedFor, HasSheets, PagesNow, SheetsNow, FieldsNow, FormKeep
<1>2. ASSUME NEW desc \in FormDescs, NEW req \in FormAsks, FillForm(desc, req) PROVE FormInv'
  <2>1. form' = [form EXCEPT !.stage = "attach", !.desc = desc, !.req = req,
                   !.pages = FormPages(desc, req.meta, req.data, req.pages, req.ink)]
        /\ SpecOk(req.pages, desc.pages)
    BY <1>2 DEF FillForm, Fillable
  <2>2. /\ FormShape' /\ form'.stage = "attach" /\ form'.desc = desc /\ form'.req = req
        /\ form'.pages = FormPages(desc, req.meta, req.data, req.pages, req.ink)
    BY <1>0, <2>1 DEF FormShape
  <2> QED
    BY <2>1, <2>2 DEF FormInv, AskedFor, PagesNow
<1>3. CASE AttachSheets
  <2>1. form.stage = "attach" /\ AskedFor /\ form.pages = PagesNow
    BY <1>3 DEF AttachSheets, FormInv
  <2>2. form' = IF form.req.ink THEN [form EXCEPT !.stage = "fields", !.beside = SheetsNow]
                ELSE [form EXCEPT !.stage = "fields", !.pages = form.pages \o SheetsNow]
    BY <1>3 DEF AttachSheets, SheetsNow
  <2>3. /\ FormShape' /\ form'.stage = "fields" /\ form'.desc = form.desc /\ form'.req = form.req
        /\ form.req.ink => form'.pages = form.pages /\ form'.beside = SheetsNow
        /\ ~form.req.ink => form'.pages = form.pages \o SheetsNow
    <3>1. CASE form.req.ink
      BY <1>0, <2>2, <3>1 DEF FormShape
    <3>2. CASE ~form.req.ink
      BY <1>0, <2>2, <3>2 DEF FormShape
    <3> QED
      BY <3>1, <3>2
  <2>4. AskedFor' /\ PagesNow' = PagesNow /\ SheetsNow' = SheetsNow
    BY <2>1, <2>3 DEF AskedFor, PagesNow, SheetsNow
  <2>5. HasSheets'
    BY <2>1, <2>3, <2>4 DEF HasSheets
  <2> QED
    BY <2>3, <2>4, <2>5 DEF FormInv
<1>4. CASE WriteFormFields
  <2>1. form.stage = "fields" /\ AskedFor /\ HasSheets
    BY <1>4 DEF WriteFormFields, FormInv
  <2>2. form' = [form EXCEPT !.stage = "done", !.fields = FieldsNow]
    BY <1>4 DEF WriteFormFields, FieldsNow, FormKeep
  <2>3. /\ FormShape' /\ form'.stage = "done" /\ form'.desc = form.desc /\ form'.req = form.req
        /\ form'.pages = form.pages /\ form'.beside = form.beside /\ form'.fields = FieldsNow
    BY <1>0, <2>2 DEF FormShape
  <2>4. AskedFor' /\ PagesNow' = PagesNow /\ SheetsNow' = SheetsNow /\ FieldsNow' = FieldsNow
    BY <2>1, <2>3 DEF AskedFor, PagesNow, SheetsNow, FieldsNow, FormKeep
  <2>5. HasSheets'
    BY <2>1, <2>3, <2>4 DEF HasSheets
  <2> QED
    BY <2>3, <2>4, <2>5 DEF FormInv
<1>5. CASE EndForm
  <2>1. form' = [NoForm EXCEPT !.beside = form.beside]
    BY <1>5 DEF EndForm
  <2>2. FormShape' /\ form'.stage = "idle"
    BY <2>1 DEF FormShape, NoForm
  <2> QED
    BY <2>2 DEF FormInv
<1>6. UNCHANGED form \/ (\E desc \in FormDescs, req \in FormAsks : FillForm(desc, req))
      \/ AttachSheets \/ WriteFormFields \/ EndForm
  BY DEF PleadNext, pleadVars, FillAlone
<1> QED
  BY <1>1, <1>2, <1>3, <1>4, <1>5, <1>6

THEOREM FormHolds == PleadSpec => []FormInv
<1>1. PleadInit => FormInv
  BY DEF PleadInit, FormInit, NoForm, FormInv, FormShape
<1> QED
  BY <1>1, FormStep, PTL DEF PleadSpec

\* What is asked for, of the forms and the values there are.
LEMMA AskedIs ==
  ASSUME NEW desc \in FormDescs, NEW req \in FormAsks, SpecOk(req.pages, desc.pages)
  PROVE  LET texts == Texts(desc, req.meta, req.data)
         IN  /\ DescOk(desc) /\ AskOk(desc, req) /\ KeptPages(desc, req.pages) \in Seq(1 .. desc.pages)
             /\ TextsFor(desc, texts) /\ DOMAIN desc.fields = 1 .. Len(texts)
<1> DEFINE texts == Texts(desc, req.meta, req.data)  fs == desc.fields
<1>1. DescOk(desc) /\ AskOk(desc, req)
  BY FormAssumption
<1>2. KeptPages(desc, req.pages) \in Seq(1 .. desc.pages)
  BY <1>1 DEF AskOk
<1>3. fs \in Seq(FieldSpec)
  BY <1>1 DEF DescOk
<1>4. texts = [k \in DOMAIN fs |-> texts[k]]
  BY DEF Texts
<1>5. \A k \in DOMAIN fs : texts[k] \in Seq(Seq(STRING))
  BY <1>1 DEF AskOk
<1> HIDE DEF texts, fs
<1>6. Len(fs) \in Nat /\ DOMAIN fs = 1 .. Len(fs)
  BY <1>3
<1>7. IsSeq(texts) /\ Len(texts) = Len(fs)
  BY <1>4, <1>6, FcnSeq
<1>8. ASSUME NEW x \in Seq(Seq(STRING)) PROVE IsSeqs(x)
  <2>1. IsSeq(x)
    BY DEF IsSeq
  <2>2. \A i \in 1 .. Len(x) : x[i] \in Seq(STRING)
    OBVIOUS
  <2> QED
    BY <2>1, <2>2 DEF IsSeqs, IsSeq
<1>9. \A k \in 1 .. Len(texts) : IsSeqs(texts[k])
  BY <1>5, <1>6, <1>7, <1>8
<1> QED
  BY <1>1, <1>2, <1>3, <1>6, <1>7, <1>9 DEF TextsFor, texts, fs

\* What a form that is done has.
PageOf(i) ==
  LET page == form.pages[i]  of == FormKeep[i]
  IN  /\ page.of = of /\ of # 0
      /\ page.printed = (IF form.req.ink THEN {} ELSE Baked(form.desc, of))
      /\ page.drawn = Drawn(form.desc, FormTexts, of)
      /\ page.ticked = {b \in Marked(form.desc, form.req.meta, form.req.data) : form.desc.boxes[b] = of}

DoneWell ==
  /\ DescOk(form.desc) /\ AskOk(form.desc, form.req)
  /\ TextsFor(form.desc, FormTexts) /\ DOMAIN form.desc.fields = 1 .. Len(FormTexts)
  /\ \A i \in DOMAIN FormKeep : PageOf(i)
  /\ \A i \in DOMAIN FormSheets : FormSheets[i].of = 0 => Uncut(FormSheets[i])
  /\ \A label : SheetWords(FormSheets, label) = SheetWords(FlattenSeq(SheetsOf(form.desc, FormTexts)), label)
  /\ form.fields = FieldsNow

LEMMA AttachmentsAre ==
  ASSUME NEW desc, NEW meta, NEW data, TextsFor(desc, Texts(desc, meta, data))
  PROVE  Attachments(desc, meta, data) = FlattenSeq(SheetsOf(desc, Texts(desc, meta, data)))
<1> DEFINE texts == Texts(desc, meta, data)
<1>1. DOMAIN texts = 1 .. Len(texts)
  BY TextsIn
<1> HIDE DEF texts
<1>2. Attachments(desc, meta, data) =
        FlattenSeq([k \in DOMAIN texts |-> IF k \in Overflows(desc, texts) THEN Sheets(texts[k], desc.fields[k].label) ELSE << >>])
  BY DEF Attachments, texts
<1>3. SheetsOf(desc, texts) =
        [k \in 1 .. Len(texts) |-> IF k \in Overflows(desc, texts) THEN Sheets(texts[k], desc.fields[k].label) ELSE << >>]
  BY DEF SheetsOf
<1> QED
  BY <1>1, <1>2, <1>3 DEF texts

LEMMA DoneIs ==
  ASSUME FormInv, form.stage = "done"
  PROVE  DoneWell
<1> DEFINE desc == form.desc  req == form.req  keep == KeptPages(desc, req.pages)  ps == PagesNow  a == SheetsNow  n == Len(keep)
           texts == Texts(desc, req.meta, req.data)
<1>1. desc \in FormDescs /\ req \in FormAsks /\ SpecOk(req.pages, desc.pages) /\ HasSheets /\ form.fields = FieldsNow
  BY DEF FormInv, AskedFor
<1>2. /\ DescOk(desc) /\ AskOk(desc, req) /\ keep \in Seq(1 .. desc.pages)
      /\ TextsFor(desc, texts) /\ DOMAIN desc.fields = 1 .. Len(texts)
  BY <1>1, AskedIs
<1>3. ps = FormPages(desc, req.meta, req.data, req.pages, req.ink)
  BY DEF PagesNow
<1>4. /\ IsSeq(ps) /\ Len(ps) = n /\ n \in Nat /\ DOMAIN keep = 1 .. n
      /\ \A i \in 1 .. n :
                  /\ ps[i].of = keep[i] /\ keep[i] \in 1 .. desc.pages /\ ps[i].of # 0
                  /\ ps[i].printed = (IF req.ink THEN {} ELSE Baked(desc, keep[i]))
                  /\ ps[i].drawn = Drawn(desc, texts, keep[i])
                  /\ ps[i].ticked = {b \in Marked(desc, req.meta, req.data) : desc.boxes[b] = keep[i]}
      /\ Worded(ps) /\ \A label : SheetWords(ps, label) = << >>
  BY <1>2, <1>3, PagesAre
<1>5. a = FlattenSeq(SheetsOf(desc, texts))
  BY <1>2, AttachmentsAre DEF SheetsNow
<1>6. Worded(a) /\ \A i \in 1 .. Len(a) : Uncut(a[i])
  BY <1>2, <1>5, AllSheets
<1>7. FormTexts = texts /\ FormKeep = keep
  BY DEF FormTexts, FormKeep
<1> HIDE DEF keep, ps, a, n, texts
<1>8. IF req.ink THEN form.pages = ps /\ form.beside = a ELSE form.pages = ps \o a
  BY <1>1 DEF HasSheets, ps, a
<1>9. IsSeq(a) /\ Len(a) \in Nat /\ DOMAIN a = 1 .. Len(a)
  BY <1>6, SeqIs DEF Worded
<1> DEFINE c == ps \o a
<1>10. /\ IsSeq(c) /\ Len(c) = n + Len(a) /\ \A i \in 1 .. n : c[i] = ps[i]
       /\ \A i \in 1 .. Len(a) : c[n + i] = a[i]
  BY <1>4, <1>9, Joined
<1>11. Worded(c) /\ \A label : SheetWords(c, label) = SheetWords(a, label)
  <2>0. Worded(ps) /\ Worded(a) /\ \A label : SheetWords(ps, label) = << >>
    BY <1>4, <1>6
  <2>1. ASSUME NEW label PROVE Worded(c) /\ SheetWords(c, label) = << >> \o SheetWords(a, label)
    <3>1. Worded(c) /\ SheetWords(c, label) = SheetWords(ps, label) \o SheetWords(a, label)
      BY <2>0, SheetWordsJoin
    <3> QED
      BY <2>0, <3>1
  <2>2. ASSUME NEW label PROVE << >> \o SheetWords(a, label) = SheetWords(a, label)
    BY <1>6, WordsOnIs, JoinNone
  <2> QED
    BY <2>1, <2>2
<1> HIDE DEF c
<1>12. ASSUME NEW i \in DOMAIN keep PROVE PageOf(i)
  <2>1. i \in 1 .. n
    BY <1>4
  <2>2. form.pages[i] = ps[i]
    BY <1>8, <1>10, <2>1 DEF c
  <2>3. /\ ps[i].of = keep[i] /\ ps[i].of # 0
        /\ ps[i].printed = (IF req.ink THEN {} ELSE Baked(desc, keep[i]))
        /\ ps[i].drawn = Drawn(desc, texts, keep[i])
        /\ ps[i].ticked = {b \in Marked(desc, req.meta, req.data) : desc.boxes[b] = keep[i]}
    BY <1>4, <2>1
  <2> QED
    BY <1>7, <2>2, <2>3 DEF PageOf
<1>13. ASSUME NEW i \in DOMAIN FormSheets, FormSheets[i].of = 0 PROVE Uncut(FormSheets[i])
  <2>1. CASE req.ink
    BY <1>6, <1>8, <1>9, <1>13, <2>1 DEF FormSheets
  <2>2. CASE ~req.ink
    <3>1. FormSheets = c
      BY <1>8, <2>2 DEF FormSheets, c
    <3>2. i \in 1 .. n + Len(a)
      BY <1>10, <1>13, <3>1, SeqIs
    <3>3. i \in 1 .. n \/ (i - n \in 1 .. Len(a) /\ n + (i - n) = i)
      BY <1>4, <1>9, <3>2, Halves
    <3>4. ~(i \in 1 .. n)
      BY <1>4, <1>10, <1>13, <3>1
    <3>5. c[n + (i - n)] = a[i - n]
      BY <1>10, <3>3, <3>4
    <3> QED
      BY <1>6, <3>1, <3>3, <3>4, <3>5
  <2> QED
    BY <2>1, <2>2
<1>14. ASSUME NEW label PROVE SheetWords(FormSheets, label) = SheetWords(a, label)
  <2>1. CASE req.ink
    BY <1>8, <2>1 DEF FormSheets
  <2>2. CASE ~req.ink
    BY <1>8, <1>11, <2>2 DEF FormSheets, c
  <2> QED
    BY <2>1, <2>2
<1> QED
  BY <1>1, <1>2, <1>5, <1>7, <1>12, <1>13, <1>14 DEF DoneWell

LEMMA SheetsWhole == DoneWell => SheetsUncut
  BY DEF DoneWell, SheetsUncut, Uncut

\* What is drawn on a page is a value, as large as its box and the related
\* ones let it.
LEMMA DrawnIs ==
  ASSUME NEW desc, NEW texts, NEW page, NEW d \in Drawn(desc, texts, page)
  PROVE  /\ d.field \in Placed(desc, texts) /\ desc.fields[d.field].page = page
         /\ d.fit = Fitted(desc, texts, d.field)
<1>1. PICK k \in {k \in Placed(desc, texts) : desc.fields[k].page = page} : d = [field |-> k, fit |-> Fitted(desc, texts, k)]
  BY DEF Drawn
<1>2. d.field = k /\ d.fit = Fitted(desc, texts, k)
  BY <1>1
<1> QED
  BY <1>1, <1>2

LEMMA SizesEven == DoneWell => GroupsEven
<1> SUFFICES ASSUME DoneWell, NEW i \in DOMAIN FormKeep, NEW j \in DOMAIN FormKeep,
                    NEW d \in form.pages[i].drawn, NEW e \in form.pages[j].drawn,
                    form.desc.fields[d.field].group = form.desc.fields[e.field].group,
                    form.desc.fields[d.field].group # "none"
             PROVE  d.fit.size = e.fit.size
  BY DEF GroupsEven
<1> DEFINE desc == form.desc  texts == FormTexts
<1>1. TextsFor(desc, texts) /\ PageOf(i) /\ PageOf(j)
  BY DEF DoneWell
<1>2. d \in Drawn(desc, texts, FormKeep[i]) /\ e \in Drawn(desc, texts, FormKeep[j])
  BY <1>1 DEF PageOf
<1>3. /\ d.field \in Placed(desc, texts) /\ d.fit = Fitted(desc, texts, d.field)
      /\ e.field \in Placed(desc, texts) /\ e.fit = Fitted(desc, texts, e.field)
  BY <1>2, DrawnIs
<1>4. d.fit.size = GroupSize(desc, texts, desc.fields[d.field].group)
  BY <1>1, <1>3, FittedIs
<1>5. e.fit.size = GroupSize(desc, texts, desc.fields[e.field].group)
  BY <1>1, <1>3, FittedIs
<1> QED
  BY <1>4, <1>5

LEMMA PlaceIs ==
  ASSUME NEW keep, NEW page \in ToSet(keep)
  PROVE  PlaceOf(keep, page) \in DOMAIN keep /\ keep[PlaceOf(keep, page)] = page
<1>1. \E i \in DOMAIN keep : keep[i] = page
  BY DEF ToSet
<1> QED
  BY <1>1 DEF PlaceOf

LEMMA SignsAre == DoneWell => SignsPlaced
<1> SUFFICES ASSUME DoneWell PROVE SignsPlaced
  OBVIOUS
<1>1. form.fields = IF form.req.ink THEN {} ELSE SignFields(form.desc, form.req.meta, FormKeep)
  BY DEF DoneWell, FieldsNow
<1>2. ASSUME NEW f \in form.fields PROVE form.pages[f.page].of = form.desc.fields[f.field].page
  <2>1. f \in SignFields(form.desc, form.req.meta, FormKeep)
    BY <1>1
  <2>2. \E k \in DOMAIN form.desc.fields :
          /\ form.desc.fields[k].page \in ToSet(FormKeep) /\ f.field = k
          /\ f.page = PlaceOf(FormKeep, form.desc.fields[k].page)
    <3> DEFINE desc == form.desc  ks == {k \in DOMAIN desc.fields :
              LET es == desc.fields[k].esign
              IN  /\ es.party # "" /\ desc.fields[k].page \in ToSet(FormKeep)
                  /\ es.when # "" => es.when \in form.req.meta.keys
                  /\ es.unless \notin form.req.meta.keys \cup DOMAIN form.req.meta.block}
               role(k) == IF desc.fields[k].esign.party \in ToSet(desc.parties)
                          THEN CHOOSE n \in DOMAIN desc.parties : desc.parties[n] = desc.fields[k].esign.party ELSE 1
    <3>1. SignFields(desc, form.req.meta, FormKeep) =
            {[field |-> k, page |-> PlaceOf(FormKeep, desc.fields[k].page), role |-> role(k)] : k \in ks}
      BY DEF SignFields
    <3>2. \A k \in ks : k \in DOMAIN desc.fields /\ desc.fields[k].page \in ToSet(FormKeep)
      OBVIOUS
    <3> HIDE DEF ks, role
    <3>3. PICK k \in ks : f = [field |-> k, page |-> PlaceOf(FormKeep, desc.fields[k].page), role |-> role(k)]
      BY <2>1, <3>1
    <3>4. f.field = k /\ f.page = PlaceOf(FormKeep, desc.fields[k].page)
      BY <3>3
    <3> QED
      BY <3>2, <3>4
  <2>3. PICK k \in DOMAIN form.desc.fields :
          /\ form.desc.fields[k].page \in ToSet(FormKeep) /\ f.field = k
          /\ f.page = PlaceOf(FormKeep, form.desc.fields[k].page)
    BY <2>2
  <2>4. f.page \in DOMAIN FormKeep /\ FormKeep[f.page] = form.desc.fields[k].page
    BY <2>3, PlaceIs
  <2>5. form.pages[f.page].of = FormKeep[f.page]
    BY <2>4 DEF DoneWell, PageOf
  <2> QED
    BY <2>3, <2>4, <2>5
<1>3. form.req.ink => form.fields = {}
  BY <1>1
<1> QED
  BY <1>2, <1>3 DEF SignsPlaced

LEMMA PrintedIs == DoneWell => OnlyPrinted
<1> SUFFICES ASSUME DoneWell, NEW w \in form.desc.widgets, w.page \in ToSet(FormKeep)
             PROVE  w.name \in form.pages[PlaceOf(FormKeep, w.page)].printed <=>
                      ~form.req.ink /\ w.name \notin form.desc.chrome /\ ~w.viewer
  BY DEF OnlyPrinted
<1> DEFINE i == PlaceOf(FormKeep, w.page)
<1>1. i \in DOMAIN FormKeep /\ FormKeep[i] = w.page
  BY PlaceIs
<1> HIDE DEF i
<1>2. form.pages[i].printed = IF form.req.ink THEN {} ELSE Baked(form.desc, w.page)
  BY <1>1 DEF DoneWell, PageOf
<1>3. \A v \in form.desc.widgets :
       /\ v.viewer => v.button \/ v.name \in form.desc.chrome
       /\ \A x \in form.desc.widgets : x.name = v.name /\ x.page = v.page => x.viewer = v.viewer
  BY DEF DoneWell, DescOk
<1>4. w.name \in Baked(form.desc, w.page) <=> \E v \in form.desc.widgets : v.page = w.page /\ ~Chrome(form.desc, v) /\ v.name = w.name
  BY DEF Baked
<1>5. \A v \in form.desc.widgets : Chrome(form.desc, v) <=> v.name \in form.desc.chrome \/ (v.button /\ v.viewer)
  BY DEF Chrome
<1>6. w.name \in Baked(form.desc, w.page) <=> w.name \notin form.desc.chrome /\ ~w.viewer
  <2>1. ASSUME w.name \notin form.desc.chrome, ~w.viewer PROVE w.name \in Baked(form.desc, w.page)
    BY <1>4, <1>5, <2>1
  <2>2. ASSUME NEW v \in form.desc.widgets, v.page = w.page, ~Chrome(form.desc, v), v.name = w.name
        PROVE  w.name \notin form.desc.chrome /\ ~w.viewer
    <3>1. v.name \notin form.desc.chrome /\ ~(v.button /\ v.viewer)
      BY <1>5, <2>2
    <3>2. ~v.viewer
      BY <1>3, <3>1
    <3>3. v.viewer = w.viewer
      BY <1>3, <2>2
    <3> QED
      BY <2>2, <3>1, <3>2, <3>3, Zenon
  <2> QED
    BY <1>4, <2>1, <2>2
<1> QED
  BY <1>2, <1>6 DEF i

-----------------------------------------------------------------------------
(* Where a value is.                                                       *)

Over(k) == k \in Overflows(form.desc, FormTexts)

\* A field of a form that is done, and its value.
LEMMA FieldDone ==
  ASSUME DoneWell, NEW k \in Placed(form.desc, FormTexts)
  PROVE  LET f == form.desc.fields[k]
         IN  /\ k \in 1 .. Len(FormTexts) /\ k \in Nat /\ k \in DOMAIN form.desc.fields /\ f \in FieldSpec /\ Spanned(f)
             /\ f.fit = "overflow_attachment" => f.label # ""
             /\ Boxes(f) \subseteq DOMAIN form.desc.boxes /\ (f.attached = f.inline => f.attached = "")
             /\ \A m \in 1 .. Len(FormTexts) : m # k =>
                  Apart(f, form.desc.fields[m]) /\ Apart(form.desc.fields[m], f)
             /\ FormTexts[k] # << >> /\ FlattenSeq(FormTexts[k]) # << >> /\ FlattenSeq(FormTexts[k]) # <<"see", f.label>>
<1> DEFINE desc == form.desc  fs == desc.fields  texts == FormTexts  n == Len(texts)
<1>1. TextsFor(desc, texts) /\ DOMAIN fs = 1 .. n /\ DescOk(desc) /\ AskOk(desc, form.req)
  BY DEF DoneWell
<1>2. n \in Nat /\ Placed(desc, texts) \subseteq 1 .. n
  BY <1>1, TextsIn
<1>3. k \in 1 .. n /\ k \in Nat
  BY <1>2
<1>4. fs[k] \in FieldSpec
  BY <1>1, <1>3, FieldOfIs
<1>5. \A i \in DOMAIN fs :
        /\ Spanned(fs[i]) /\ (fs[i].fit = "overflow_attachment" => fs[i].label # "")
        /\ Boxes(fs[i]) \subseteq DOMAIN desc.boxes /\ (fs[i].attached = fs[i].inline => fs[i].attached = "")
        /\ \A m \in DOMAIN fs \ {i} : Apart(fs[i], fs[m])
  BY <1>1 DEF DescOk
<1>6. texts = Texts(desc, form.req.meta, form.req.data)
  BY DEF FormTexts
<1>7. \A i \in DOMAIN fs : texts[i] # << >> => FlattenSeq(texts[i]) \notin {<< >>, <<"see", fs[i].label>>}
  BY <1>1, <1>6 DEF AskOk
<1>8. texts[k] # << >>
  BY DEF Placed
<1> HIDE DEF desc, fs, texts, n
<1>9. k \in DOMAIN fs
  BY <1>1, <1>3
<1>10. FlattenSeq(texts[k]) # << >> /\ FlattenSeq(texts[k]) # <<"see", fs[k].label>>
  BY <1>7, <1>8, <1>9
<1>11. /\ Spanned(fs[k]) /\ (fs[k].fit = "overflow_attachment" => fs[k].label # "")
       /\ Boxes(fs[k]) \subseteq DOMAIN desc.boxes /\ (fs[k].attached = fs[k].inline => fs[k].attached = "")
  BY <1>5, <1>9
<1>12. ASSUME NEW m \in 1 .. n, m # k PROVE Apart(fs[k], fs[m]) /\ Apart(fs[m], fs[k])
  <2>1. m \in DOMAIN fs \ {k} /\ k \in DOMAIN fs \ {m} /\ m \in DOMAIN fs
    BY <1>1, <1>9, <1>12
  <2> QED
    BY <1>5, <1>9, <2>1
<1> QED
  BY <1>3, <1>4, <1>8, <1>9, <1>10, <1>11, <1>12 DEF desc, fs, texts, n

\* What overflows is whole on the sheets, and nothing else is there.
LEMMA OnSheetsIs ==
  ASSUME DoneWell, NEW k \in Placed(form.desc, FormTexts)
  PROVE  OnSheets(k) <=> Over(k)
<1> DEFINE desc == form.desc  texts == FormTexts  n == Len(texts)  f(j) == desc.fields[j]  label == f(k).label
           a == FlattenSeq(SheetsOf(desc, texts))  text == FlattenSeq(texts[k])
<1>1. TextsFor(desc, texts) /\ SheetWords(FormSheets, label) = SheetWords(a, label)
  BY DEF DoneWell
<1>2. /\ k \in 1 .. n /\ (f(k).fit = "overflow_attachment" => label # "")
      /\ \A m \in 1 .. n : m # k => Apart(f(k), f(m)) /\ Apart(f(m), f(k))
      /\ text # << >>
  BY FieldDone
<1>3. /\ (\A j \in 1 .. n : ~Labelled(desc, texts, j, label)) => SheetWords(a, label) = << >>
      /\ Labelled(desc, texts, k, label) /\ (\A j \in 1 .. n \ {k} : ~Labelled(desc, texts, j, label))
           => SheetWords(a, label) = text
  <2>1. /\ \A l : (\A j \in 1 .. Len(texts) : ~Labelled(desc, texts, j, l)) => SheetWords(a, l) = << >>
        /\ \A l : \A i \in 1 .. Len(texts) :
             Labelled(desc, texts, i, l) /\ (\A j \in 1 .. Len(texts) \ {i} : ~Labelled(desc, texts, j, l))
               => SheetWords(a, l) = FlattenSeq(texts[i])
    BY <1>1, AllSheets
  <2> HIDE DEF a, label, desc, texts
  <2> QED
    BY <1>2, <2>1
<1>4. \A j : Labelled(desc, texts, j, label) <=> j \in Overflows(desc, texts) /\ f(j).label = label
  BY DEF Labelled
<1>5. \A j \in Overflows(desc, texts) : f(j).fit = "overflow_attachment"
  BY DEF Overflows
<1>6. OnSheets(k) <=> label # "" /\ SheetWords(FormSheets, label) = text
  BY DEF OnSheets
<1>7. ASSUME NEW j \in 1 .. n, j # k PROVE ~Labelled(desc, texts, j, label)
  <2>1. Apart(f(j), f(k))
    BY <1>2, <1>7
  <2>2. f(j).fit = "overflow_attachment" => f(j).label # f(k).label
    BY <2>1 DEF Apart
  <2> HIDE DEF f
  <2> QED
    BY <1>4, <1>5, <2>2
<1> HIDE DEF desc, texts, n, label, a, text
<1>8. CASE Over(k)
  <2>1. Labelled(desc, texts, k, label) /\ label # ""
    BY <1>2, <1>4, <1>5, <1>8 DEF Over, desc, texts, label
  <2>2. \A j \in 1 .. n \ {k} : ~Labelled(desc, texts, j, label)
    BY <1>7
  <2> QED
    BY <1>1, <1>3, <1>6, <1>8, <2>1, <2>2
<1>9. CASE ~Over(k)
  <2>1. ~Labelled(desc, texts, k, label)
    BY <1>4, <1>9 DEF Over, desc, texts
  <2>2. \A j \in 1 .. n : ~Labelled(desc, texts, j, label)
    BY <1>7, <2>1
  <2>3. SheetWords(FormSheets, label) = << >>
    BY <1>1, <1>3, <2>2
  <2> QED
    BY <1>2, <1>6, <1>9, <2>3
<1> QED
  BY <1>8, <1>9

\* What does not overflow, and is drawn as large as it must be to be read, is
\* whole in its box.
LEMMA InBoxIs ==
  ASSUME DoneWell, NEW k \in Placed(form.desc, FormTexts), form.desc.fields[k].page \in ToSet(FormKeep),
         First(form.desc, FormTexts, k).fits
  PROVE  InBox(k) <=> ~Over(k)
<1> DEFINE desc == form.desc  texts == FormTexts  f == desc.fields[k]  fitted == Fitted(desc, texts, k)
           text == FlattenSeq(texts[k])  shown == Shown(desc, texts, k)
<1>1. TextsFor(desc, texts) /\ \A i \in DOMAIN FormKeep : PageOf(i)
  BY DEF DoneWell
<1>2. k \in 1 .. Len(texts) /\ f \in FieldSpec /\ Spanned(f) /\ text # <<"see", f.label>>
  BY FieldDone
<1>3. /\ SetIn(fitted, shown, f)
      /\ ~Over(k) => HeldBy(fitted, texts[k], f)
  BY <1>1, FittedIs DEF Over
<1>4. /\ ~Over(k) => shown = texts[k]
      /\ Over(k) => FlattenSeq(shown) = <<"see", f.label>>
  BY <1>1, <1>2, ShownIs DEF Over
<1>5. InBox(k) <=>
        \E i \in DOMAIN FormKeep : \E d \in form.pages[i].drawn :
          /\ d.field = k /\ FlattenSeq(d.fit.lines) = text /\ d.fit.fits /\ form.pages[i].of = f.page
          /\ Len(d.fit.lines) = 1 => InColumn(f, d.fit)
  BY DEF InBox
<1>6. f.width \in Nat
  BY <1>2, PlaceOk
<1> HIDE DEF desc, texts, f, fitted, text, shown
<1>7. CASE Over(k)
  <2>1. FlattenSeq(fitted.lines) = FlattenSeq(shown)
    BY <1>3 DEF SetIn
  <2>2. FlattenSeq(fitted.lines) # text
    BY <1>2, <1>4, <1>7, <2>1
  <2>3. ASSUME NEW i \in DOMAIN FormKeep, NEW d \in form.pages[i].drawn, d.field = k
        PROVE  FlattenSeq(d.fit.lines) # text
    <3>1. d \in Drawn(desc, texts, FormKeep[i])
      BY <1>1 DEF PageOf, desc, texts
    <3>2. d.fit = Fitted(desc, texts, d.field)
      BY <3>1, DrawnIs
    <3>3. d.fit = fitted
      BY <2>3, <3>2 DEF fitted
    <3> QED
      BY <2>2, <3>3
  <2> QED
    BY <1>5, <1>7, <2>3
<1>8. CASE ~Over(k)
  <2> DEFINE i == PlaceOf(FormKeep, f.page)  d == [field |-> k, fit |-> fitted]
  <2>1. i \in DOMAIN FormKeep /\ FormKeep[i] = f.page
    BY PlaceIs DEF f, desc
  <2> HIDE DEF i
  <2>2. form.pages[i].of = f.page /\ form.pages[i].drawn = Drawn(desc, texts, f.page)
    BY <1>1, <2>1 DEF PageOf, desc, texts
  <2>3. d \in Drawn(desc, texts, f.page)
    BY DEF Drawn, desc, texts, f, fitted
  <2>4. d.field = k /\ d.fit = fitted
    OBVIOUS
  <2> HIDE DEF d
  <2>5. /\ fitted.size \in Nat \ {0} /\ IsSeqs(fitted.lines) /\ FlattenSeq(fitted.lines) = text
        /\ fitted.fits /\ fitted.lines = Lines(texts[k], f, fitted.size) /\ FitsAt(texts[k], f, fitted.size)
    BY <1>3, <1>4, <1>8 DEF SetIn, HeldBy, text
  <2>6. ASSUME Len(fitted.lines) = 1 PROVE InColumn(f, fitted)
    <3>1. \A j \in DOMAIN fitted.lines : Len(fitted.lines[j]) * fitted.size <= f.width
      BY <2>5 DEF FitsAt
    <3>2. IsSeq(fitted.lines) /\ \A j \in 1 .. Len(fitted.lines) : IsSeq(fitted.lines[j])
      BY <2>5 DEF IsSeqs
    <3>3. 1 \in 1 .. Len(fitted.lines)
      BY <2>6
    <3>4. 1 \in DOMAIN fitted.lines /\ Len(fitted.lines[1]) \in Nat
      BY <3>2, <3>3, SeqIs
    <3>5. Len(fitted.lines[1]) * fitted.size \in Nat
      BY <2>5, <3>4
    <3>6. Len(fitted.lines[1]) * fitted.size <= f.width
      BY <3>1, <3>4
    <3> QED
      BY <1>2, <2>6, <3>5, <3>6, ColumnKept
  <2>7. d \in form.pages[i].drawn
    BY <2>2, <2>3
  <2> QED
    BY <1>5, <1>8, <2>1, <2>2, <2>4, <2>5, <2>6, <2>7
<1> QED
  BY <1>7, <1>8

\* Of the boxes that say where a value is, the right one is ticked.
LEMMA BoxesSay ==
  ASSUME DoneWell, NEW k \in Placed(form.desc, FormTexts), NEW b \in OwnBoxes(k), form.desc.boxes[b] \in ToSet(FormKeep)
  PROVE  b \in TickedBoxes <=> IF b = form.desc.fields[k].attached THEN Over(k) ELSE ~Over(k)
<1> DEFINE desc == form.desc  texts == FormTexts  f(j) == desc.fields[j]  req == form.req
           marked == Marked(desc, req.meta, req.data)
           tied == {j \in DOMAIN texts : texts[j] # << >> /\ b \in {f(j).attached, f(j).inline}}
<1>1. TextsFor(desc, texts) /\ \A i \in DOMAIN FormKeep : PageOf(i)
  BY DEF DoneWell
<1>2. /\ k \in 1 .. Len(texts) /\ k \in Nat /\ texts[k] # << >>
      /\ Boxes(f(k)) \subseteq DOMAIN desc.boxes /\ (f(k).attached = f(k).inline => f(k).attached = "")
      /\ \A m \in 1 .. Len(texts) : m # k => Apart(f(k), f(m)) /\ Apart(f(m), f(k))
  BY FieldDone
<1>3. b \in {f(k).attached, f(k).inline} /\ b # "" /\ b \notin Explicit(req.meta, req.data)
  BY DEF OwnBoxes
<1>4. b \in Boxes(f(k)) /\ b \in DOMAIN desc.boxes
  BY <1>2, <1>3 DEF Boxes
<1>5. DOMAIN texts = 1 .. Len(texts)
  BY <1>1, TextsIn
<1>6. b \in TickedBoxes <=> b \in marked
  <2>1. b \in TickedBoxes <=> \E i \in DOMAIN FormKeep : b \in form.pages[i].ticked
    BY DEF TickedBoxes
  <2>2. \A i \in DOMAIN FormKeep : b \in form.pages[i].ticked <=> b \in marked /\ desc.boxes[b] = FormKeep[i]
    BY <1>1 DEF PageOf
  <2>3. \E i \in DOMAIN FormKeep : FormKeep[i] = desc.boxes[b]
    BY DEF ToSet
  <2> HIDE DEF marked, desc
  <2> QED
    BY <2>1, <2>2, <2>3
<1>7. b \in marked <=> Linked(desc, texts, b)
  <2>1. Texts(desc, req.meta, req.data) = texts
    BY DEF FormTexts
  <2>2. b \in marked <=> b \in DOMAIN desc.boxes /\
          IF b \in Explicit(req.meta, req.data) THEN Ticked(b, req.meta, req.data) ELSE Linked(desc, texts, b)
    BY <2>1 DEF Marked
  <2> QED
    BY <1>3, <1>4, <2>2
<1>8. Linked(desc, texts, b) <=>
        tied # {} /\ IF Max(tied) \in Overflows(desc, texts) THEN f(Max(tied)).attached = b ELSE f(Max(tied)).inline = b
  BY DEF Linked
<1>9. tied = {k}
  <2>1. k \in tied
    BY <1>2, <1>3, <1>5
  <2>2. ASSUME NEW j \in tied, j # k PROVE FALSE
    <3>1. j \in 1 .. Len(texts) /\ b \in {f(j).attached, f(j).inline}
      BY <1>5
    <3>2. Apart(f(k), f(j))
      BY <1>2, <2>2, <3>1
    <3>3. b \in Boxes(f(j))
      BY <1>3, <3>1 DEF Boxes
    <3> QED
      BY <1>4, <3>2, <3>3 DEF Apart
  <2> HIDE DEF tied
  <2> QED
    BY <2>1, <2>2
<1> HIDE DEF tied
<1>10. Max(tied) = k
  <2>0. k \in Nat
    BY <1>2
  <2>1. tied \subseteq 0 .. k /\ tied # {}
    <3>1. k \in 0 .. k
      BY <2>0
    <3> QED
      BY <1>9, <3>1
  <2>2. Max(tied) \in tied
    BY <2>0, <2>1, MaxIs
  <2> QED
    BY <1>9, <2>2
<1>11. Linked(desc, texts, b) <=> IF Over(k) THEN f(k).attached = b ELSE f(k).inline = b
  <2>1. tied # {}
    BY <1>9
  <2> QED
    BY <1>8, <1>10, <2>1 DEF Over
<1>12. f(k).attached # f(k).inline
  BY <1>2, <1>3
<1> HIDE DEF desc, texts, f, marked
<1>13. b \in TickedBoxes <=> IF b = f(k).attached THEN Over(k) ELSE ~Over(k)
  <2>1. b \in TickedBoxes <=> IF Over(k) THEN f(k).attached = b ELSE f(k).inline = b
    BY <1>6, <1>7, <1>11
  <2>2. CASE b = f(k).attached
    BY <1>12, <2>1, <2>2
  <2>3. CASE b # f(k).attached
    <3>1. b = f(k).inline
      BY <1>3, <2>3
    <3> QED
      BY <2>1, <2>3, <3>1
  <2> QED
    BY <2>2, <2>3
<1> QED
  BY <1>13 DEF f, desc

LEMMA ValuesAre == DoneWell => ValuesKept
<1> SUFFICES ASSUME DoneWell, NEW k \in Placed(form.desc, FormTexts),
                    form.desc.fields[k].page \in ToSet(FormKeep), First(form.desc, FormTexts, k).fits
             PROVE  ValueKept(k)
  BY DEF ValuesKept
<1>1. OnSheets(k) <=> Over(k)
  BY OnSheetsIs
<1>2. InBox(k) <=> ~Over(k)
  BY InBoxIs
<1>3. ASSUME NEW b \in OwnBoxes(k), form.desc.boxes[b] \in ToSet(FormKeep)
      PROVE  b \in TickedBoxes <=> IF b = form.desc.fields[k].attached THEN OnSheets(k) ELSE InBox(k)
  BY <1>1, <1>2, <1>3, BoxesSay
<1> QED
  BY <1>1, <1>2, <1>3 DEF ValueKept

\* Both ways to fill a form keep the text, for any form and any values of it
\* (FormsKept): what nothing was warned of is whole in its box or on its
\* sheets, the boxes and the places to sign say where (fill, fit_text,
\* _append_mc025_attachments), and so does the cover sheet of a packet.
THEOREM FormsAreKept ==
  ASSUME HoldsText
  PROVE  PleadSpec => []FormsKept
<1>1. FormInv => FormKept
  <2> SUFFICES ASSUME FormInv, form.stage = "done" PROVE ValuesKept /\ SheetsUncut /\ GroupsEven /\ SignsPlaced /\ OnlyPrinted
    BY DEF FormKept
  <2>1. DoneWell
    BY DoneIs
  <2> QED
    BY <2>1, ValuesAre, SheetsWhole, SizesEven, SignsAre, PrintedIs
<1>2. PleadSpec => []FormInv
  BY FormHolds
<1>3. PleadSpec => []CoverWhole
  BY CoverIsWhole
<1>4. FormInv /\ CoverWhole => FormsKept
  BY <1>1 DEF FormsKept
<1> QED
  BY <1>2, <1>3, <1>4, PTL
=============================================================================
