-------------------------- MODULE SlackTextProofs ---------------------------
(* Proofs about SlackText, for texts of any length over any names, urls,     *)
(* kinds and preview length: the three invariants of text_search.            *)
(*                                                                           *)
(* The operators go over a text from left to right, so each is first given   *)
(* by what one element more does to it (DropAppend, RunsAppend, SplitAppend, *)
(* PartsAppend, TextAppend), and what holds for <<>> and survives Append     *)
(* holds for all (Appending).  Then:                                         *)
(*  - the words of a text are its Parts, and a cut outside a word cuts them  *)
(*    in two (PartsConcat); so a stretch that no word runs out of has a      *)
(*    phrase for each of its words, which occurs in the index (StretchFound);*)
(*  - a page shows between two tags what the index has, and no word of the   *)
(*    index runs on where the page ends one (PageFaithful): what is picked   *)
(*    from the page is such a stretch of the index (PagePieceFound);         *)
(*  - dropping blanks behind an ideograph keeps the words (PartsDrop); what  *)
(*    JoinCjk drops is the same whether or not the marks of a hit are there, *)
(*    which is told by an increasing map of positions (Sub, BetweenKept,     *)
(*    SnippetClean);                                                         *)
(*  - make_preview spells what the page spells (KnownText).                  *)
EXTENDS SlackText, SequenceTheorems, WellFoundedInduction, TLAPS

-----------------------------------------------------------------------------
(* Induction, for sets of numbers and of sequences.                          *)

\* A set of natural numbers has a least one.
LEMMA Least ==
    ASSUME NEW T \in SUBSET Nat, T # {}
    PROVE  \E n \in T : \A m \in T : n <= m
<1>1. IsWellFoundedOn({xy \in Nat \X Nat : xy[1] < xy[2]}, Nat)
  BY NatLessThanWellFounded DEF OpToRel
<1>2. PICK n \in T : \A m \in T : ~(<<m, n>> \in {xy \in Nat \X Nat : xy[1] < xy[2]})
  BY <1>1, WFMin
<1>3. \A m \in T : ~(m < n)
  <2> SUFFICES ASSUME NEW m \in T, m < n PROVE FALSE
    OBVIOUS
  <2>1. <<m, n>> \in {xy \in Nat \X Nat : xy[1] < xy[2]}
    OBVIOUS
  <2> QED BY <2>1, <1>2
<1> QED BY <1>3

\* A set of numbers that holds 0 and, with a number, the next holds all.
LEMMA UpFrom0 ==
    ASSUME NEW n \in Nat, NEW P \in SUBSET (0..n), 0 \in P, \A i \in P : i < n => i + 1 \in P
    PROVE  P = 0..n
<1> SUFFICES ASSUME (0..n) \ P # {} PROVE FALSE
  OBVIOUS
<1>1. (0..n) \ P \in SUBSET Nat
  OBVIOUS
<1>2. PICK k \in (0..n) \ P : \A m \in (0..n) \ P : k <= m
  BY <1>1, Least
<1>3. k - 1 \in 0..n /\ k - 1 < k
  OBVIOUS
<1>4. k - 1 \in P
  BY <1>2, <1>3
<1> QED BY <1>2, <1>4

\* A set of sequences that holds <<>> and, with a sequence, each longer by
\* one element holds all.
LEMMA Appending ==
    ASSUME NEW C, NEW P \in SUBSET Seq(C), <<>> \in P,
           \A s \in P, c \in C : Append(s, c) \in P
    PROVE  P = Seq(C)
<1> SUFFICES ASSUME Seq(C) \ P # {} PROVE FALSE
  OBVIOUS
<1> DEFINE R == {Len(s) : s \in Seq(C) \ P}
<1>1. R \in SUBSET Nat /\ R # {}
  <2>1. \A s \in Seq(C) : Len(s) \in Nat
    OBVIOUS
  <2>2. PICK s \in Seq(C) \ P : TRUE
    OBVIOUS
  <2>3. Len(s) \in R
    BY <2>2
  <2> QED BY <2>1, <2>3
<1>2. PICK n \in R : \A m \in R : n <= m
  BY <1>1, Least
<1>3. PICK s \in Seq(C) \ P : n = Len(s)
  OBVIOUS
<1>4. PICK t \in Seq(C), c \in C : s = Append(t, c)
  BY <1>3, SequenceEmptyOrAppend
<1>5. Len(t) \in Nat /\ n = Len(t) + 1
  BY <1>3, <1>4, AppendProperties
<1>6. t \in P
  <2>1. t \notin P => Len(t) \in R
    OBVIOUS
  <2>2. Len(t) \in R => n <= Len(t)
    BY <1>2
  <2> QED BY <1>5, <2>1, <2>2
<1> QED BY <1>3, <1>4, <1>6

\* A recursive function on 0..n: there is one, and one only.
Steps(f, F, base, n) == f = [i \in 0..n |-> IF i = 0 THEN base ELSE F[<<f[i - 1], i>>]]

\* There is a function that satisfies its recursion.
LEMMA RecursionIs ==
    ASSUME NEW V, NEW n \in Nat, NEW F \in [V \X (1..n) -> V], NEW base \in V
    PROVE  \E f \in [0..n -> V] : Steps(f, F, base, n)
<1> DEFINE Is(f, m) == f = [i \in 0..m |-> IF i = 0 THEN base ELSE F[<<f[i - 1], i>>]]
           R == {m \in 0..n : \E f \in [0..m -> V] : Is(f, m)}
<1>1. 0 \in R
  <2>1. Is([i \in 0..0 |-> base], 0)
    OBVIOUS
  <2>2. [i \in 0..0 |-> base] \in [0..0 -> V]
    OBVIOUS
  <2> HIDE DEF Is
  <2> QED BY <2>1, <2>2
<1>2. ASSUME NEW m \in R, m < n PROVE m + 1 \in R
  <2> HIDE DEF Is
  <2>1. PICK f \in [0..m -> V] : Is(f, m)
    OBVIOUS
  <2>2. m \in Nat /\ m + 1 \in 1..n
    BY <1>2
  <2> DEFINE h == [i \in 0..(m + 1) |-> IF i = m + 1 THEN F[<<f[m], m + 1>>] ELSE f[i]]
  <2>3. f[m] \in V /\ F[<<f[m], m + 1>>] \in V
    BY <2>2
  <2>4. h \in [0..(m + 1) -> V]
    BY <2>2, <2>3
  <2>5. \A i \in 0..(m + 1) : h[i] = IF i = 0 THEN base ELSE F[<<h[i - 1], i>>]
    <3> TAKE i \in 0..(m + 1)
    <3>1. CASE i = m + 1
      <4>1. i # 0 /\ i - 1 = m /\ h[i] = F[<<f[m], m + 1>>] /\ h[i - 1] = f[m]
        BY <3>1, <2>2
      <4> HIDE DEF h
      <4> QED BY <4>1, <3>1
    <3>2. CASE i # m + 1
      <4>1. i \in 0..m /\ h[i] = f[i] /\ (i # 0 => i - 1 \in 0..m /\ h[i - 1] = f[i - 1])
        BY <3>2, <2>2
      <4>2. f[i] = IF i = 0 THEN base ELSE F[<<f[i - 1], i>>]
        BY <4>1, <2>1 DEF Is
      <4> HIDE DEF h
      <4> QED BY <4>1, <4>2
    <3> QED BY <3>1, <3>2
  <2>6. h = [i \in 0..(m + 1) |-> h[i]]
    OBVIOUS
  <2> HIDE DEF h
  <2>7. Is(h, m + 1)
    BY <2>5, <2>6 DEF Is
  <2> QED BY <2>2, <2>4, <2>7
<1>3. R \in SUBSET (0..n)
  OBVIOUS
<1> HIDE DEF R
<1>4. R = 0..n
  BY <1>1, <1>2, <1>3, UpFrom0
<1>5. n \in R
  BY <1>4
<1> QED BY <1>5 DEF R, Steps

\* Two functions that start alike and go on alike are alike.
Alike(f, g, n) == f[0] = g[0] /\ \A i \in 1..n : f[i - 1] = g[i - 1] => f[i] = g[i]

\* They are the same function.
LEMMA AlikeAre ==
    ASSUME NEW n \in Nat, NEW f, NEW g, Alike(f, g, n)
    PROVE  \A i \in 0..n : f[i] = g[i]
<1> DEFINE R == {i \in 0..n : f[i] = g[i]}
<1>1. 0 \in R /\ R \in SUBSET (0..n)
  BY DEF Alike
<1>2. ASSUME NEW i \in R, i < n PROVE i + 1 \in R
  <2>1. i + 1 \in 1..n /\ (i + 1) - 1 = i
    BY <1>2
  <2>2. f[i] = g[i]
    OBVIOUS
  <2> QED BY <2>1, <2>2 DEF Alike
<1> HIDE DEF R
<1>3. R = 0..n
  BY <1>1, <1>2, UpFrom0
<1> QED BY <1>3 DEF R

-----------------------------------------------------------------------------
(* Sequences.                                                                *)

\* FlattenSeq, by a function of the number of sequences.
Gathers(G, C, ss) ==
    /\ G \in [0..Len(ss) -> Seq(C)]
    /\ G[0] = <<>>
    /\ \A i \in 1..Len(ss) : G[i] = G[i - 1] \o ss[i]
    /\ FlattenSeq(ss) = G[Len(ss)]

\* FoldRight of FlattenSeq is such a function.
LEMMA Gathered == ASSUME NEW C, NEW ss \in Seq(Seq(C)) PROVE \E G : Gathers(G, C, ss)
<1> DEFINE n == Len(ss)
           F == [x \in Seq(C) \X (1..n) |-> x[1] \o ss[x[2]]]
<1>1. n \in Nat /\ \A i \in 1..n : ss[i] \in Seq(C)
  OBVIOUS
<1>2. F \in [Seq(C) \X (1..n) -> Seq(C)] /\ <<>> \in Seq(C)
  BY <1>1
<1>3. \A s \in Seq(C), i \in 1..n : F[<<s, i>>] = s \o ss[i]
  OBVIOUS
<1> HIDE DEF n, F
<1>4. PICK G \in [0..n -> Seq(C)] : Steps(G, F, <<>>, n)
  BY <1>1, <1>2, RecursionIs
<1>5. /\ G[0] = <<>>
      /\ \A i \in 1..n : G[i - 1] \in Seq(C) /\ G[i] = G[i - 1] \o ss[i]
  <2>1. \A i \in 0..n : G[i] = IF i = 0 THEN <<>> ELSE F[<<G[i - 1], i>>]
    BY <1>4 DEF Steps
  <2>2. 0 \in 0..n /\ \A i \in 1..n : i \in 0..n /\ i # 0 /\ i - 1 \in 0..n
    BY <1>1
  <2> QED BY <2>1, <2>2, <1>3
<1>6. CASE n = 0
  <2>1. FlattenSeq(ss) = <<>>
    BY <1>6 DEF FlattenSeq, n
  <2> QED BY <2>1, <1>5, <1>6 DEF Gathers, n
<1>7. CASE n # 0
  <2> DEFINE Is(f) == f = [i \in 1..n |-> IF i = 1 THEN ss[1] ELSE f[i - 1] \o ss[i]]
             g == [i \in 1..n |-> G[i]]
  <2>1. FlattenSeq(ss) = (CHOOSE f : Is(f))[n]
    BY <1>7 DEF FlattenSeq, n
  <2>2. G[1] = ss[1]
    <3>1. 1 \in 1..n /\ ss[1] \in Seq(C) /\ 1 - 1 = 0
      BY <1>1, <1>7
    <3>2. G[1] = <<>> \o ss[1]
      BY <3>1, <1>5
    <3> QED BY <3>1, <3>2, ConcatEmptySeq
  <2>3. \A i \in 1..n : i # 1 => i - 1 \in 1..n /\ i - 1 \in 0..n /\ i - 1 # 0
    BY <1>1
  <2>4. Is(g)
    <3>1. \A i \in 1..n : g[i] = G[i]
      OBVIOUS
    <3> HIDE DEF g
    <3>2. \A i \in 1..n : G[i] = IF i = 1 THEN ss[1] ELSE g[i - 1] \o ss[i]
      BY <1>5, <2>2, <2>3, <3>1
    <3> QED BY <3>1, <3>2 DEF g
  <2>5. ASSUME NEW f, Is(f) PROVE f = g
    <3> DEFINE h == [i \in 0..n |-> IF i = 0 THEN <<>> ELSE f[i]]
    <3>1. /\ f = [i \in 1..n |-> f[i]]
          /\ \A i \in 1..n : f[i] = IF i = 1 THEN ss[1] ELSE f[i - 1] \o ss[i]
      BY <2>5
    <3>2. h[0] = <<>> /\ \A i \in 1..n : h[i] = f[i]
      BY <1>1
    <3> HIDE DEF h, Is
    <3>3. Alike(h, G, n)
      <4> SUFFICES ASSUME NEW i \in 1..n, h[i - 1] = G[i - 1] PROVE h[i] = G[i]
        BY <3>2, <1>5 DEF Alike
      <4>1. CASE i = 1
        BY <4>1, <3>1, <3>2, <2>2
      <4>2. CASE i # 1
        <5>1. f[i - 1] = G[i - 1]
          BY <4>2, <2>3, <3>2
        <5> QED BY <5>1, <4>2, <3>1, <3>2, <1>5
      <4> QED BY <4>1, <4>2
    <3>4. \A i \in 0..n : h[i] = G[i]
      BY <3>3, <1>1, AlikeAre
    <3>5. \A i \in 1..n : f[i] = G[i]
      <4>1. \A i \in 1..n : i \in 0..n
        BY <1>1
      <4> QED BY <3>4, <3>2, <4>1
    <3> QED BY <3>1, <3>5
  <2> HIDE DEF Is
  <2>6. FlattenSeq(ss) = g[n]
    BY <2>1, <2>4, <2>5
  <2>7. n \in 1..n
    BY <1>1, <1>7
  <2> QED BY <2>6, <2>7, <1>5 DEF Gathers, n
<1> QED BY <1>6, <1>7

\* What one sequence more does to FlattenSeq.
Flattened(C, ss, s) ==
    /\ FlattenSeq(ss) \in Seq(C)
    /\ FlattenSeq(Append(ss, s)) = FlattenSeq(ss) \o s

\* One sequence more is concatenated.
LEMMA FlattenAppend ==
    ASSUME NEW C, NEW ss \in Seq(Seq(C)), NEW s \in Seq(C)
    PROVE  Flattened(C, ss, s)
<1> DEFINE n == Len(ss)
           new == Append(ss, s)
<1>1. /\ n \in Nat /\ Len(new) = n + 1 /\ new \in Seq(Seq(C))
      /\ \A i \in 1..n : new[i] = ss[i]
      /\ new[n + 1] = s
  OBVIOUS
<1> HIDE DEF n, new
<1>2. PICK G : Gathers(G, C, ss)
  BY Gathered
<1>3. PICK H : Gathers(H, C, new)
  BY <1>1, Gathered
<1>4. /\ G \in [0..n -> Seq(C)] /\ G[0] = <<>> /\ \A i \in 1..n : G[i] = G[i - 1] \o ss[i]
      /\ FlattenSeq(ss) = G[n]
  BY <1>2 DEF Gathers, n
<1>5. /\ H[0] = <<>> /\ \A i \in 1..(n + 1) : H[i] = H[i - 1] \o new[i]
      /\ FlattenSeq(new) = H[n + 1]
  BY <1>1, <1>3 DEF Gathers
<1>6. Alike(G, H, n)
  <2>1. \A i \in 1..n : i \in 1..(n + 1)
    BY <1>1
  <2> QED BY <2>1, <1>1, <1>4, <1>5 DEF Alike
<1>7. G[n] = H[n]
  <2>1. n \in 0..n
    BY <1>1
  <2> QED BY <2>1, <1>1, <1>6, AlikeAre
<1>8. H[n + 1] = H[n] \o s
  <2>1. n + 1 \in 1..(n + 1) /\ (n + 1) - 1 = n
    BY <1>1
  <2> QED BY <2>1, <1>1, <1>5
<1>9. G[n] \in Seq(C)
  BY <1>1, <1>4
<1> QED BY <1>4, <1>5, <1>7, <1>8, <1>9 DEF Flattened, new

\* No sequence, no element.
LEMMA FlattenNothing == FlattenSeq(<<>>) = <<>>
  BY DEF FlattenSeq

\* Runs, by a function of the number of characters.
RunsFirst(R, s, S) ==
    /\ R[0] = <<>>
    /\ \A i \in 1..Len(s) :
          R[i] = IF s[i] \notin S THEN R[i - 1]
                 ELSE IF i > 1 /\ s[i - 1] \in S
                 THEN [R[i - 1] EXCEPT ![Len(R[i - 1])] = Append(@, s[i])]
                 ELSE Append(R[i - 1], <<s[i]>>)
    /\ Runs(s, S) = R[Len(s)]

\* The recursion of Runs has a solution, and its value is the last one.
LEMMA RunsAre ==
    ASSUME NEW C, NEW s \in Seq(C), NEW S
    PROVE  \E R \in [0..Len(s) -> Seq(Seq(C))] : RunsFirst(R, s, S)
<1> DEFINE n == Len(s)
           V == Seq(Seq(C))
           After(r, i) == IF s[i] \notin S THEN r
                          ELSE IF i > 1 /\ s[i - 1] \in S THEN [r EXCEPT ![Len(r)] = Append(@, s[i])]
                          ELSE Append(r, <<s[i]>>)
           F == [x \in V \X (1..n) |-> After(x[1], x[2])]
<1>1. n \in Nat /\ \A i \in 1..n : s[i] \in C
  OBVIOUS
<1>2. ASSUME NEW r \in V, NEW i \in 1..n PROVE After(r, i) \in V
  <2>1. s[i] \in C /\ <<s[i]>> \in Seq(C)
    BY <1>1
  <2>2. Append(r, <<s[i]>>) \in V
    BY <2>1
  <2>3. [r EXCEPT ![Len(r)] = Append(@, s[i])] \in V
    <3>1. CASE r = <<>>
      <4>1. [r EXCEPT ![Len(r)] = Append(@, s[i])] = r
        BY <3>1
      <4> QED BY <4>1
    <3>2. CASE r # <<>>
      <4>1. Len(r) \in 1..Len(r) /\ r[Len(r)] \in Seq(C)
        BY <3>2
      <4>2. Append(r[Len(r)], s[i]) \in Seq(C)
        BY <4>1, <2>1
      <4> QED BY <4>1, <4>2, ExceptSeq
    <3> QED BY <3>1, <3>2
  <2> QED BY <2>2, <2>3
<1>3. \A r \in V, i \in 1..n : F[<<r, i>>] = After(r, i)
  OBVIOUS
<1>4. F \in [V \X (1..n) -> V]
  <2> HIDE DEF After, V, n
  <2> QED BY <1>2
<1>5. <<>> \in V
  OBVIOUS
<1> HIDE DEF n, F, V
<1>6. PICK R \in [0..n -> V] : Steps(R, F, <<>>, n)
  BY <1>1, <1>4, <1>5, RecursionIs
<1>7. R[0] = <<>> /\ \A i \in 1..n : R[i] = After(R[i - 1], i)
  <2> HIDE DEF After
  <2>1. \A i \in 0..n : R[i] = IF i = 0 THEN <<>> ELSE F[<<R[i - 1], i>>]
    BY <1>6 DEF Steps
  <2>2. 0 \in 0..n /\ \A i \in 1..n : i \in 0..n /\ i # 0 /\ i - 1 \in 0..n
    BY <1>1
  <2> QED BY <2>1, <2>2, <1>3
<1> DEFINE Is(f) == f = [i \in 0..n |-> IF i = 0 THEN <<>> ELSE After(f[i - 1], i)]
<1>8. Runs(s, S) = (CHOOSE f : Is(f))[n]
  BY DEF Runs, n
<1> HIDE DEF After
<1>9. Is(R)
  <2>1. \A i \in 0..n : R[i] = IF i = 0 THEN <<>> ELSE After(R[i - 1], i)
    BY <1>1, <1>7
  <2> QED BY <2>1, <1>6
<1>10. ASSUME NEW f, Is(f) PROVE f = R
  <2>1. f = [i \in 0..n |-> f[i]] /\ \A i \in 0..n : f[i] = IF i = 0 THEN <<>> ELSE After(f[i - 1], i)
    BY <1>10
  <2>2. Alike(f, R, n)
    BY <1>1, <1>7, <2>1 DEF Alike
  <2>3. \A i \in 0..n : f[i] = R[i]
    BY <2>2, <1>1, AlikeAre
  <2> QED BY <2>1, <2>3, <1>6
<1> HIDE DEF Is
<1>11. Runs(s, S) = R[n]
  BY <1>8, <1>9, <1>10
<1> USE DEF After
<1> QED BY <1>6, <1>7, <1>11 DEF RunsFirst, n, V

\* One element more, for the operators made with FlattenSeq and for Runs.
Dropped(C, s, c, D) ==
    /\ Drop(s, D) \in Seq(C)
    /\ Drop(Append(s, c), D) = IF Len(s) + 1 \in D THEN Drop(s, D) ELSE Append(Drop(s, D), c)

\* Nothing to drop from.
LEMMA DropNothing == ASSUME NEW D PROVE Drop(<<>>, D) = <<>>
<1>1. [i \in DOMAIN <<>> |-> IF i \in D THEN <<>> ELSE <<(<<>>)[i]>>] = <<>>
  OBVIOUS
<1> QED BY <1>1, FlattenNothing DEF Drop

\* One character more is dropped or appended.
LEMMA DropAppend ==
    ASSUME NEW C, NEW s \in Seq(C), NEW c \in C, NEW D
    PROVE  Dropped(C, s, c, D)
<1> DEFINE n == Len(s)
           new == Append(s, c)
           pieces(t) == [i \in DOMAIN t |-> IF i \in D THEN <<>> ELSE <<t[i]>>]
           last == IF n + 1 \in D THEN <<>> ELSE <<c>>
<1>1. /\ n \in Nat /\ DOMAIN s = 1..n /\ DOMAIN new = 1..(n + 1)
      /\ \A i \in 1..n : new[i] = s[i] /\ s[i] \in C
      /\ new[n + 1] = c
  OBVIOUS
<1>2. pieces(s) \in Seq(Seq(C)) /\ last \in Seq(C) /\ Len(pieces(s)) = n
  <2>1. \A i \in 1..n : pieces(s)[i] \in Seq(C)
    BY <1>1
  <2>2. pieces(s) \in [1..n -> Seq(C)]
    BY <1>1, <2>1
  <2> QED BY <2>2, <1>1
<1>3. pieces(new) = Append(pieces(s), last)
  <2>1. Append(pieces(s), last)
          = [i \in 1..(n + 1) |-> IF i = n + 1 THEN last ELSE pieces(s)[i]]
    BY <1>2
  <2>2. \A i \in 1..(n + 1) : pieces(new)[i] = IF i = n + 1 THEN last ELSE pieces(s)[i]
    BY <1>1
  <2> QED BY <2>1, <2>2, <1>1
<1> HIDE DEF pieces, last, n
<1>4. Flattened(C, pieces(s), last)
  BY <1>2, FlattenAppend
<1>5. Drop(s, D) = FlattenSeq(pieces(s)) /\ Drop(new, D) = FlattenSeq(pieces(new))
  BY DEF Drop, pieces
<1>6. Drop(s, D) \in Seq(C) /\ Drop(new, D) = Drop(s, D) \o last
  BY <1>3, <1>4, <1>5 DEF Flattened
<1>7. CASE n + 1 \in D
  <2>1. Drop(s, D) \o last = Drop(s, D)
    BY <1>6, <1>7, ConcatEmptySeq DEF last
  <2> QED BY <2>1, <1>6, <1>7 DEF Dropped, n, new
<1>8. CASE n + 1 \notin D
  <2>1. Drop(s, D) \o last = Append(Drop(s, D), c)
    BY <1>6, <1>8, AppendIsConcat DEF last
  <2> QED BY <2>1, <1>6, <1>8 DEF Dropped, n, new
<1> QED BY <1>7, <1>8

\* The character types.
LEMMA Types ==
    /\ Cjk \subseteq Characters /\ Latin \subseteq Characters /\ Blank \in Characters
    /\ Sign \in Characters /\ Characters \subseteq Symbols /\ {Open, Close, Mark} \subseteq Symbols
  BY DEF Characters, Symbols

\* What SplitCjk makes of a character, as an operator and as a function.
Wide(c) == IF c \in Cjk THEN <<Blank, c, Blank>> ELSE <<c>>

\* Every element replaced by a sequence.
Spread(F, s) == FlattenSeq([i \in DOMAIN s |-> F[s[i]]])

\* What one element more does to Spread.
SpreadMore(C, F, s, c) ==
    /\ Spread(F, s) \in Seq(C)
    /\ Spread(F, Append(s, c)) = Spread(F, s) \o F[c]

\* Nothing to replace.
LEMMA SpreadNothing == ASSUME NEW F PROVE Spread(F, <<>>) = <<>>
<1>1. [i \in DOMAIN <<>> |-> F[(<<>>)[i]]] = <<>>
  OBVIOUS
<1> QED BY <1>1, FlattenNothing DEF Spread

\* One element more is one concatenation more.
LEMMA SpreadAppend ==
    ASSUME NEW A, NEW C, NEW F \in [A -> Seq(C)], NEW s \in Seq(A), NEW c \in A
    PROVE  SpreadMore(C, F, s, c)
<1> DEFINE n == Len(s)
           new == Append(s, c)
           pieces(t) == [i \in DOMAIN t |-> F[t[i]]]
<1>1. /\ n \in Nat /\ DOMAIN s = 1..n /\ DOMAIN new = 1..(n + 1)
      /\ \A i \in 1..n : new[i] = s[i] /\ s[i] \in A
      /\ new[n + 1] = c
  OBVIOUS
<1>2. F[c] \in Seq(C) /\ \A x \in A : F[x] \in Seq(C)
  OBVIOUS
<1>3. pieces(s) \in Seq(Seq(C)) /\ Len(pieces(s)) = n
  <2>1. pieces(s) \in [1..n -> Seq(C)]
    BY <1>1, <1>2
  <2> QED BY <2>1, <1>1
<1>4. pieces(new) = Append(pieces(s), F[c])
  <2>1. Append(pieces(s), F[c])
          = [i \in 1..(n + 1) |-> IF i = n + 1 THEN F[c] ELSE pieces(s)[i]]
    BY <1>3
  <2>2. \A i \in 1..(n + 1) : pieces(new)[i] = IF i = n + 1 THEN F[c] ELSE pieces(s)[i]
    BY <1>1
  <2> QED BY <2>1, <2>2, <1>1
<1>5. Spread(F, s) = FlattenSeq(pieces(s)) /\ Spread(F, new) = FlattenSeq(pieces(new))
  BY DEF Spread
<1> HIDE DEF pieces, n, new
<1>6. Flattened(C, pieces(s), F[c])
  BY <1>2, <1>3, FlattenAppend
<1> QED BY <1>4, <1>5, <1>6 DEF Flattened, SpreadMore, new

\* What one character more does to SplitCjk.
SplitMore(s, c) ==
    /\ SplitCjk(s) \in Seq(Symbols)
    /\ SplitCjk(Append(s, c)) = SplitCjk(s) \o Wide(c)

Widely == [c \in Symbols |-> Wide(c)]

\* SplitCjk puts blanks around an ideograph, and replaces nothing else.
LEMMA SplitIsSpread ==
    /\ Widely \in [Symbols -> Seq(Symbols)]
    /\ \A s \in Seq(Symbols) : SplitCjk(s) = Spread(Widely, s)
<1>1. \A x \in Symbols : Wide(x) \in Seq(Symbols)
  BY Types DEF Wide
<1>2. ASSUME NEW s \in Seq(Symbols) PROVE SplitCjk(s) = Spread(Widely, s)
  <2>1. \A i \in DOMAIN s : s[i] \in Symbols
    OBVIOUS
  <2>2. \A i \in DOMAIN s : Widely[s[i]] = IF s[i] \in Cjk THEN <<Blank, s[i], Blank>> ELSE <<s[i]>>
    BY <2>1 DEF Widely, Wide
  <2> QED BY <2>2 DEF SplitCjk, Spread
<1> QED BY <1>1, <1>2 DEF Widely

\* Nothing to split.
LEMMA SplitNothing == SplitCjk(<<>>) = <<>>
<1>1. <<>> \in Seq(Symbols)
  OBVIOUS
<1> QED BY <1>1, SplitIsSpread, SpreadNothing

\* SplitCjk of one character more.
LEMMA SplitAppend ==
    ASSUME NEW s \in Seq(Symbols), NEW c \in Symbols
    PROVE  SplitMore(s, c)
<1>1. SpreadMore(Symbols, Widely, s, c)
  BY SplitIsSpread, SpreadAppend
<1>2. Append(s, c) \in Seq(Symbols) /\ Widely[c] = Wide(c)
  BY DEF Widely
<1> QED BY <1>1, <1>2, SplitIsSpread DEF SpreadMore, SplitMore

\* What one character more does to the runs.
RunsMore(C, s, c, S) ==
    LET r == Runs(s, S)
    IN  /\ r \in Seq(Seq(C))
        /\ Runs(Append(s, c), S)
             = IF c \notin S THEN r
               ELSE IF s # <<>> /\ s[Len(s)] \in S
               THEN [r EXCEPT ![Len(r)] = Append(@, c)] ELSE Append(r, <<c>>)

\* No runs.
LEMMA RunsNothing == ASSUME NEW S PROVE Runs(<<>>, S) = <<>>
<1>1. PICK R \in [0..Len(<<>>) -> Seq(Seq({}))] : RunsFirst(R, <<>>, S)
  <2>1. <<>> \in Seq({})
    OBVIOUS
  <2> QED BY <2>1, RunsAre
<1>2. Len(<<>>) = 0
  OBVIOUS
<1> QED BY <1>1, <1>2 DEF RunsFirst

\* One character more goes on with the last run, begins one, or ends it.
LEMMA RunsAppend ==
    ASSUME NEW C, NEW s \in Seq(C), NEW c \in C, NEW S
    PROVE  RunsMore(C, s, c, S)
<1> DEFINE n == Len(s)
           new == Append(s, c)
<1>1. /\ n \in Nat /\ Len(new) = n + 1 /\ new \in Seq(C)
      /\ \A i \in 1..n : new[i] = s[i]
      /\ new[n + 1] = c /\ (s # <<>> <=> n > 0)
  OBVIOUS
<1> HIDE DEF n, new
<1>2. PICK Q \in [0..n -> Seq(Seq(C))] : RunsFirst(Q, s, S)
  BY RunsAre DEF n
<1>3. PICK R \in [0..(n + 1) -> Seq(Seq(C))] : RunsFirst(R, new, S)
  BY <1>1, RunsAre
<1>4. Alike(Q, R, n)
  <2>1. \A i \in 1..n : i \in 1..(n + 1) /\ new[i] = s[i] /\ (i > 1 => new[i - 1] = s[i - 1])
    BY <1>1
  <2>2. Q[0] = <<>> /\ R[0] = <<>>
    BY <1>2, <1>3 DEF RunsFirst
  <2>3. ASSUME NEW i \in 1..n, Q[i - 1] = R[i - 1] PROVE Q[i] = R[i]
    <3>1. Q[i] = IF s[i] \notin S THEN Q[i - 1]
                 ELSE IF i > 1 /\ s[i - 1] \in S
                 THEN [Q[i - 1] EXCEPT ![Len(Q[i - 1])] = Append(@, s[i])]
                 ELSE Append(Q[i - 1], <<s[i]>>)
      BY <1>2 DEF RunsFirst, n
    <3>2. R[i] = IF new[i] \notin S THEN R[i - 1]
                 ELSE IF i > 1 /\ new[i - 1] \in S
                 THEN [R[i - 1] EXCEPT ![Len(R[i - 1])] = Append(@, new[i])]
                 ELSE Append(R[i - 1], <<new[i]>>)
      BY <1>1, <1>3, <2>1 DEF RunsFirst
    <3>3. CASE i > 1
      BY <2>1, <2>3, <3>1, <3>2, <3>3
    <3>4. CASE ~(i > 1)
      BY <2>1, <2>3, <3>1, <3>2, <3>4
    <3> QED BY <3>3, <3>4
  <2> QED BY <2>2, <2>3 DEF Alike
<1>5. Q[n] = R[n]
  <2>1. n \in 0..n
    BY <1>1
  <2>2. n \in Nat
    BY <1>1
  <2>3. \A i \in 0..n : Q[i] = R[i]
    BY <2>2, <1>4, AlikeAre, ZenonT(30)
  <2> QED BY <2>1, <2>3
<1>6. Runs(s, S) = Q[n] /\ Q[n] \in Seq(Seq(C)) /\ Runs(new, S) = R[n + 1]
  BY <1>1, <1>2, <1>3 DEF RunsFirst, n
<1>7. R[n + 1] = IF c \notin S THEN R[n]
                 ELSE IF n > 0 /\ s[n] \in S
                 THEN [R[n] EXCEPT ![Len(R[n])] = Append(@, c)] ELSE Append(R[n], <<c>>)
  <2>1. n + 1 \in 1..(n + 1) /\ (n + 1) - 1 = n /\ (n + 1 > 1 <=> n > 0) /\ (n > 0 => new[n] = s[n])
    BY <1>1
  <2> QED BY <2>1, <1>1, <1>3 DEF RunsFirst
<1> QED BY <1>1, <1>5, <1>6, <1>7 DEF RunsMore, n, new

-----------------------------------------------------------------------------
(* The words of a text: runs of what SplitCjk makes of it.  An ideograph is  *)
(* a word of its own, and what belongs to no word separates.                 *)

Parts(S, s) == Runs(SplitCjk(s), S)

\* The characters of words: ideographs among them, the blank not.
Wordy(S) == S \subseteq Symbols /\ Cjk \subseteq S /\ Blank \notin S

\* A next character of a word would go on with the last word of s.
Joins(S, s) == s # <<>> /\ s[Len(s)] \in S \ Cjk

\* The two notions of a word: a token of the index, and a word of a reader.
LEMMA Sets == Wordy(Cjk \cup Latin) /\ Wordy(Symbols \ {Blank})
  BY SlackTextAssumption, Types DEF Wordy

\* What SplitCjk ends with.
LEMMA SplitLast ==
    ASSUME NEW s \in Seq(Symbols), s # <<>>
    PROVE  /\ SplitCjk(s) # <<>>
           /\ SplitCjk(s)[Len(SplitCjk(s))] = IF s[Len(s)] \in Cjk THEN Blank ELSE s[Len(s)]
<1>1. PICK t \in Seq(Symbols), c \in Symbols : s = Append(t, c)
  BY SequenceEmptyOrAppend
<1>2. s[Len(s)] = c
  BY <1>1
<1>3. SplitCjk(t) \in Seq(Symbols) /\ SplitCjk(s) = SplitCjk(t) \o Wide(c)
  BY <1>1, SplitAppend DEF SplitMore
<1> DEFINE w == SplitCjk(t)
<1>4. w \in Seq(Symbols) /\ SplitCjk(s) = w \o Wide(c)
  BY <1>3
<1> HIDE DEF w
<1>5. CASE c \in Cjk
  <2>1. SplitCjk(s) = w \o <<Blank, c, Blank>>
    BY <1>4, <1>5 DEF Wide
  <2>2. <<Blank, c, Blank>> \in Seq(Symbols)
    BY Types
  <2> HIDE DEF w
  <2> QED BY <1>2, <1>4, <1>5, <2>1, <2>2
<1>6. CASE c \notin Cjk
  BY <1>2, <1>4, <1>6 DEF Wide
<1> QED BY <1>5, <1>6

\* What one character more does to the words.
PartsMore(S, s, c) ==
    LET r == Parts(S, s)
    IN  /\ r \in Seq(Seq(Symbols))
        /\ Joins(S, s) => r # <<>>
        /\ Parts(S, Append(s, c))
             = IF c \notin S THEN r
               ELSE IF Joins(S, s) /\ c \notin Cjk
               THEN [r EXCEPT ![Len(r)] = Append(@, c)] ELSE Append(r, <<c>>)

\* No words.
LEMMA PartsNothing == ASSUME NEW S PROVE Parts(S, <<>>) = <<>>
  BY SplitNothing, RunsNothing DEF Parts

\* What was appended to is not empty.
LEMMA AppendSome == ASSUME NEW C, NEW s \in Seq(C), NEW c \in C PROVE Append(s, c) # <<>>
<1>1. Len(Append(s, c)) # 0 /\ Len(<<>>) = 0
  OBVIOUS
<1> QED BY <1>1

\* The last run is there once the last character is in it.
LEMMA RunsLast ==
    ASSUME NEW C, NEW S
    PROVE  \A s \in Seq(C) : s # <<>> /\ s[Len(s)] \in S => Runs(s, S) # <<>>
<1> DEFINE P == {s \in Seq(C) : s # <<>> /\ s[Len(s)] \in S => Runs(s, S) # <<>>}
<1>1. <<>> \in P
  OBVIOUS
<1>2. ASSUME NEW s \in P, NEW c \in C PROVE Append(s, c) \in P
  <2> DEFINE r == Runs(s, S)
             next == Runs(Append(s, c), S)
  <2>1. /\ r \in Seq(Seq(C))
        /\ next = IF c \notin S THEN r
                  ELSE IF s # <<>> /\ s[Len(s)] \in S
                  THEN [r EXCEPT ![Len(r)] = Append(@, c)] ELSE Append(r, <<c>>)
    <3>1. RunsMore(C, s, c, S)
      BY RunsAppend
    <3> QED BY <3>1 DEF RunsMore
  <2>2. s # <<>> /\ s[Len(s)] \in S => r # <<>>
    OBVIOUS
  <2>3. Append(s, c) \in Seq(C) /\ Append(s, c)[Len(Append(s, c))] = c
    OBVIOUS
  <2> HIDE DEF r, next
  <2>4. c \in S => next # <<>>
    <3>1. <<c>> \in Seq(C)
      OBVIOUS
    <3>2. Append(r, <<c>>) # <<>>
      BY <2>1, <3>1, AppendSome
    <3>3. r # <<>> => [r EXCEPT ![Len(r)] = Append(@, c)] # <<>>
      BY <2>1
    <3> QED BY <2>1, <2>2, <3>2, <3>3
  <2> QED BY <2>3, <2>4 DEF next
<1>3. P \in SUBSET Seq(C)
  OBVIOUS
<1> HIDE DEF P
<1>4. P = Seq(C)
  BY <1>1, <1>2, <1>3, Appending
<1> QED BY <1>4 DEF P

\* One character more goes on with the last word, is or begins one, or ends it.
LEMMA PartsAppend ==
    ASSUME NEW S, Wordy(S), NEW s \in Seq(Symbols), NEW c \in Symbols
    PROVE  PartsMore(S, s, c)
<1> DEFINE w == SplitCjk(s)
           r == Runs(w, S)
<1>1. w \in Seq(Symbols) /\ SplitCjk(Append(s, c)) = w \o Wide(c)
  BY SplitAppend DEF SplitMore
<1>2. Joins(S, s) <=> w # <<>> /\ w[Len(w)] \in S
  <2>1. s = <<>> => w = <<>>
    BY SplitNothing
  <2> HIDE DEF w
  <2> QED BY <2>1, SplitLast DEF Joins, Wordy, w
<1> HIDE DEF w
<1>3. r \in Seq(Seq(Symbols)) /\ (Joins(S, s) => r # <<>>)
  <2>1. RunsMore(Symbols, w, c, S)
    BY <1>1, RunsAppend
  <2> QED BY <1>1, <1>2, <2>1, RunsLast DEF RunsMore
<1>4. Parts(S, Append(s, c))
        = IF c \notin S THEN r
          ELSE IF Joins(S, s) /\ c \notin Cjk
          THEN [r EXCEPT ![Len(r)] = Append(@, c)] ELSE Append(r, <<c>>)
  <2>1. CASE c \notin Cjk
    <3>1. SplitCjk(Append(s, c)) = Append(w, c)
      BY <1>1, <2>1 DEF Wide
    <3>2. RunsMore(Symbols, w, c, S)
      BY <1>1, RunsAppend
    <3> QED BY <1>2, <2>1, <3>1, <3>2 DEF RunsMore, Parts
  <2>2. CASE c \in Cjk
    <3> DEFINE x == Append(w, Blank)
               y == Append(x, c)
    <3>1. SplitCjk(Append(s, c)) = Append(y, Blank)
      <4>1. Blank \in Symbols
        BY Types
      <4>2. w \o <<Blank, c, Blank>> = Append(y, Blank)
        BY <1>1, <4>1
      <4> QED BY <1>1, <2>2, <4>2 DEF Wide
    <3>2. x \in Seq(Symbols) /\ y \in Seq(Symbols) /\ x # <<>> /\ x[Len(x)] = Blank
      BY <1>1, Types
    <3>3. Runs(x, S) = r
      BY <1>1, Types, RunsAppend DEF RunsMore, Wordy
    <3> HIDE DEF x
    <3>4. Runs(y, S) = Append(r, <<c>>)
      BY <3>2, <3>3, <2>2, RunsAppend, SMTT(30) DEF RunsMore, Wordy
    <3> HIDE DEF y
    <3>5. Runs(Append(y, Blank), S) = Runs(y, S)
      BY <3>2, Types, RunsAppend DEF RunsMore, Wordy
    <3> QED BY <2>2, <3>1, <3>4, <3>5 DEF Parts, Wordy
  <2> QED BY <2>1, <2>2
<1> QED BY <1>3, <1>4 DEF PartsMore, Parts, w

\* A cut that is not inside of a word cuts the words in two.
Apart(S, x, y) == ~(Joins(S, x) /\ y # <<>> /\ y[1] \in S \ Cjk)

\* Equations between sequences have a name where they are cited.
Behind(p, r, v) == Append(p \o r, v) = p \o Append(r, v)

\* Appending goes to the second part.
LEMMA AppendConcat ==
    ASSUME NEW V, NEW p \in Seq(V), NEW r \in Seq(V), NEW v \in V
    PROVE  Behind(p, r, v)
  BY DEF Behind

\* So does a change of the last element.
LEMMA ExceptLast ==
    ASSUME NEW V, NEW p \in Seq(V), NEW r \in Seq(V), r # <<>>, NEW v \in V
    PROVE  /\ (p \o r)[Len(p \o r)] = r[Len(r)] /\ r[Len(r)] \in V
           /\ [p \o r EXCEPT ![Len(p \o r)] = v] = p \o [r EXCEPT ![Len(r)] = v]
<1> DEFINE n == Len(r)
           t == [r EXCEPT ![n] = v]
           q == p \o r
           u == [q EXCEPT ![Len(q)] = v]
<1>1. /\ n \in Nat /\ n > 0 /\ r[n] \in V
      /\ q \in Seq(V) /\ Len(q) = Len(p) + n /\ q[Len(q)] = r[n] /\ Len(p) \in Nat
  OBVIOUS
<1>2. t \in Seq(V) /\ Len(t) = n
  BY <1>1, ExceptSeq
<1>3. u \in Seq(V) /\ Len(u) = Len(q)
  <2>1. Len(q) \in 1..Len(q)
    BY <1>1
  <2> HIDE DEF q
  <2> QED BY <1>1, <2>1, ExceptSeq
<1>4. \A i \in 1..n : t[i] = IF i = n THEN v ELSE r[i]
  OBVIOUS
<1>5. \A i \in 1..Len(q) : u[i] = IF i = Len(q) THEN v ELSE q[i]
  <2>1. DOMAIN q = 1..Len(q)
    BY <1>1
  <2> HIDE DEF q
  <2> QED BY <2>1
<1> HIDE DEF t, u
<1>6. /\ p \o t \in Seq(V) /\ Len(p \o t) = Len(q)
      /\ \A i \in 1..Len(q) : (p \o t)[i] = IF i <= Len(p) THEN p[i] ELSE t[i - Len(p)]
  BY <1>1, <1>2
<1>7. \A i \in 1..Len(q) : q[i] = IF i <= Len(p) THEN p[i] ELSE r[i - Len(p)]
  BY <1>1
<1> HIDE DEF q, n
<1>8. ASSUME NEW i \in 1..Len(q) PROVE u[i] = (p \o t)[i]
  <2>1. CASE i <= Len(p)
    BY <1>1, <1>5, <1>6, <1>7, <2>1
  <2>2. CASE i > Len(p)
    <3>1. i - Len(p) \in 1..n /\ (i - Len(p) = n <=> i = Len(q)) /\ ~(i <= Len(p))
      BY <1>1, <2>2
    <3>2. (p \o t)[i] = t[i - Len(p)] /\ q[i] = r[i - Len(p)]
      BY <3>1, <1>6, <1>7
    <3>3. t[i - Len(p)] = IF i - Len(p) = n THEN v ELSE r[i - Len(p)]
      BY <3>1, <1>4
    <3>4. u[i] = IF i = Len(q) THEN v ELSE q[i]
      BY <1>5
    <3> QED BY <3>1, <3>2, <3>3, <3>4
  <2>3. i <= Len(p) \/ i > Len(p)
    BY <1>1
  <2> QED BY <2>1, <2>2, <2>3
<1> QED BY <1>1, <1>3, <1>6, <1>8, SeqEqual DEF t, u, q, n

\* The words of two texts that no word connects.
LEMMA PartsConcat ==
    ASSUME NEW S, Wordy(S), NEW x \in Seq(Symbols)
    PROVE  \A y \in Seq(Symbols) :
              Apart(S, x, y) => Parts(S, x \o y) = Parts(S, x) \o Parts(S, y)
<1> DEFINE P == {y \in Seq(Symbols) :
                   Apart(S, x, y) => Parts(S, x \o y) = Parts(S, x) \o Parts(S, y)}
           p == Parts(S, x)
<1>1. p \in Seq(Seq(Symbols))
  <2>1. PartsMore(S, x, Blank)
    BY PartsAppend, Types
  <2> QED BY <2>1 DEF PartsMore
<1>2. <<>> \in P
  <2>1. x \o <<>> = x /\ p \o <<>> = p
    BY <1>1
  <2>2. <<>> \in Seq(Symbols)
    OBVIOUS
  <2> QED BY <2>1, <2>2, PartsNothing
<1>3. ASSUME NEW y \in P, NEW c \in Symbols, Apart(S, x, Append(y, c))
      PROVE  Parts(S, x \o Append(y, c)) = p \o Parts(S, Append(y, c))
  <2> DEFINE r == Parts(S, y)
             a == Parts(S, x \o y)
             b == Parts(S, Append(y, c))
  <2>1. x \o Append(y, c) = Append(x \o y, c) /\ x \o y \in Seq(Symbols)
    OBVIOUS
  <2>2. PartsMore(S, x \o y, c) /\ PartsMore(S, y, c)
    BY <2>1, PartsAppend
  <2>3. r \in Seq(Seq(Symbols)) /\ (Joins(S, y) => r # <<>>)
    BY <2>2 DEF PartsMore
  <2>4. CASE y = <<>>
    <3>1. a = p /\ r = <<>> /\ x \o y = x
      BY <2>4, PartsNothing
    <3>2. ~Joins(S, y) /\ ~(Joins(S, x) /\ c \in S \ Cjk)
      BY <2>4, <1>3 DEF Joins, Apart
    <3>3. Parts(S, Append(x \o y, c)) = IF c \notin S THEN p ELSE Append(p, <<c>>)
      BY <2>2, <3>1, <3>2 DEF PartsMore
    <3>4. b = IF c \notin S THEN <<>> ELSE <<<<c>>>>
      <4>1. Append(r, <<c>>) = <<<<c>>>>
        BY <3>1
      <4> QED BY <2>2, <3>1, <3>2, <4>1 DEF PartsMore
    <3>5. p \o <<>> = p /\ p \o <<<<c>>>> = Append(p, <<c>>)
      BY <1>1
    <3> QED BY <2>1, <3>3, <3>4, <3>5
  <2>5. CASE y # <<>>
    <3>1. Apart(S, x, y) /\ (Joins(S, x \o y) <=> Joins(S, y))
      <4>1. Append(y, c)[1] = y[1] /\ Append(y, c) # <<>>
        BY <2>5
      <4>2. x \o y # <<>> /\ (x \o y)[Len(x \o y)] = y[Len(y)]
        BY <2>5
      <4> QED BY <4>1, <4>2, <2>5, <1>3 DEF Apart, Joins
    <3>2. a = p \o r
      BY <3>1
    <3>3. Parts(S, Append(x \o y, c))
            = IF c \notin S THEN p \o r
              ELSE IF Joins(S, y) /\ c \notin Cjk
              THEN [p \o r EXCEPT ![Len(p \o r)] = Append(@, c)] ELSE Append(p \o r, <<c>>)
      BY <2>2, <3>1, <3>2 DEF PartsMore
    <3>4. b = IF c \notin S THEN r
              ELSE IF Joins(S, y) /\ c \notin Cjk
              THEN [r EXCEPT ![Len(r)] = Append(@, c)] ELSE Append(r, <<c>>)
      BY <2>2 DEF PartsMore
    <3> HIDE DEF a, b, r, p
    <3>5. Append(p \o r, <<c>>) = p \o Append(r, <<c>>)
      <4>1. <<c>> \in Seq(Symbols)
        OBVIOUS
      <4>2. Behind(p, r, <<c>>)
        BY <1>1, <2>3, <4>1, AppendConcat
      <4> QED BY <4>2 DEF Behind
    <3>6. Joins(S, y) => [p \o r EXCEPT ![Len(p \o r)] = Append(@, c)]
                           = p \o [r EXCEPT ![Len(r)] = Append(@, c)]
      <4> SUFFICES ASSUME r # <<>>
                   PROVE  [p \o r EXCEPT ![Len(p \o r)] = Append(@, c)]
                            = p \o [r EXCEPT ![Len(r)] = Append(@, c)]
        BY <2>3
      <4>1. \A v \in Seq(Symbols) :
               /\ (p \o r)[Len(p \o r)] = r[Len(r)] /\ r[Len(r)] \in Seq(Symbols)
               /\ [p \o r EXCEPT ![Len(p \o r)] = v] = p \o [r EXCEPT ![Len(r)] = v]
        BY <1>1, <2>3, ExceptLast
      <4>2. r[Len(r)] \in Seq(Symbols) /\ (p \o r)[Len(p \o r)] = r[Len(r)]
        <5>1. <<>> \in Seq(Symbols)
          OBVIOUS
        <5> QED BY <4>1, <5>1
      <4>3. Append(r[Len(r)], c) \in Seq(Symbols)
        BY <4>2
      <4> QED BY <4>1, <4>2, <4>3
    <3> QED BY <2>1, <3>3, <3>4, <3>5, <3>6 DEF b
  <2> QED BY <2>4, <2>5
<1>4. \A y \in P, c \in Symbols : Append(y, c) \in P
  <2> TAKE y \in P, c \in Symbols
  <2>1. Append(y, c) \in Seq(Symbols)
    OBVIOUS
  <2> QED BY <2>1, <1>3
<1>5. P \in SUBSET Seq(Symbols)
  OBVIOUS
<1> HIDE DEF P
<1>6. P = Seq(Symbols)
  BY <1>2, <1>4, <1>5, Appending
<1> QED BY <1>6 DEF P

-----------------------------------------------------------------------------
(* The words of a query, and where they stand in it.                         *)

Query == Symbols \ {Blank}

\* No word goes on behind x.
Shut(x) == x # <<>> => x[Len(x)] = Blank

\* w is the last word of q, or one with a blank behind it.
AtEnd(q, w) == \E x \in Seq(Symbols) : Shut(x) /\ q = x \o w

Inside(q, w) ==
    \E x, y \in Seq(Symbols) : Shut(x) /\ y # <<>> /\ y[1] = Blank /\ q = (x \o w) \o y

\* Where a word of a query stands when the query goes on.
LEMMA WordGrows ==
    ASSUME NEW q \in Seq(Symbols), NEW w \in Seq(Symbols), NEW c \in Symbols
    PROVE  /\ AtEnd(q, w) => AtEnd(Append(q, c), Append(w, c))
           /\ AtEnd(q, w) /\ c = Blank => Inside(Append(q, c), w)
           /\ Inside(q, w) => Inside(Append(q, c), w)
           /\ Shut(q) => AtEnd(Append(q, c), <<c>>)
<1>1. ASSUME AtEnd(q, w) PROVE AtEnd(Append(q, c), Append(w, c))
  <2>1. PICK x \in Seq(Symbols) : Shut(x) /\ q = x \o w
    BY <1>1 DEF AtEnd
  <2>2. Behind(x, w, c)
    BY AppendConcat
  <2> QED BY <2>1, <2>2 DEF AtEnd, Behind
<1>2. ASSUME AtEnd(q, w), c = Blank PROVE Inside(Append(q, c), w)
  <2>1. PICK x \in Seq(Symbols) : Shut(x) /\ q = x \o w
    BY <1>2 DEF AtEnd
  <2>2. Append(q, c) = (x \o w) \o <<c>>
    BY <2>1
  <2>3. <<c>> \in Seq(Symbols) /\ <<c>> # <<>> /\ (<<c>>)[1] = Blank
    BY <1>2
  <2> QED BY <2>1, <2>2, <2>3 DEF Inside
<1>3. ASSUME Inside(q, w) PROVE Inside(Append(q, c), w)
  <2>1. PICK x \in Seq(Symbols), y \in Seq(Symbols) :
           Shut(x) /\ y # <<>> /\ y[1] = Blank /\ q = (x \o w) \o y
    BY <1>3 DEF Inside
  <2>2. Append(y, c) \in Seq(Symbols) /\ Append(y, c) # <<>>
    BY AppendSome
  <2>3. Append(y, c)[1] = Blank
    <3>1. Len(y) \in Nat /\ 1 <= Len(y) /\ y[1] = Blank
      BY <2>1
    <3> QED BY <3>1
  <2>4. x \o w \in Seq(Symbols)
    OBVIOUS
  <2>5. Behind(x \o w, y, c)
    BY <2>4, AppendConcat
  <2> QED BY <2>1, <2>2, <2>3, <2>5 DEF Inside, Behind
<1>4. ASSUME Shut(q) PROVE AtEnd(Append(q, c), <<c>>)
  <2>1. Append(q, c) = q \o <<c>>
    OBVIOUS
  <2> QED BY <2>1, <1>4 DEF AtEnd
<1> QED BY <1>1, <1>2, <1>3, <1>4

WordsStand(q) ==
    LET r == Runs(q, Query)
    IN  /\ r \in Seq(Seq(Symbols))
        /\ ~Shut(q) => r # <<>>
        /\ \A k \in 1..Len(r) : IF k = Len(r) /\ ~Shut(q) THEN AtEnd(q, r[k]) ELSE Inside(q, r[k])

\* Every word of a query stands between blanks.
LEMMA QueryWords == \A q \in Seq(Symbols) : WordsStand(q)
<1> DEFINE P == {q \in Seq(Symbols) : WordsStand(q)}
<1>1. <<>> \in P
  <2>1. Runs(<<>>, Query) = <<>> /\ Shut(<<>>)
    BY RunsNothing DEF Shut
  <2>2. <<>> \in Seq(Seq(Symbols)) /\ <<>> \in Seq(Symbols)
    OBVIOUS
  <2>3. Len(<<>>) = 0 /\ 1..0 = {}
    OBVIOUS
  <2> QED BY <2>1, <2>2, <2>3 DEF WordsStand
<1>2. ASSUME NEW q \in P, NEW c \in Symbols PROVE WordsStand(Append(q, c))
  <2> DEFINE r == Runs(q, Query)
             new == Append(q, c)
             next == Runs(new, Query)
             n == Len(r)
  <2>1. /\ r \in Seq(Seq(Symbols)) /\ (~Shut(q) => r # <<>>)
        /\ \A k \in 1..n : IF k = n /\ ~Shut(q) THEN AtEnd(q, r[k]) ELSE Inside(q, r[k])
    BY DEF WordsStand
  <2>2. next = IF c = Blank THEN r
               ELSE IF ~Shut(q) THEN [r EXCEPT ![n] = Append(@, c)] ELSE Append(r, <<c>>)
    <3>1. RunsMore(Symbols, q, c, Query)
      BY RunsAppend
    <3>2. ~Shut(q) <=> q # <<>> /\ q[Len(q)] \in Query
      BY DEF Shut, Query
    <3>3. c \in Query <=> c # Blank
      BY DEF Query
    <3> QED BY <3>1, <3>2, <3>3 DEF RunsMore
  <2>3. new \in Seq(Symbols) /\ new # <<>> /\ new[Len(new)] = c /\ n \in Nat
    BY <2>1
  <2>4. Shut(new) <=> c = Blank
    BY <2>3 DEF Shut
  <2>5. \A k \in 1..n : r[k] \in Seq(Symbols)
    BY <2>1
  <2> HIDE DEF r, new, next, n
  <2>6. CASE c = Blank
    <3>1. \A k \in 1..n : Inside(new, r[k])
      BY <2>1, <2>5, <2>6, WordGrows DEF new
    <3> QED BY <2>1, <2>2, <2>4, <2>6, <3>1 DEF WordsStand, next, n, new
  <2>7. CASE c # Blank /\ ~Shut(q)
    <3> DEFINE last == Append(r[n], c)
    <3>1. n \in 1..n /\ r[n] \in Seq(Symbols) /\ last \in Seq(Symbols)
      <4>1. n # 0
        BY <2>1, <2>7 DEF n
      <4>2. n \in 1..n
        BY <4>1, <2>3
      <4> QED BY <4>2, <2>5
    <3>2. next \in Seq(Seq(Symbols)) /\ Len(next) = n
      BY <2>1, <2>2, <2>7, <3>1, ExceptSeq DEF n
    <3>3. \A k \in 1..n : next[k] = IF k = n THEN last ELSE r[k]
      BY <2>1, <2>2, <2>7, <3>1 DEF n
    <3>4. AtEnd(new, last)
      BY <2>1, <2>7, <3>1, WordGrows DEF new
    <3>5. \A k \in 1..n : k # n => Inside(new, r[k])
      BY <2>1, <2>5, WordGrows DEF new
    <3> HIDE DEF last
    <3>6. next # <<>>
      BY <3>1, <3>2
    <3> QED BY <2>4, <2>7, <3>2, <3>3, <3>4, <3>5, <3>6 DEF WordsStand, next, new
  <2>8. CASE c # Blank /\ Shut(q)
    <3> DEFINE last == <<c>>
    <3>1. last \in Seq(Symbols)
      OBVIOUS
    <3> HIDE DEF last
    <3>2. next = Append(r, last)
      BY <2>2, <2>8 DEF last
    <3>3. next \in Seq(Seq(Symbols)) /\ Len(next) = n + 1
      BY <2>1, <3>1, <3>2, AppendProperties DEF n
    <3>4. \A k \in 1..(n + 1) : next[k] = IF k = n + 1 THEN last ELSE r[k]
      BY <2>1, <3>1, <3>2, AppendProperties DEF n
    <3>5. AtEnd(new, last)
      BY <2>8, WordGrows, <3>1 DEF new, last
    <3>6. \A k \in 1..n : Inside(new, r[k])
      BY <2>1, <2>5, <2>8, WordGrows DEF new
    <3>7. next # <<>>
      BY <3>3, <2>3
    <3>8. \A k \in 1..(n + 1) : k # n + 1 => k \in 1..n
      BY <2>3
    <3> QED BY <2>4, <2>8, <3>3, <3>4, <3>5, <3>6, <3>7, <3>8 DEF WordsStand, next, new
  <2> QED BY <2>6, <2>7, <2>8 DEF new
<1>3. P \in SUBSET Seq(Symbols) /\ \A q \in P, c \in Symbols : Append(q, c) \in P
  <2>1. \A q \in P, c \in Symbols : Append(q, c) \in Seq(Symbols)
    OBVIOUS
  <2> QED BY <2>1, <1>2
<1> HIDE DEF P
<1>4. P = Seq(Symbols)
  BY <1>1, <1>3, Appending
<1> QED BY <1>4 DEF P

\* A query with a token has a word with one, and its phrase is not empty.
Letters == Cjk \cup Latin

HasToken(s) == \E i \in 1..Len(s) : s[i] \in Letters

\* A token comes with its first letter.
LEMMA TokenGrows ==
    ASSUME NEW s \in Seq(Symbols), NEW c \in Symbols
    PROVE  HasToken(Append(s, c)) <=> HasToken(s) \/ c \in Letters
<1> DEFINE n == Len(s)
           new == Append(s, c)
<1>1. /\ n \in Nat /\ Len(new) = n + 1 /\ new[n + 1] = c
      /\ \A i \in 1..n : new[i] = s[i]
  OBVIOUS
<1> HIDE DEF new, n
<1>2. \A i \in 1..(n + 1) : i \in 1..n \/ i = n + 1
  BY <1>1
<1>3. \A i \in 1..n : i \in 1..(n + 1)
  BY <1>1
<1>4. n + 1 \in 1..(n + 1)
  BY <1>1
<1> QED BY <1>1, <1>2, <1>3, <1>4 DEF HasToken, n, new

\* Some word of a query with a letter has one.
TokenFound(q) ==
    LET r == Runs(q, Query)
    IN  HasToken(q) => \E k \in 1..Len(r) : HasToken(r[k])

\* If the query has a letter, one of its words has.
LEMMA QueryTokens == \A q \in Seq(Symbols) : TokenFound(q)
<1> DEFINE P == {q \in Seq(Symbols) : TokenFound(q)}
<1>1. <<>> \in P
  <2>1. <<>> \in Seq(Symbols) /\ Len(<<>>) = 0 /\ 1..0 = {}
    OBVIOUS
  <2> QED BY <2>1 DEF TokenFound, HasToken
<1>2. ASSUME NEW q \in P, NEW c \in Symbols PROVE TokenFound(Append(q, c))
  <2> DEFINE r == Runs(q, Query)
             new == Append(q, c)
             next == Runs(new, Query)
             n == Len(r)
  <2>1. /\ r \in Seq(Seq(Symbols)) /\ (~Shut(q) => r # <<>>)
        /\ HasToken(q) => \E k \in 1..n : HasToken(r[k])
    BY QueryWords DEF WordsStand, TokenFound
  <2>2. next = IF c = Blank THEN r
               ELSE IF ~Shut(q) THEN [r EXCEPT ![n] = Append(@, c)] ELSE Append(r, <<c>>)
    <3>1. RunsMore(Symbols, q, c, Query)
      BY RunsAppend
    <3>2. ~Shut(q) <=> q # <<>> /\ q[Len(q)] \in Query
      BY DEF Shut, Query
    <3>3. c \in Query <=> c # Blank
      BY DEF Query
    <3> QED BY <3>1, <3>2, <3>3 DEF RunsMore
  <2>3. HasToken(new) <=> HasToken(q) \/ c \in Letters
    BY TokenGrows
  <2>4. n \in Nat /\ \A k \in 1..n : r[k] \in Seq(Symbols)
    BY <2>1
  <2>5. Blank \notin Letters
    BY SlackTextAssumption DEF Letters
  <2> SUFFICES ASSUME HasToken(new) PROVE \E k \in 1..Len(next) : HasToken(next[k])
    BY DEF TokenFound
  <2> HIDE DEF r, new, next, n
  <2>6. CASE c = Blank
    BY <2>1, <2>2, <2>3, <2>5, <2>6 DEF n
  <2>7. CASE c # Blank /\ ~Shut(q)
    <3>1. n \in 1..n /\ r[n] \in Seq(Symbols)
      <4>1. n # 0
        BY <2>1, <2>7 DEF n
      <4>2. n \in 1..n
        BY <4>1, <2>4
      <4> QED BY <4>2, <2>4
    <3>2. Len(next) = n /\ \A k \in 1..n : next[k] = IF k = n THEN Append(r[n], c) ELSE r[k]
      <4>1. Append(r[n], c) \in Seq(Symbols)
        BY <3>1
      <4>2. Len(next) = n
        BY <2>1, <2>2, <2>7, <3>1, <4>1, ExceptSeq DEF n
      <4> QED BY <4>2, <2>1, <2>2, <2>7, <3>1 DEF n
    <3>3. HasToken(Append(r[n], c)) <=> HasToken(r[n]) \/ c \in Letters
      BY <3>1, TokenGrows
    <3>4. ASSUME NEW k \in 1..n, HasToken(r[k]) PROVE HasToken(next[k])
      BY <3>2, <3>3, <3>4
    <3> QED BY <2>1, <2>3, <3>1, <3>2, <3>3, <3>4
  <2>8. CASE c # Blank /\ Shut(q)
    <3> DEFINE last == <<c>>
    <3>1. last \in Seq(Symbols)
      OBVIOUS
    <3>2. c \in Letters => HasToken(last)
      BY DEF HasToken
    <3> HIDE DEF last
    <3>3. next = Append(r, last)
      BY <2>2, <2>8 DEF last
    <3>4. Len(next) = n + 1 /\ \A k \in 1..(n + 1) : next[k] = IF k = n + 1 THEN last ELSE r[k]
      BY <2>1, <3>1, <3>3, AppendProperties DEF n
    <3>5. n + 1 \in 1..(n + 1) /\ \A k \in 1..n : k \in 1..(n + 1) /\ k # n + 1
      BY <2>4
    <3>6. ASSUME NEW k \in 1..n, HasToken(r[k]) PROVE HasToken(next[k])
      BY <3>4, <3>5, <3>6
    <3> QED BY <2>1, <2>3, <3>2, <3>4, <3>5, <3>6
  <2> QED BY <2>6, <2>7, <2>8
<1>3. P \in SUBSET Seq(Symbols) /\ \A q \in P, c \in Symbols : Append(q, c) \in P
  <2>1. \A q \in P, c \in Symbols : Append(q, c) \in Seq(Symbols)
    OBVIOUS
  <2> QED BY <2>1, <1>2
<1> HIDE DEF P
<1>4. P = Seq(Symbols)
  BY <1>1, <1>3, Appending
<1> QED BY <1>4 DEF P

\* A word with a letter has a phrase.
LEMMA TokenPart == \A w \in Seq(Symbols) : HasToken(w) => Parts(Letters, w) # <<>>
<1> DEFINE P == {w \in Seq(Symbols) : HasToken(w) => Parts(Letters, w) # <<>>}
<1>1. <<>> \in P
  <2>1. <<>> \in Seq(Symbols) /\ Len(<<>>) = 0 /\ 1..0 = {}
    OBVIOUS
  <2> QED BY <2>1 DEF HasToken
<1>2. ASSUME NEW w \in P, NEW c \in Symbols, HasToken(Append(w, c))
      PROVE  Parts(Letters, Append(w, c)) # <<>>
  <2> DEFINE r == Parts(Letters, w)
             next == Parts(Letters, Append(w, c))
  <2>1. /\ r \in Seq(Seq(Symbols)) /\ (Joins(Letters, w) => r # <<>>)
        /\ next = IF c \notin Letters THEN r
                  ELSE IF Joins(Letters, w) /\ c \notin Cjk
                  THEN [r EXCEPT ![Len(r)] = Append(@, c)] ELSE Append(r, <<c>>)
    <3>1. PartsMore(Letters, w, c)
      BY Sets, PartsAppend DEF Letters
    <3> QED BY <3>1 DEF PartsMore
  <2>2. HasToken(w) => r # <<>>
    OBVIOUS
  <2>3. HasToken(w) \/ c \in Letters
    BY <1>2, TokenGrows
  <2>4. <<c>> \in Seq(Symbols)
    OBVIOUS
  <2> HIDE DEF r, next
  <2>5. Append(r, <<c>>) # <<>>
    BY <2>1, <2>4, AppendSome
  <2>6. r # <<>> => [r EXCEPT ![Len(r)] = Append(@, c)] # <<>>
    BY <2>1
  <2> QED BY <2>1, <2>2, <2>3, <2>5, <2>6 DEF next
<1>3. P \in SUBSET Seq(Symbols) /\ \A w \in P, c \in Symbols : Append(w, c) \in P
  <2>1. \A w \in P, c \in Symbols : Append(w, c) \in Seq(Symbols)
    OBVIOUS
  <2> QED BY <2>1, <1>2
<1> HIDE DEF P
<1>4. P = Seq(Symbols)
  BY <1>1, <1>3, Appending
<1> QED BY <1>4 DEF P

\* A stretch of a sequence, and what MATCH makes of one.
Infix(p, t) == \E u, v \in Seq(Seq(Symbols)) : t = (u \o p) \o v

\* FTS5 finds a phrase that is a stretch of the tokens.
LEMMA InfixOccurs ==
    ASSUME NEW p \in Seq(Seq(Symbols)), NEW t \in Seq(Seq(Symbols)), Infix(p, t)
    PROVE  Occurs(p, t)
<1> DEFINE V == Seq(Symbols)
<1> USE DEF Infix
<1>1. PICK u \in Seq(V), v \in Seq(V) : t = (u \o p) \o v
  OBVIOUS
<1>2. p \in Seq(V) /\ t \in Seq(V)
  OBVIOUS
<1> HIDE DEF V
<1> DEFINE i == Len(u) + 1
           q == SubSeq(t, i, i + Len(p) - 1)
<1>3. Len(t) = Len(u) + Len(p) + Len(v) /\ Len(u) \in Nat /\ Len(p) \in Nat /\ Len(v) \in Nat
  BY <1>1, <1>2
<1>4. i \in 1..(Len(t) - Len(p) + 1)
  BY <1>3
<1>5. q = p
  <2>1. q \in Seq(V) /\ Len(q) = Len(p)
    BY <1>1, <1>2, <1>3, SMTT(30)
  <2>2. \A k \in 1..Len(p) : q[k] = p[k]
    BY <1>1, <1>2, <1>3
  <2> HIDE DEF q
  <2> QED BY <1>2, <2>1, <2>2, SeqEqual
<1> QED BY <1>4, <1>5 DEF Occurs

Regroup(p, q, r) == (p \o q) \o r = p \o (q \o r)

\* Concatenation is associative.
LEMMA Regrouped ==
    ASSUME NEW V, NEW p \in Seq(V), NEW q \in Seq(V), NEW r \in Seq(V)
    PROVE  Regroup(p, q, r)
  BY ConcatAssociative DEF Regroup

\* A stretch of a stretch.
LEMMA InfixTrans ==
    ASSUME NEW p \in Seq(Seq(Symbols)), NEW q \in Seq(Seq(Symbols)), NEW t \in Seq(Seq(Symbols)),
           Infix(p, q), Infix(q, t)
    PROVE  Infix(p, t)
<1> DEFINE V == Seq(Symbols)
<1>1. PICK u \in Seq(V), v \in Seq(V) : q = (u \o p) \o v
  BY DEF Infix
<1>2. PICK a \in Seq(V), b \in Seq(V) : t = (a \o q) \o b
  BY DEF Infix
<1>3. p \in Seq(V) /\ q \in Seq(V) /\ t \in Seq(V)
  OBVIOUS
<1> HIDE DEF V
<1>4. t = ((a \o u) \o p) \o (v \o b)
  <2>1. Regroup(a, u \o p, v)
    <3>1. u \o p \in Seq(V)
      BY <1>1, <1>3
    <3> QED BY <1>1, <1>2, <3>1, Regrouped
  <2>2. Regroup(a, u, p)
    BY <1>1, <1>2, <1>3, Regrouped
  <2>3. Regroup((a \o u) \o p, v, b)
    <3>1. (a \o u) \o p \in Seq(V)
      BY <1>1, <1>2, <1>3
    <3> QED BY <1>1, <1>2, <3>1, Regrouped
  <2> QED BY <1>1, <1>2, <2>1, <2>2, <2>3 DEF Regroup
<1>5. a \o u \in Seq(V) /\ v \o b \in Seq(V)
  BY <1>1, <1>2
<1> QED BY <1>4, <1>5 DEF Infix, V

-----------------------------------------------------------------------------
(* A stretch of a text that no word runs out of is found by its words.       *)

\* Words are sequences of characters.
LEMMA PartsType ==
    ASSUME NEW S, Wordy(S), NEW s \in Seq(Symbols)
    PROVE  Parts(S, s) \in Seq(Seq(Symbols))
<1>1. PartsMore(S, s, Blank)
  BY PartsAppend, Types
<1> QED BY <1>1 DEF PartsMore

\* The words of a stretch between two cuts are a stretch of the words.
LEMMA PartsInside ==
    ASSUME NEW a \in Seq(Symbols), NEW q \in Seq(Symbols), NEW b \in Seq(Symbols),
           Apart(Letters, a, q), Apart(Letters, a \o q, b)
    PROVE  Infix(Parts(Letters, q), Parts(Letters, (a \o q) \o b))
<1>1. Wordy(Letters)
  BY Sets DEF Letters
<1>2. a \o q \in Seq(Symbols)
  OBVIOUS
<1>3. Parts(Letters, (a \o q) \o b) = Parts(Letters, a \o q) \o Parts(Letters, b)
  BY <1>1, <1>2, PartsConcat
<1>4. Parts(Letters, a \o q) = Parts(Letters, a) \o Parts(Letters, q)
  BY <1>1, PartsConcat
<1>5. Parts(Letters, a) \in Seq(Seq(Symbols)) /\ Parts(Letters, b) \in Seq(Seq(Symbols))
  BY <1>1, PartsType
<1> QED BY <1>3, <1>4, <1>5 DEF Infix

\* The phrase of a word of the query is a stretch of the words of the query.
LEMMA WordInQuery ==
    ASSUME NEW q \in Seq(Symbols), NEW w \in Seq(Symbols), AtEnd(q, w) \/ Inside(q, w)
    PROVE  Infix(Parts(Letters, w), Parts(Letters, q))
<1>1. Blank \notin Letters
  BY SlackTextAssumption DEF Letters
<1>2. ASSUME NEW x \in Seq(Symbols), Shut(x), NEW y PROVE Apart(Letters, x, y)
  BY <1>1, <1>2 DEF Apart, Joins, Shut
<1>3. CASE AtEnd(q, w)
  <2>1. PICK x \in Seq(Symbols) : Shut(x) /\ q = x \o w
    BY <1>3 DEF AtEnd
  <2>2. <<>> \in Seq(Symbols) /\ q = (x \o w) \o <<>>
    BY <2>1
  <2>3. Apart(Letters, x \o w, <<>>)
    BY DEF Apart
  <2> QED BY <1>2, <2>1, <2>2, <2>3, PartsInside
<1>4. CASE Inside(q, w)
  <2>1. PICK x \in Seq(Symbols), y \in Seq(Symbols) :
           Shut(x) /\ y # <<>> /\ y[1] = Blank /\ q = (x \o w) \o y
    BY <1>4 DEF Inside
  <2>2. Apart(Letters, x \o w, y)
    BY <1>1, <2>1 DEF Apart
  <2> QED BY <1>2, <2>1, <2>2, PartsInside
<1> QED BY <1>3, <1>4

Joint(s, m, k, n) == SubSeq(s, m, k) \o SubSeq(s, k + 1, n) = SubSeq(s, m, n)

\* Two adjacent stretches.
LEMMA JointStretches ==
    ASSUME NEW C, NEW s \in Seq(C),
           NEW m \in 1..(Len(s) + 1), NEW k \in (m - 1)..Len(s), NEW n \in k..Len(s)
    PROVE  Joint(s, m, k, n)
  BY ConcatAdjacentSubSeq DEF Joint

\* Each word of the stretch is a phrase that occurs, and one has a token.
LEMMA StretchFound ==
    ASSUME NEW t \in Seq(Symbols), NEW m \in 1..Len(t), NEW n \in m..Len(t),
           m > 1 => ~(t[m - 1] \in Latin /\ t[m] \in Latin),
           n < Len(t) => ~(t[n] \in Latin /\ t[n + 1] \in Latin),
           \E k \in m..n : t[k] \in Letters
    PROVE  Matches(SubSeq(t, m, n), Parts(Letters, t))
<1> DEFINE q == SubSeq(t, m, n)
           a == SubSeq(t, 1, m - 1)
           b == SubSeq(t, n + 1, Len(t))
           tokens == Parts(Letters, t)
           words == Runs(q, Query)
<1>1. /\ a \in Seq(Symbols) /\ Len(a) = m - 1 /\ (a # <<>> <=> m > 1)
      /\ m > 1 => a[Len(a)] = t[m - 1]
  OBVIOUS
<1>2. /\ q \in Seq(Symbols) /\ Len(q) = n - m + 1 /\ q # <<>>
      /\ \A k \in 1..(n - m + 1) : q[k] = t[m + k - 1]
  OBVIOUS
<1>3. /\ b \in Seq(Symbols) /\ Len(b) = Len(t) - n /\ (b # <<>> <=> n < Len(t))
      /\ \A k \in 1..(Len(t) - n) : b[k] = t[n + k]
  <2>1. b \in Seq(Symbols) /\ Len(b) = Len(t) - n
    <3>1. CASE n = Len(t)
      <4>1. b = <<>>
        BY <3>1
      <4> QED BY <4>1, <3>1
    <3>2. CASE n < Len(t)
      <4>1. n + 1 \in 1..Len(t)
        BY <3>2
      <4> QED BY <4>1
    <3> QED BY <3>1, <3>2
  <2>2. \A k \in 1..(Len(t) - n) : b[k] = t[n + k]
    OBVIOUS
  <2> HIDE DEF b
  <2>3. b # <<>> <=> Len(b) # 0
    BY <2>1, LenProperties
  <2> QED BY <2>1, <2>2, <2>3
<1>4. t = (a \o q) \o b
  <2>1. Joint(t, 1, m - 1, n)
    BY JointStretches
  <2>2. Joint(t, 1, n, Len(t)) /\ SubSeq(t, 1, Len(t)) = t
    BY JointStretches, SubSeqFull
  <2>3. (m - 1) + 1 = m
    OBVIOUS
  <2> QED BY <2>1, <2>2, <2>3, Zenon DEF Joint
<1> HIDE DEF q, a, b
<1>5. Infix(Parts(Letters, q), tokens)
  <2>1. q[1] = t[m] /\ q[Len(q)] = t[n]
    <3>1. 1 \in 1..(n - m + 1) /\ n - m + 1 \in 1..(n - m + 1)
      OBVIOUS
    <3>2. m + 1 - 1 = m /\ m + (n - m + 1) - 1 = n
      OBVIOUS
    <3> QED BY <3>1, <3>2, <1>2
  <2>2. Letters \ Cjk \subseteq Latin
    BY DEF Letters
  <2>6. n < Len(t) => b[1] = t[n + 1]
    BY <1>3
  <2>3. Apart(Letters, a, q)
    BY <1>1, <2>1, <2>2 DEF Apart, Joins
  <2>4. (a \o q)[Len(a \o q)] = q[Len(q)]
    BY <1>1, <1>2
  <2>5. Apart(Letters, a \o q, b)
    BY <1>3, <2>1, <2>2, <2>4, <2>6 DEF Apart, Joins
  <2> QED BY <1>1, <1>2, <1>3, <1>4, <2>3, <2>5, PartsInside
<1>6. HasToken(q)
  <2>1. PICK k \in m..n : t[k] \in Letters
    OBVIOUS
  <2>2. k - m + 1 \in 1..(n - m + 1) /\ m + (k - m + 1) - 1 = k
    OBVIOUS
  <2> QED BY <2>1, <2>2, <1>2 DEF HasToken
<1>7. /\ words \in Seq(Seq(Symbols))
      /\ \A k \in 1..Len(words) : AtEnd(q, words[k]) \/ Inside(q, words[k])
      /\ \E k \in 1..Len(words) : HasToken(words[k])
  <2>1. WordsStand(q) /\ TokenFound(q)
    BY <1>2, QueryWords, QueryTokens
  <2> QED BY <1>6, <2>1 DEF WordsStand, TokenFound
<1>8. ToFtsQuery(q) = [k \in DOMAIN words |-> Parts(Letters, words[k])]
  BY DEF ToFtsQuery, Query, Parts, Tokens, Letters
<1>9. DOMAIN words = 1..Len(words) /\ \A k \in 1..Len(words) : words[k] \in Seq(Symbols)
  BY <1>7
<1> HIDE DEF words, tokens
<1>10. ToSet(ToFtsQuery(q)) = {Parts(Letters, words[k]) : k \in 1..Len(words)}
  <2>1. DOMAIN ToFtsQuery(q) = 1..Len(words)
    BY <1>8, <1>9
  <2>2. \A k \in 1..Len(words) : ToFtsQuery(q)[k] = Parts(Letters, words[k])
    BY <1>8, <1>9
  <2>3. ToSet(ToFtsQuery(q)) = {ToFtsQuery(q)[k] : k \in DOMAIN ToFtsQuery(q)}
    BY DEF ToSet
  <2> HIDE DEF Parts
  <2> QED BY <2>1, <2>2, <2>3
<1>11. ASSUME NEW k \in 1..Len(words) PROVE Occurs(Parts(Letters, words[k]), tokens)
  <2>1. Wordy(Letters)
    BY Sets DEF Letters
  <2>2. /\ Parts(Letters, words[k]) \in Seq(Seq(Symbols)) /\ Parts(Letters, q) \in Seq(Seq(Symbols))
        /\ tokens \in Seq(Seq(Symbols))
    BY <2>1, <1>2, <1>9, PartsType DEF tokens
  <2>3. Infix(Parts(Letters, words[k]), Parts(Letters, q))
    BY <1>2, <1>7, <1>9, WordInQuery
  <2> QED BY <1>5, <2>2, <2>3, InfixTrans, InfixOccurs
<1>12. PICK k \in 1..Len(words) : Parts(Letters, words[k]) # <<>>
  BY <1>7, <1>9, TokenPart
<1> DEFINE phrases == {p \in ToSet(ToFtsQuery(q)) : p # <<>>}
<1>13. phrases # {} /\ \A p \in phrases : Occurs(p, tokens)
  BY <1>10, <1>11, <1>12
<1> QED BY <1>13 DEF Matches, q, tokens

-----------------------------------------------------------------------------
(* The page beside the text of the index: what the page shows between two    *)
(* tags stands in the index as it is, and no word of the index runs on there *)
(* that does not on the page.                                                *)

Beside(m, page, plain) ==
    /\ m \in [1..Len(page) -> 1..Len(plain)]
    /\ \A k \in 1..Len(page) : page[k] # Close =>
          /\ plain[m[k]] = page[k]
          /\ m[k] > 1 /\ plain[m[k] - 1] \in Latin => k > 1 /\ page[k - 1] \in Latin \cup {Close}
          /\ m[k] < Len(plain) /\ plain[m[k] + 1] \in Latin => k < Len(page) /\ page[k + 1] \in Latin
          /\ k < Len(page) /\ page[k + 1] # Close => m[k + 1] = m[k] + 1
          /\ m[k] = Len(plain) <=> k = Len(page)

\* Such a map exists.
Faithful(page, plain) ==
    /\ page \in Seq(Symbols) /\ plain \in Seq(Symbols)
    /\ Len(page) = 0 <=> Len(plain) = 0
    /\ \E m : Beside(m, page, plain)

\* The same character on the page and in the index.
LEMMA FaithfulSame ==
    ASSUME NEW page, NEW plain, Faithful(page, plain), NEW c \in Symbols, c # Close
    PROVE  Faithful(Append(page, c), Append(plain, c))
<1> DEFINE a == Append(page, c)
           b == Append(plain, c)
           n == Len(page)
           l == Len(plain)
<1>1. page \in Seq(Symbols) /\ plain \in Seq(Symbols) /\ (n = 0 <=> l = 0)
  BY DEF Faithful
<1>2. PICK m : Beside(m, page, plain)
  BY DEF Faithful
<1>3. /\ n \in Nat /\ Len(a) = n + 1 /\ a \in Seq(Symbols) /\ a[n + 1] = c
      /\ \A k \in 1..n : a[k] = page[k]
  BY <1>1
<1>4. /\ l \in Nat /\ Len(b) = l + 1 /\ b \in Seq(Symbols) /\ b[l + 1] = c
      /\ \A k \in 1..l : b[k] = plain[k]
  BY <1>1
<1>5. /\ m \in [1..n -> 1..l]
      /\ \A k \in 1..n : page[k] # Close =>
            /\ plain[m[k]] = page[k]
            /\ m[k] > 1 /\ plain[m[k] - 1] \in Latin => k > 1 /\ page[k - 1] \in Latin \cup {Close}
            /\ m[k] < l /\ plain[m[k] + 1] \in Latin => k < n /\ page[k + 1] \in Latin
            /\ k < n /\ page[k + 1] # Close => m[k + 1] = m[k] + 1
            /\ m[k] = l <=> k = n
  BY <1>2 DEF Beside
<1> HIDE DEF a, b, n, l
<1> DEFINE h == [k \in 1..(n + 1) |-> IF k = n + 1 THEN l + 1 ELSE m[k]]
<1>6. \A k \in 1..n : k \in 1..(n + 1) /\ k # n + 1 /\ m[k] \in 1..l
  BY <1>3, <1>5
<1>7. h \in [1..(n + 1) -> 1..(l + 1)]
  <2>1. \A k \in 1..(n + 1) : k # n + 1 => k \in 1..n
    BY <1>3
  <2> QED BY <2>1, <1>4, <1>6
<1>8. h[n + 1] = l + 1 /\ \A k \in 1..n : h[k] = m[k]
  BY <1>3, <1>6
<1> HIDE DEF h
<1>9. ASSUME NEW k \in 1..(n + 1), a[k] # Close
      PROVE  /\ b[h[k]] = a[k]
             /\ h[k] > 1 /\ b[h[k] - 1] \in Latin => k > 1 /\ a[k - 1] \in Latin \cup {Close}
             /\ h[k] < l + 1 /\ b[h[k] + 1] \in Latin => k < n + 1 /\ a[k + 1] \in Latin
             /\ k < n + 1 /\ a[k + 1] # Close => h[k + 1] = h[k] + 1
             /\ h[k] = l + 1 <=> k = n + 1
  <2>1. CASE k = n + 1
    <3>1. b[h[k]] = a[k] /\ h[k] = l + 1
      BY <2>1, <1>3, <1>4, <1>8
    <3>2. ASSUME l >= 1, b[l] \in Latin PROVE n >= 1 /\ a[n] \in Latin \cup {Close}
      <4>1. n \in 1..n /\ l \in 1..l
        BY <3>2, <1>1, <1>3, <1>4
      <4>2. b[l] = plain[l] /\ a[n] = page[n]
        BY <4>1, <1>3, <1>4
      <4>3. page[n] # Close => m[n] = l /\ plain[m[n]] = page[n]
        BY <4>1, <1>5
      <4> QED BY <3>2, <4>1, <4>2, <4>3
    <3>3. h[k] - 1 = l /\ k - 1 = n /\ (h[k] > 1 => l >= 1) /\ (n >= 1 => k > 1)
      BY <2>1, <3>1, <1>3, <1>4
    <3> QED BY <2>1, <3>1, <3>2, <3>3, <1>3, <1>4
  <2>2. CASE k # n + 1
    <3>1. /\ k \in 1..n /\ h[k] = m[k] /\ m[k] \in 1..l /\ a[k] = page[k] /\ b[m[k]] = plain[m[k]]
          /\ m[k] < l + 1 /\ k < n + 1
      BY <2>2, <1>3, <1>4, <1>6, <1>8
    <3>2. m[k] > 1 => m[k] - 1 \in 1..l /\ b[m[k] - 1] = plain[m[k] - 1]
      BY <3>1, <1>4
    <3>3. k > 1 => k - 1 \in 1..n /\ a[k - 1] = page[k - 1]
      BY <3>1, <1>3
    <3>4. k < n => k + 1 \in 1..n /\ a[k + 1] = page[k + 1] /\ h[k + 1] = m[k + 1]
      BY <3>1, <1>3, <1>8
    <3>5. m[k] < l => m[k] + 1 \in 1..l /\ b[m[k] + 1] = plain[m[k] + 1]
      BY <3>1, <1>4
    <3>6. /\ plain[m[k]] = page[k]
          /\ m[k] > 1 /\ plain[m[k] - 1] \in Latin => k > 1 /\ page[k - 1] \in Latin \cup {Close}
          /\ m[k] < l /\ plain[m[k] + 1] \in Latin => k < n /\ page[k + 1] \in Latin
          /\ k < n /\ page[k + 1] # Close => m[k + 1] = m[k] + 1
          /\ m[k] = l <=> k = n
      BY <3>1, <1>9, <1>5
    <3>7. CASE k = n
      <4>1. m[k] = l /\ a[k + 1] = c /\ b[m[k] + 1] = c /\ h[k + 1] = l + 1
        BY <3>7, <3>6, <1>3, <1>4, <1>8
      <4> QED BY <3>1, <3>2, <3>3, <3>6, <4>1
    <3>8. CASE k # n
      <4>1. k < n /\ m[k] < l
        BY <3>1, <3>6, <3>8, <1>3, <1>4
      <4> QED BY <3>1, <3>2, <3>3, <3>4, <3>5, <3>6, <4>1
    <3> QED BY <3>7, <3>8
  <2> QED BY <2>1, <2>2
<1>10. Beside(h, a, b)
  BY <1>3, <1>4, <1>7, <1>9 DEF Beside
<1> QED BY <1>3, <1>4, <1>10 DEF Faithful, a, b

\* The same name or url.
LEMMA FaithfulSames ==
    ASSUME NEW page, NEW plain, Faithful(page, plain)
    PROVE  \A y \in Seq(Characters) : Faithful(page \o y, plain \o y)
<1> DEFINE P == {y \in Seq(Characters) : Faithful(page \o y, plain \o y)}
<1>1. page \in Seq(Symbols) /\ plain \in Seq(Symbols)
  BY DEF Faithful
<1>2. <<>> \in P
  BY <1>1, ConcatEmptySeq
<1>3. Characters \subseteq Symbols /\ Close \notin Characters
  BY SlackTextAssumption, Types DEF Characters
<1>4. ASSUME NEW y \in P, NEW c \in Characters
      PROVE  Faithful(page \o Append(y, c), plain \o Append(y, c))
  <2>1. y \in Seq(Symbols) /\ c \in Symbols /\ c # Close
    BY <1>3
  <2>2. Behind(page, y, c) /\ Behind(plain, y, c)
    BY <1>1, <2>1, AppendConcat
  <2>3. Faithful(Append(page \o y, c), Append(plain \o y, c))
    BY <2>1, FaithfulSame
  <2> QED BY <2>2, <2>3 DEF Behind
<1>5. P \in SUBSET Seq(Characters) /\ \A y \in P, c \in Characters : Append(y, c) \in P
  <2>1. \A y \in P, c \in Characters : Append(y, c) \in Seq(Characters)
    OBVIOUS
  <2> QED BY <2>1, <1>4
<1> HIDE DEF P
<1>6. P = Seq(Characters)
  BY <1>2, <1>5, Appending
<1> QED BY <1>6 DEF P

\* A tag on the page, and in the index what no word goes on with.
LEMMA FaithfulClose ==
    ASSUME NEW page, NEW plain, Faithful(page, plain),
           NEW y \in Seq(Symbols), y # <<>>, y[1] \notin Latin
    PROVE  Faithful(Append(page, Close), plain \o y)
<1> DEFINE a == Append(page, Close)
           b == plain \o y
           n == Len(page)
           l == Len(plain)
           j == Len(y)
<1>1. page \in Seq(Symbols) /\ plain \in Seq(Symbols) /\ (n = 0 <=> l = 0)
  BY DEF Faithful
<1>2. PICK m : Beside(m, page, plain)
  BY DEF Faithful
<1>3. /\ n \in Nat /\ Len(a) = n + 1 /\ a \in Seq(Symbols) /\ a[n + 1] = Close
      /\ \A k \in 1..n : a[k] = page[k]
  BY <1>1, Types
<1>4. /\ l \in Nat /\ j \in Nat /\ j > 0 /\ Len(b) = l + j /\ b \in Seq(Symbols)
      /\ b[l + 1] = y[1]
      /\ \A k \in 1..l : b[k] = plain[k]
  BY <1>1
<1>5. /\ m \in [1..n -> 1..l]
      /\ \A k \in 1..n : page[k] # Close =>
            /\ plain[m[k]] = page[k]
            /\ m[k] > 1 /\ plain[m[k] - 1] \in Latin => k > 1 /\ page[k - 1] \in Latin \cup {Close}
            /\ m[k] < l /\ plain[m[k] + 1] \in Latin => k < n /\ page[k + 1] \in Latin
            /\ k < n /\ page[k + 1] # Close => m[k + 1] = m[k] + 1
            /\ m[k] = l <=> k = n
  BY <1>2 DEF Beside
<1> HIDE DEF a, b, n, l, j
<1> DEFINE h == [k \in 1..(n + 1) |-> IF k = n + 1 THEN l + j ELSE m[k]]
<1>6. \A k \in 1..n : k \in 1..(n + 1) /\ k # n + 1 /\ m[k] \in 1..l
  BY <1>3, <1>5
<1>7. h \in [1..(n + 1) -> 1..(l + j)]
  <2>1. \A k \in 1..(n + 1) : k # n + 1 => k \in 1..n
    BY <1>3
  <2>2. l + j \in 1..(l + j) /\ \A k \in 1..l : k \in 1..(l + j)
    BY <1>4
  <2> QED BY <2>1, <2>2, <1>6
<1>8. \A k \in 1..n : h[k] = m[k]
  BY <1>3, <1>6
<1> HIDE DEF h
<1>9. ASSUME NEW k \in 1..(n + 1), a[k] # Close
      PROVE  /\ b[h[k]] = a[k]
             /\ h[k] > 1 /\ b[h[k] - 1] \in Latin => k > 1 /\ a[k - 1] \in Latin \cup {Close}
             /\ h[k] < l + j /\ b[h[k] + 1] \in Latin => k < n + 1 /\ a[k + 1] \in Latin
             /\ k < n + 1 /\ a[k + 1] # Close => h[k + 1] = h[k] + 1
             /\ h[k] = l + j <=> k = n + 1
  <2>1. k # n + 1
    BY <1>3, <1>9
  <2>2. /\ k \in 1..n /\ h[k] = m[k] /\ m[k] \in 1..l /\ a[k] = page[k] /\ b[m[k]] = plain[m[k]]
        /\ m[k] < l + j /\ k < n + 1
    BY <2>1, <1>3, <1>4, <1>6, <1>8
  <2>3. m[k] > 1 => m[k] - 1 \in 1..l /\ b[m[k] - 1] = plain[m[k] - 1]
    BY <2>2, <1>4, SMTT(30)
  <2>4. k > 1 => k - 1 \in 1..n /\ a[k - 1] = page[k - 1]
    BY <2>2, <1>3
  <2>5. k < n => k + 1 \in 1..n /\ a[k + 1] = page[k + 1] /\ h[k + 1] = m[k + 1]
    BY <2>2, <1>3, <1>8
  <2>6. m[k] < l => m[k] + 1 \in 1..l /\ b[m[k] + 1] = plain[m[k] + 1]
    BY <2>2, <1>4
  <2>7. /\ plain[m[k]] = page[k]
        /\ m[k] > 1 /\ plain[m[k] - 1] \in Latin => k > 1 /\ page[k - 1] \in Latin \cup {Close}
        /\ m[k] < l /\ plain[m[k] + 1] \in Latin => k < n /\ page[k + 1] \in Latin
        /\ k < n /\ page[k + 1] # Close => m[k + 1] = m[k] + 1
        /\ m[k] = l <=> k = n
    BY <2>2, <1>9, <1>5
  <2>8. CASE k = n
    <3>1. m[k] = l /\ a[k + 1] = Close /\ b[m[k] + 1] \notin Latin
      BY <2>7, <2>8, <1>3, <1>4
    <3> QED BY <2>2, <2>3, <2>4, <2>7, <3>1
  <2>9. CASE k # n
    <3>1. k < n /\ m[k] < l
      BY <2>2, <2>7, <2>9, <1>3, <1>4, SMTT(30)
    <3> QED BY <2>2, <2>3, <2>4, <2>5, <2>6, <2>7, <3>1
  <2> QED BY <2>8, <2>9
<1>10. Beside(h, a, b)
  BY <1>3, <1>4, <1>7, <1>9 DEF Beside
<1> QED BY <1>3, <1>4, <1>10 DEF Faithful, a, b

\* What the index and the page have for an element of a message.
Elements == Characters \cup Constructs

PlainOf(x) ==
    IF x \in Constructs
    THEN IF Kind[x] = "link" THEN Name[x] \o <<Blank, Sign>> \o Url \o <<Sign>> ELSE Spelled(x)
    ELSE <<x>>

PageOf(x) ==
    IF x \in Constructs
    THEN IF Kind[x] \in ForeignKinds THEN <<Close>>
         ELSE IF Kind[x] = "link" THEN Name[x] \o <<Close>> ELSE Spelled(x)
    ELSE <<x>>

\* No mark gets into the index.
Unmarked == Characters \cup {Open, Close}

\* Characters, tags and marks.
LEMMA UnmarkedTypes ==
    /\ Characters \subseteq Unmarked /\ Open \in Unmarked /\ Close \in Unmarked
    /\ Unmarked \subseteq Symbols /\ Mark \notin Unmarked
    /\ Seq(Characters) \subseteq Seq(Unmarked) /\ Seq(Unmarked) \subseteq Seq(Symbols)
<1>1. Mark \notin Unmarked
  BY SlackTextAssumption DEF Unmarked, Characters
<1>2. Characters \subseteq Unmarked /\ Unmarked \subseteq Symbols
  BY DEF Unmarked, Symbols
<1> QED BY <1>1, <1>2 DEF Unmarked

\* How a construct is spelled out.
LEMMA Constructed ==
    /\ \A x \in Constructs : Name[x] \in Seq(Characters) /\ Name[x] \in Seq(Symbols)
    /\ Url \in Seq(Characters) /\ Url \in Seq(Symbols)
    /\ \A x \in Constructs :
          \/ Kind[x] \in {"user", "channel", "broadcast"} /\ Spelled(x) = <<Sign>> \o Name[x]
          \/ Kind[x] = "labelled_broadcast" /\ Spelled(x) = <<Sign>> \o Name[x]
          \/ Kind[x] = "link" /\ Spelled(x) = Name[x]
          \/ Kind[x] = "bare" /\ Spelled(x) = Url
          \/ Kind[x] = "other" /\ Spelled(x) = <<Open>> \o Name[x] \o <<Close>>
<1>1. Seq(Characters) \subseteq Seq(Symbols)
  BY Types
<1>2. \A x \in Constructs : Kind[x] \in KnownKinds \cup ForeignKinds
  BY SlackTextAssumption
<1>3. ASSUME NEW x \in Constructs
      PROVE  \/ Kind[x] \in {"user", "channel", "broadcast"} /\ Spelled(x) = <<Sign>> \o Name[x]
             \/ Kind[x] = "labelled_broadcast" /\ Spelled(x) = <<Sign>> \o Name[x]
             \/ Kind[x] = "link" /\ Spelled(x) = Name[x]
             \/ Kind[x] = "bare" /\ Spelled(x) = Url
             \/ Kind[x] = "other" /\ Spelled(x) = <<Open>> \o Name[x] \o <<Close>>
  <2>1. Kind[x] \in {"user", "channel", "broadcast", "link", "bare", "labelled_broadcast", "other"}
    BY <1>2 DEF KnownKinds, ForeignKinds
  <2> QED BY <2>1 DEF Spelled, Source
<1> QED BY <1>1, <1>3, SlackTextAssumption

\* The index and the page are made element by element.
LEMMA Spreads ==
    /\ [x \in Elements |-> PlainOf(x)] \in [Elements -> Seq(Unmarked)]
    /\ [x \in Elements |-> PageOf(x)] \in [Elements -> Seq(Unmarked)]
    /\ \A s \in Seq(Elements) : Plain(s) = Spread([x \in Elements |-> PlainOf(x)], s)
    /\ \A s \in Seq(Elements) : PageText(s) = Spread([x \in Elements |-> PageOf(x)], s)
<1>1. ASSUME NEW x \in Elements PROVE PlainOf(x) \in Seq(Unmarked) /\ PageOf(x) \in Seq(Unmarked)
  <2>1. CASE x \notin Constructs
    BY <2>1, UnmarkedTypes DEF Elements, PlainOf, PageOf
  <2>2. CASE x \in Constructs
    <3>1. /\ <<Close>> \in Seq(Unmarked) /\ <<Open>> \in Seq(Unmarked) /\ <<Sign>> \in Seq(Unmarked)
          /\ <<Blank, Sign>> \in Seq(Unmarked)
      BY Types, UnmarkedTypes
    <3>2. Name[x] \in Seq(Unmarked) /\ Url \in Seq(Unmarked)
      BY <2>2, Constructed, UnmarkedTypes
    <3>3. Spelled(x) \in Seq(Unmarked)
      <4>1. <<Sign>> \o Name[x] \in Seq(Unmarked) /\ <<Open>> \o Name[x] \o <<Close>> \in Seq(Unmarked)
        BY <3>1, <3>2
      <4> QED BY <2>2, <3>2, <4>1, Constructed
    <3>4. Name[x] \o <<Blank, Sign>> \o Url \o <<Sign>> \in Seq(Unmarked) /\ Name[x] \o <<Close>> \in Seq(Unmarked)
      BY <3>1, <3>2
    <3> QED BY <2>2, <3>1, <3>3, <3>4 DEF PlainOf, PageOf
  <2> QED BY <2>1, <2>2
<1>2. ASSUME NEW s \in Seq(Elements) PROVE Plain(s) = Spread([x \in Elements |-> PlainOf(x)], s)
  <2>1. \A i \in DOMAIN s : s[i] \in Elements
    OBVIOUS
  <2> QED BY <2>1 DEF Plain, Expand, Spread, PlainOf
<1>3. ASSUME NEW s \in Seq(Elements) PROVE PageText(s) = Spread([x \in Elements |-> PageOf(x)], s)
  <2>1. \A i \in DOMAIN s : s[i] \in Elements
    OBVIOUS
  <2> QED BY <2>1 DEF PageText, Expand, Spread, PageOf
<1> QED BY <1>1, <1>2, <1>3

\* The index and the page of a text that grows.
LEMMA TextAppend ==
    ASSUME NEW s \in Seq(Elements), NEW x \in Elements
    PROVE  /\ Plain(s) \in Seq(Unmarked) /\ Plain(Append(s, x)) = Plain(s) \o PlainOf(x)
           /\ PageText(s) \in Seq(Unmarked) /\ PageText(Append(s, x)) = PageText(s) \o PageOf(x)
<1>1. Append(s, x) \in Seq(Elements)
  OBVIOUS
<1>2. SpreadMore(Unmarked, [e \in Elements |-> PlainOf(e)], s, x)
  BY Spreads, SpreadAppend
<1>3. SpreadMore(Unmarked, [e \in Elements |-> PageOf(e)], s, x)
  BY Spreads, SpreadAppend
<1>4. [e \in Elements |-> PlainOf(e)][x] = PlainOf(x) /\ [e \in Elements |-> PageOf(e)][x] = PageOf(x)
  OBVIOUS
<1> QED BY <1>1, <1>2, <1>3, <1>4, Spreads DEF SpreadMore

\* What gets into the index.
LEMMA TextType ==
    ASSUME NEW s \in Seq(Elements)
    PROVE  /\ Plain(s) \in Seq(Unmarked) /\ Plain(s) \in Seq(Symbols)
           /\ Normalize(s) \in Seq(Unmarked) /\ Normalize(s) \in Seq(Symbols)
<1> DEFINE F == [c \in Unmarked |-> Wide(c)]
           t == Plain(s)
<1>1. t \in Seq(Unmarked) /\ t \in Seq(Symbols)
  <2>1. Blank \in Elements
    BY Types DEF Elements
  <2> QED BY <2>1, TextAppend, UnmarkedTypes
<1>2. F \in [Unmarked -> Seq(Unmarked)]
  <2>1. \A c \in Unmarked : Wide(c) \in Seq(Unmarked)
    <3>1. Blank \in Unmarked
      BY UnmarkedTypes, Types
    <3> QED BY <3>1 DEF Wide
  <2> QED BY <2>1
<1> HIDE DEF t
<1>3. SplitCjk(t) = Spread(F, t)
  <2>1. \A i \in DOMAIN t : t[i] \in Unmarked
    BY <1>1
  <2>2. \A i \in DOMAIN t : F[t[i]] = IF t[i] \in Cjk THEN <<Blank, t[i], Blank>> ELSE <<t[i]>>
    BY <2>1 DEF Wide
  <2> HIDE DEF F
  <2> QED BY <2>2 DEF SplitCjk, Spread
<1> HIDE DEF F
<1>4. SpreadMore(Unmarked, F, t, Close)
  BY <1>1, <1>2, UnmarkedTypes, SpreadAppend
<1>5. SplitCjk(t) \in Seq(Unmarked)
  BY <1>3, <1>4 DEF SpreadMore
<1> QED BY <1>1, <1>5, UnmarkedTypes DEF Normalize, t

\* An element keeps page and index beside each other.
LEMMA FaithfulStep ==
    ASSUME NEW page, NEW plain, Faithful(page, plain), NEW x \in Elements
    PROVE  Faithful(page \o PageOf(x), plain \o PlainOf(x))
<1>1. page \in Seq(Symbols) /\ plain \in Seq(Symbols)
  BY DEF Faithful
<1>2. page \o <<Close>> = Append(page, Close)
  BY <1>1, Types
<1>3. /\ <<Close>> \in Seq(Symbols) /\ <<Open>> \in Seq(Symbols) /\ <<Sign>> \in Seq(Symbols)
      /\ <<Blank, Sign>> \in Seq(Symbols) /\ <<Sign>> \in Seq(Characters)
  BY Types
<1>4. {Sign, Open, Blank} \cap Latin = {}
  BY SlackTextAssumption
<1>5. CASE x \notin Constructs
  <2>1. <<x>> \in Seq(Characters)
    BY <1>5 DEF Elements
  <2> QED BY <2>1, <1>5, FaithfulSames DEF PageOf, PlainOf
<1>6. CASE x \in Constructs
  <2> DEFINE name == Name[x]
  <2>1. name \in Seq(Characters) /\ name \in Seq(Symbols) /\ Url \in Seq(Characters) /\ Url \in Seq(Symbols)
    BY <1>6, Constructed
  <2>2. CASE Kind[x] \in {"user", "channel", "broadcast"} /\ Spelled(x) = <<Sign>> \o Name[x]
    <3>1. PageOf(x) = <<Sign>> \o name /\ PlainOf(x) = <<Sign>> \o name
      BY <1>6, <2>2 DEF PageOf, PlainOf, ForeignKinds
    <3> HIDE DEF name
    <3>2. <<Sign>> \o name \in Seq(Characters)
      BY <1>3, <2>1
    <3> QED BY <3>1, <3>2, FaithfulSames
  <2>3. CASE Kind[x] = "labelled_broadcast" /\ Spelled(x) = <<Sign>> \o Name[x]
    <3> DEFINE y == <<Sign>> \o name
    <3>1. PageOf(x) = <<Close>> /\ PlainOf(x) = y
      BY <1>6, <2>3 DEF PageOf, PlainOf, ForeignKinds
    <3>2. y \in Seq(Symbols) /\ y # <<>> /\ y[1] = Sign
      BY <1>3, <2>1
    <3> HIDE DEF y
    <3> QED BY <1>2, <1>4, <3>1, <3>2, FaithfulClose
  <2>4. CASE Kind[x] = "link" /\ Spelled(x) = Name[x]
    <3> DEFINE y == <<Blank, Sign>> \o Url \o <<Sign>>
    <3>1. PageOf(x) = name \o <<Close>> /\ PlainOf(x) = name \o <<Blank, Sign>> \o Url \o <<Sign>>
      BY <1>6, <2>4 DEF PageOf, PlainOf, ForeignKinds
    <3>2. y \in Seq(Symbols) /\ y # <<>> /\ y[1] = Blank
      <4>1. <<Blank, Sign>> \o Url \in Seq(Symbols)
        BY <1>3, <2>1
      <4>2. Len(<<Blank, Sign>> \o Url) > 0 /\ (<<Blank, Sign>> \o Url)[1] = Blank
        BY <1>3, <2>1
      <4> QED BY <1>3, <4>1, <4>2
    <3>3. Regroup(name, <<Blank, Sign>> \o Url, <<Sign>>) /\ Regroup(name, <<Blank, Sign>>, Url)
      <4>1. <<Blank, Sign>> \o Url \in Seq(Symbols)
        BY <1>3, <2>1
      <4> QED BY <1>3, <2>1, <4>1, Regrouped
    <3>4. PlainOf(x) = name \o y
      BY <3>1, <3>3 DEF Regroup
    <3>5. Regroup(plain, name, y) /\ Regroup(page, name, <<Close>>)
      BY <1>1, <1>3, <2>1, <3>2, Regrouped
    <3>6. (page \o name) \o <<Close>> = Append(page \o name, Close)
      BY <1>1, <2>1, Types
    <3>7. Faithful(page \o name, plain \o name)
      BY <2>1, FaithfulSames
    <3> HIDE DEF y
    <3>8. Faithful(Append(page \o name, Close), (plain \o name) \o y)
      BY <1>4, <3>2, <3>7, FaithfulClose
    <3>9. Faithful((page \o name) \o <<Close>>, (plain \o name) \o y)
      BY <3>6, <3>8
    <3> QED BY <3>1, <3>4, <3>5, <3>9 DEF Regroup
  <2>5. CASE Kind[x] = "bare" /\ Spelled(x) = Url
    <3>1. PageOf(x) = Url /\ PlainOf(x) = Url
      BY <1>6, <2>5 DEF PageOf, PlainOf, ForeignKinds
    <3> QED BY <2>1, <3>1, FaithfulSames
  <2>6. CASE Kind[x] = "other" /\ Spelled(x) = <<Open>> \o Name[x] \o <<Close>>
    <3> DEFINE y == <<Open>> \o name \o <<Close>>
    <3>1. PageOf(x) = <<Close>> /\ PlainOf(x) = y
      BY <1>6, <2>6 DEF PageOf, PlainOf, ForeignKinds
    <3>2. y \in Seq(Symbols) /\ y # <<>> /\ y[1] = Open
      <4>1. <<Open>> \o name \in Seq(Symbols)
        BY <1>3, <2>1
      <4>2. Len(<<Open>> \o name) > 0 /\ (<<Open>> \o name)[1] = Open
        BY <1>3, <2>1
      <4> QED BY <1>3, <4>1, <4>2
    <3> HIDE DEF y
    <3> QED BY <1>2, <1>4, <3>1, <3>2, FaithfulClose
  <2> QED BY <1>6, <2>2, <2>3, <2>4, <2>5, <2>6, Constructed
<1> QED BY <1>5, <1>6

\* An empty message.
LEMMA TextNothing == Plain(<<>>) = <<>> /\ PageText(<<>>) = <<>>
<1>1. <<>> \in Seq(Elements)
  OBVIOUS
<1> QED BY <1>1, Spreads, SpreadNothing

\* Every page is beside the text of its index.
LEMMA PageFaithful == \A s \in Seq(Elements) : Faithful(PageText(s), Plain(s))
<1> DEFINE P == {s \in Seq(Elements) : Faithful(PageText(s), Plain(s))}
<1>1. <<>> \in P
  <2> DEFINE m == [k \in 1..0 |-> 0]
  <2>1. Len(<<>>) = 0 /\ <<>> \in Seq(Symbols) /\ <<>> \in Seq(Elements)
    OBVIOUS
  <2>2. m \in [1..0 -> 1..0] /\ 1..0 = {}
    OBVIOUS
  <2>3. Beside(m, <<>>, <<>>)
    BY <2>1, <2>2 DEF Beside
  <2> QED BY <2>1, <2>3, TextNothing DEF Faithful
<1>2. ASSUME NEW s \in P, NEW x \in Elements PROVE Append(s, x) \in P
  <2>1. s \in Seq(Elements) /\ Append(s, x) \in Seq(Elements)
    OBVIOUS
  <2>2. Faithful(PageText(s) \o PageOf(x), Plain(s) \o PlainOf(x))
    BY FaithfulStep
  <2>3. PageText(Append(s, x)) = PageText(s) \o PageOf(x) /\ Plain(Append(s, x)) = Plain(s) \o PlainOf(x)
    BY <2>1, TextAppend
  <2> QED BY <2>1, <2>2, <2>3
<1>3. P \in SUBSET Seq(Elements)
  OBVIOUS
<1> HIDE DEF P
<1>4. P = Seq(Elements)
  BY <1>1, <1>2, <1>3, Appending
<1> QED BY <1>4 DEF P

\* What a reader picks from a page finds the message.
LEMMA PagePieceFound ==
    ASSUME NEW page, NEW plain, Faithful(page, plain),
           NEW i \in 1..Len(page), NEW j \in 1..Len(page), IsPiece(page, i, j)
    PROVE  Matches(SubSeq(page, i, j), Parts(Letters, plain))
<1> DEFINE n == Len(page)
           l == Len(plain)
<1>1. page \in Seq(Symbols) /\ plain \in Seq(Symbols) /\ n \in Nat /\ l \in Nat
  BY DEF Faithful
<1>2. PICK m : Beside(m, page, plain)
  BY DEF Faithful
<1>3. /\ m \in [1..n -> 1..l]
      /\ \A k \in 1..n : page[k] # Close =>
            /\ plain[m[k]] = page[k]
            /\ m[k] > 1 /\ plain[m[k] - 1] \in Latin => k > 1 /\ page[k - 1] \in Latin \cup {Close}
            /\ m[k] < l /\ plain[m[k] + 1] \in Latin => k < n /\ page[k + 1] \in Latin
            /\ k < n /\ page[k + 1] # Close => m[k + 1] = m[k] + 1
  BY <1>2 DEF Beside
<1>4. /\ i <= j /\ \A k \in i..j : page[k] # Close
      /\ i > 1 => ~(page[i - 1] \in Latin \cup {Close} /\ page[i] \in Latin)
      /\ j < n => ~(page[j] \in Latin /\ page[j + 1] \in Latin)
      /\ \E k \in i..j : page[k] \in Letters
  BY DEF IsPiece, Cuts, Letters
<1> HIDE DEF n, l
<1>5. i \in 1..n /\ j \in 1..n /\ \A k \in i..j : k \in 1..n
  BY <1>1 DEF n
<1> DEFINE R == {k \in 0..(j - i) : m[i + k] = m[i] + k}
<1>6. R = 0..(j - i)
  <2>1. j - i \in Nat /\ R \in SUBSET (0..(j - i))
    BY <1>4, <1>5
  <2>2. 0 \in R
    <3>1. i + 0 = i /\ m[i] + 0 = m[i] /\ 0 \in 0..(j - i)
      BY <1>3, <1>4, <1>5
    <3> QED BY <3>1
  <2>3. ASSUME NEW k \in R, k < j - i PROVE k + 1 \in R
    <3>1. i + k \in i..j /\ i + k + 1 \in i..j /\ i + k < n /\ k + 1 \in 0..(j - i)
      BY <2>3, <1>4, <1>5, <1>1
    <3>2. m[i + k] = m[i] + k /\ i + (k + 1) = i + k + 1
      BY <1>5
    <3>3. m[(i + k) + 1] = m[i + k] + 1
      BY <3>1, <1>3, <1>4, <1>5
    <3>4. m[i] \in Int
      BY <1>3, <1>5
    <3>5. m[i + (k + 1)] = m[i] + (k + 1)
      BY <3>2, <3>3, <3>4, <1>5
    <3> QED BY <3>1, <3>5
  <2> HIDE DEF R
  <2> QED BY <2>1, <2>2, <2>3, UpFrom0
<1>7. \A k \in i..j : m[k] = m[i] + (k - i)
  <2> TAKE k \in i..j
  <2>1. k - i \in 0..(j - i) /\ i + (k - i) = k
    BY <1>5
  <2>2. k - i \in R
    BY <2>1, <1>6
  <2> QED BY <2>1, <2>2
<1> HIDE DEF R
<1> DEFINE a == m[i]
           b == m[j]
<1>8. a \in 1..l /\ b \in a..l /\ b = a + (j - i)
  <2>1. i \in i..j /\ j \in i..j
    BY <1>4, <1>5
  <2>2. a \in 1..l /\ b \in 1..l
    BY <1>3, <1>5
  <2>3. b = a + (j - i)
    BY <2>1, <1>7
  <2> QED BY <1>4, <1>5, <2>2, <2>3
<1>9. \A k \in i..j : plain[a + (k - i)] = page[k]
  BY <1>3, <1>4, <1>5, <1>7
<1> HIDE DEF a, b
<1>10. SubSeq(page, i, j) = SubSeq(plain, a, b)
  <2> DEFINE p == SubSeq(page, i, j)
             q == SubSeq(plain, a, b)
  <2>1. p \in Seq(Symbols) /\ Len(p) = j - i + 1 /\ \A k \in 1..(j - i + 1) : p[k] = page[i + k - 1]
    BY <1>1, <1>4, <1>5, SMTT(30) DEF n
  <2>2. q \in Seq(Symbols) /\ Len(q) = b - a + 1 /\ \A k \in 1..(b - a + 1) : q[k] = plain[a + k - 1]
    BY <1>1, <1>8 DEF l
  <2> HIDE DEF p, q
  <2>3. b - a + 1 = j - i + 1
    BY <1>5, <1>8
  <2>4. ASSUME NEW k \in 1..(j - i + 1) PROVE p[k] = q[k]
    <3>1. i + k - 1 \in i..j /\ a + ((i + k - 1) - i) = a + k - 1
      BY <1>5, <1>8
    <3> QED BY <3>1, <2>1, <2>2, <2>3, <1>9
  <2>5. p = q
    BY <2>1, <2>2, <2>3, <2>4, SeqEqual
  <2> QED BY <2>5 DEF p, q
<1>11. a > 1 => ~(plain[a - 1] \in Latin /\ plain[a] \in Latin)
  <2>1. plain[a] = page[i] /\ (a > 1 /\ plain[a - 1] \in Latin => i > 1 /\ page[i - 1] \in Latin \cup {Close})
    <3>1. page[i] # Close
      <4>1. i \in i..j
        BY <1>4, <1>5
      <4> QED BY <4>1, <1>4
    <3> QED BY <3>1, <1>3, <1>5 DEF a
  <2> QED BY <2>1, <1>4
<1>12. b < l => ~(plain[b] \in Latin /\ plain[b + 1] \in Latin)
  <2>1. plain[b] = page[j] /\ (b < l /\ plain[b + 1] \in Latin => j < n /\ page[j + 1] \in Latin)
    <3>1. page[j] # Close
      <4>1. j \in i..j
        BY <1>4, <1>5
      <4> QED BY <4>1, <1>4
    <3> QED BY <3>1, <1>3, <1>5 DEF b
  <2> QED BY <2>1, <1>4
<1>13. \E k \in a..b : plain[k] \in Letters
  <2>1. PICK k \in i..j : page[k] \in Letters
    BY <1>4
  <2>2. a + (k - i) \in a..b
    BY <1>5, <1>8
  <2> QED BY <2>1, <2>2, <1>9
<1>14. Matches(SubSeq(plain, a, b), Parts(Letters, plain))
  BY <1>1, <1>8, <1>11, <1>12, <1>13, StretchFound DEF l
<1> QED BY <1>10, <1>14

-----------------------------------------------------------------------------
(* What join_cjk gives back has the words that came in.                      *)

\* Splitting what is split adds blanks beside blanks.
LEMMA PartsSplit ==
    ASSUME NEW S, Wordy(S)
    PROVE  \A s \in Seq(Symbols) : Parts(S, SplitCjk(s)) = Parts(S, s)
<1> DEFINE P == {s \in Seq(Symbols) : Parts(S, SplitCjk(s)) = Parts(S, s)}
<1>1. <<>> \in P
  <2>1. <<>> \in Seq(Symbols)
    OBVIOUS
  <2> QED BY <2>1, SplitNothing
<1>2. ASSUME NEW s \in P, NEW c \in Symbols PROVE Append(s, c) \in P
  <2> DEFINE w == SplitCjk(s)
             r == Parts(S, s)
  <2>1. s \in Seq(Symbols) /\ Append(s, c) \in Seq(Symbols)
    OBVIOUS
  <2>2. w \in Seq(Symbols) /\ SplitCjk(Append(s, c)) = w \o Wide(c) /\ Parts(S, w) = r
    BY <2>1, SplitAppend DEF SplitMore
  <2>3. Joins(S, w) <=> Joins(S, s)
    <3>1. s = <<>> => w = <<>>
      BY SplitNothing
    <3> HIDE DEF w
    <3> QED BY <2>1, <3>1, SplitLast DEF Joins, Wordy, w
  <2>4. Parts(S, Append(s, c)) = IF c \notin S THEN r
                                 ELSE IF Joins(S, s) /\ c \notin Cjk
                                 THEN [r EXCEPT ![Len(r)] = Append(@, c)] ELSE Append(r, <<c>>)
    <3>1. PartsMore(S, s, c)
      BY <2>1, PartsAppend
    <3> QED BY <3>1 DEF PartsMore
  <2> HIDE DEF w, r
  <2>5. CASE c \notin Cjk
    <3>1. SplitCjk(Append(s, c)) = Append(w, c)
      BY <2>2, <2>5 DEF Wide
    <3>2. PartsMore(S, w, c)
      BY <2>2, PartsAppend
    <3> QED BY <2>1, <2>2, <2>3, <2>4, <3>1, <3>2 DEF PartsMore
  <2>6. CASE c \in Cjk
    <3> DEFINE x == Append(w, Blank)
               y == Append(x, c)
    <3>1. SplitCjk(Append(s, c)) = Append(y, Blank)
      <4>1. w \o <<Blank, c, Blank>> = Append(y, Blank)
        BY <2>2, Types
      <4> QED BY <2>2, <2>6, <4>1 DEF Wide
    <3>2. x \in Seq(Symbols) /\ y \in Seq(Symbols) /\ x # <<>> /\ x[Len(x)] = Blank
      BY <2>2, Types
    <3>3. Parts(S, x) = r
      <4>1. PartsMore(S, w, Blank)
        BY <2>2, Types, PartsAppend
      <4> QED BY <2>2, <4>1 DEF PartsMore, Wordy
    <3> HIDE DEF x
    <3>4. Parts(S, y) = Append(r, <<c>>)
      <4>1. PartsMore(S, x, c)
        BY <3>2, PartsAppend
      <4> QED BY <2>6, <3>2, <3>3, <4>1 DEF PartsMore, Wordy
    <3> HIDE DEF y
    <3>5. Parts(S, Append(y, Blank)) = Parts(S, y)
      <4>1. PartsMore(S, y, Blank)
        BY <3>2, Types, PartsAppend
      <4> QED BY <4>1 DEF PartsMore, Wordy
    <3>6. c \in S
      BY <2>6 DEF Wordy
    <3> QED BY <2>1, <2>4, <2>6, <3>1, <3>4, <3>5, <3>6
  <2> QED BY <2>5, <2>6
<1>3. P \in SUBSET Seq(Symbols)
  OBVIOUS
<1> HIDE DEF P
<1>4. P = Seq(Symbols)
  BY <1>1, <1>2, <1>3, Appending
<1> QED BY <1>4 DEF P

\* Nothing but blanks up to an ideograph.
Trails(s, n) == \E j \in 1..n : s[j] \in Cjk /\ \A k \in (j + 1)..n : s[k] = Blank

\* Every position of D has a blank behind an ideograph.
Trailing(s, D) == \A i \in D : i \in 1..Len(s) => s[i] = Blank /\ Trails(s, i - 1)

\* Dropping them keeps the words, and what would go on with the last one.
DropsWell(S, s, D) ==
    LET v == Drop(s, D)
    IN  /\ Parts(S, v) = Parts(S, s)
        /\ Joins(S, v) <=> Joins(S, s)
        /\ Trails(s, Len(s)) => v # <<>> /\ v[Len(v)] \in Cjk \cup {Blank}

\* Blanks behind an ideograph separate nothing that is not separate.
LEMMA PartsDrop ==
    ASSUME NEW S, Wordy(S), NEW D
    PROVE  \A s \in Seq(Symbols) : Trailing(s, D) => DropsWell(S, s, D)
<1> DEFINE P == {s \in Seq(Symbols) : Trailing(s, D) => DropsWell(S, s, D)}
<1>1. <<>> \in P
  <2>1. <<>> \in Seq(Symbols) /\ Len(<<>>) = 0 /\ 1..0 = {}
    OBVIOUS
  <2> QED BY <2>1, DropNothing DEF DropsWell, Trails
<1>2. ASSUME NEW s \in P, NEW c \in Symbols, Trailing(Append(s, c), D)
      PROVE  DropsWell(S, Append(s, c), D)
  <2> DEFINE n == Len(s)
             new == Append(s, c)
             v == Drop(s, D)
  <2>1. /\ s \in Seq(Symbols) /\ n \in Nat /\ Len(new) = n + 1 /\ new \in Seq(Symbols)
        /\ \A i \in 1..n : new[i] = s[i]
        /\ new[n + 1] = c
    OBVIOUS
  <2> HIDE DEF n, new
  <2>2. \A m \in 0..n : Trails(new, m) <=> Trails(s, m)
    <3> TAKE m \in 0..n
    <3>1. \A j \in 1..m : j \in 1..n /\ \A k \in (j + 1)..m : k \in 1..n
      BY <2>1
    <3> QED BY <2>1, <3>1 DEF Trails
  <2>3. Trailing(s, D)
    <3> SUFFICES ASSUME NEW i \in D, i \in 1..n PROVE s[i] = Blank /\ Trails(s, i - 1)
      BY DEF Trailing, n
    <3>1. i \in 1..(n + 1) /\ i - 1 \in 0..n /\ new[i] = s[i]
      BY <2>1
    <3> QED BY <3>1, <2>1, <2>2, <1>2 DEF Trailing, new
  <2>4. DropsWell(S, s, D)
    BY <2>3
  <2>5. v \in Seq(Symbols) /\ Drop(new, D) = IF n + 1 \in D THEN v ELSE Append(v, c)
    <3>1. Dropped(Symbols, s, c, D)
      BY <2>1, DropAppend
    <3> QED BY <3>1 DEF Dropped, n, new
  <2>6. /\ Parts(S, v) = Parts(S, s) /\ (Joins(S, v) <=> Joins(S, s))
        /\ Trails(s, n) => v # <<>> /\ v[Len(v)] \in Cjk \cup {Blank}
    BY <2>4 DEF DropsWell, n
  <2>7. PartsMore(S, v, c) /\ PartsMore(S, s, c)
    BY <2>1, <2>5, PartsAppend
  <2> HIDE DEF v
  <2>8. Joins(S, new) <=> c \in S \ Cjk
    BY <2>1 DEF Joins
  <2>9. Trails(new, n + 1) => c \in Cjk \/ (c = Blank /\ Trails(s, n))
    <3> SUFFICES ASSUME NEW j \in 1..(n + 1), new[j] \in Cjk, \A k \in (j + 1)..(n + 1) : new[k] = Blank
                 PROVE  c \in Cjk \/ (c = Blank /\ Trails(s, n))
      BY DEF Trails
    <3>1. CASE j = n + 1
      BY <3>1, <2>1
    <3>2. CASE j # n + 1
      <4>1. j \in 1..n /\ n + 1 \in (j + 1)..(n + 1) /\ \A k \in (j + 1)..n : k \in (j + 1)..(n + 1)
        BY <3>2, <2>1
      <4>2. Trails(new, n)
        BY <4>1 DEF Trails
      <4>3. n \in 0..n
        BY <2>1
      <4> QED BY <4>1, <4>2, <4>3, <2>1, <2>2
    <3> QED BY <3>1, <3>2
  <2>10. CASE n + 1 \in D
    <3>1. c = Blank /\ Trails(s, n)
      <4>1. n + 1 \in 1..(n + 1) /\ (n + 1) - 1 = n /\ n \in 0..n
        BY <2>1
      <4>2. new[n + 1] = Blank /\ Trails(new, n)
        <5>1. new[n + 1] = Blank /\ Trails(new, (n + 1) - 1)
          BY <2>1, <2>10, <4>1, <1>2 DEF Trailing, new
        <5> QED BY <4>1, <5>1
      <4> QED BY <4>1, <4>2, <2>1, <2>2
    <3>2. Blank \notin S /\ Blank \notin Cjk
      BY SlackTextAssumption DEF Wordy
    <3>3. ~Joins(S, v) /\ ~Joins(S, new)
      BY <2>6, <2>8, <3>1, <3>2 DEF Joins
    <3>4. Parts(S, new) = Parts(S, s)
      BY <2>7, <3>1, <3>2 DEF PartsMore, new
    <3> QED BY <2>1, <2>5, <2>6, <2>10, <3>1, <3>3, <3>4 DEF DropsWell, new
  <2>11. CASE n + 1 \notin D
    <3> DEFINE u == Append(v, c)
    <3>1. Drop(new, D) = u
      BY <2>5, <2>11
    <3>2. u # <<>> /\ u[Len(u)] = c
      BY <2>5, AppendSome
    <3>3. Joins(S, u) <=> c \in S \ Cjk
      BY <3>2 DEF Joins
    <3>4. Parts(S, u) = Parts(S, new)
      BY <2>6, <2>7 DEF PartsMore, new
    <3> HIDE DEF u
    <3> QED BY <2>1, <2>8, <2>9, <3>1, <3>2, <3>3, <3>4 DEF DropsWell, new
  <2> QED BY <2>10, <2>11
<1>3. P \in SUBSET Seq(Symbols) /\ \A s \in P, c \in Symbols : Append(s, c) \in P
  <2>1. \A s \in P, c \in Symbols : Append(s, c) \in Seq(Symbols)
    OBVIOUS
  <2> QED BY <2>1, <1>2
<1> HIDE DEF P
<1>4. P = Seq(Symbols)
  BY <1>1, <1>3, Appending
<1> QED BY <1>4 DEF P

\* Characters are left.
LEMMA DropType == ASSUME NEW D PROVE \A s \in Seq(Symbols) : Drop(s, D) \in Seq(Symbols)
<1> SUFFICES ASSUME NEW s \in Seq(Symbols) PROVE Drop(s, D) \in Seq(Symbols)
  OBVIOUS
<1>1. Dropped(Symbols, s, Blank, D)
  BY DropAppend, Types
<1> QED BY <1>1 DEF Dropped

\* join_cjk keeps the words.
LEMMA PartsJoin ==
    ASSUME NEW S, Wordy(S), NEW s \in Seq(Symbols)
    PROVE  Parts(S, JoinCjk(s)) = Parts(S, s) /\ JoinCjk(s) \in Seq(Symbols)
<1> DEFINE D == {i \in DOMAIN s : BetweenCjk(s, i)}
<1>1. Trailing(s, D)
  BY DEF Trailing, Trails, BetweenCjk
<1>2. JoinCjk(s) = Drop(s, D)
  BY DEF JoinCjk
<1> HIDE DEF D
<1> QED BY <1>1, <1>2, PartsDrop, DropType DEF DropsWell

-----------------------------------------------------------------------------
(* Where the elements of Drop(s, D) come from: an increasing map of their    *)
(* positions onto the positions outside of D.                                *)

Sub(p, v, s, D) ==
    /\ p \in [1..Len(v) -> 1..Len(s)]
    /\ \A k \in 1..Len(v) : v[k] = s[p[k]] /\ p[k] \notin D
    /\ \A j, k \in 1..Len(v) : j < k => p[j] < p[k]
    /\ \A i \in (1..Len(s)) \ D : \E k \in 1..Len(v) : p[k] = i

\* Drop has such a map.
LEMMA DropSub == ASSUME NEW D PROVE \A s \in Seq(Symbols) : \E p : Sub(p, Drop(s, D), s, D)
<1> DEFINE P == {s \in Seq(Symbols) : \E p : Sub(p, Drop(s, D), s, D)}
<1>1. <<>> \in P
  <2> DEFINE p == [k \in 1..0 |-> 0]
  <2>1. Len(<<>>) = 0 /\ <<>> \in Seq(Symbols)
    OBVIOUS
  <2>2. p \in [1..0 -> 1..0] /\ 1..0 = {}
    OBVIOUS
  <2>3. Sub(p, <<>>, <<>>, D)
    BY <2>1, <2>2 DEF Sub
  <2> QED BY <2>1, <2>3, DropNothing
<1>2. ASSUME NEW s \in P, NEW c \in Symbols PROVE \E p : Sub(p, Drop(Append(s, c), D), Append(s, c), D)
  <2> DEFINE n == Len(s)
             t == Append(s, c)
             v == Drop(s, D)
             u == Drop(t, D)
             l == Len(v)
  <2>1. /\ n \in Nat /\ Len(t) = n + 1 /\ \A i \in 1..n : t[i] = s[i]
        /\ t[n + 1] = c
    OBVIOUS
  <2>2. v \in Seq(Symbols) /\ u = IF n + 1 \in D THEN v ELSE Append(v, c)
    <3>1. Dropped(Symbols, s, c, D)
      BY DropAppend
    <3> QED BY <3>1 DEF Dropped
  <2>3. PICK p : Sub(p, v, s, D)
    OBVIOUS
  <2>4. l \in Nat
    BY <2>2
  <2> HIDE DEF n, t, v, u, l
  <2>5. /\ p \in [1..l -> 1..n]
        /\ \A k \in 1..l : v[k] = s[p[k]] /\ p[k] \notin D
        /\ \A j, k \in 1..l : j < k => p[j] < p[k]
        /\ \A i \in (1..n) \ D : \E k \in 1..l : p[k] = i
    BY <2>3 DEF Sub, n, l
  <2>6. \A k \in 1..l : p[k] \in 1..n /\ p[k] \in 1..(n + 1) /\ t[p[k]] = s[p[k]] /\ p[k] < n + 1
    BY <2>1, <2>5
  <2>7. CASE n + 1 \in D
    <3>1. p \in [1..l -> 1..(n + 1)]
      BY <2>5, <2>6
    <3>2. \A i \in (1..(n + 1)) \ D : i \in (1..n) \ D
      BY <2>1, <2>7
    <3>3. u = v
      BY <2>2, <2>7
    <3>4. Sub(p, u, t, D)
      BY <2>1, <2>5, <2>6, <3>1, <3>2, <3>3 DEF Sub, l
    <3> QED BY <3>4 DEF u, t
  <2>8. CASE n + 1 \notin D
    <3> DEFINE q == [k \in 1..(l + 1) |-> IF k = l + 1 THEN n + 1 ELSE p[k]]
    <3>1. Len(u) = l + 1 /\ u[l + 1] = c /\ \A k \in 1..l : u[k] = v[k]
      <4>1. u = Append(v, c)
        BY <2>2, <2>8
      <4>2. Len(Append(v, c)) = l + 1 /\ Append(v, c)[l + 1] = c /\ \A k \in 1..l : Append(v, c)[k] = v[k]
        BY <2>2 DEF l
      <4> QED BY <4>1, <4>2
    <3>2. \A k \in 1..(l + 1) : k # l + 1 => k \in 1..l
      BY <2>4
    <3>3. q \in [1..(l + 1) -> 1..(n + 1)]
      BY <2>1, <2>6, <3>2
    <3>4. q[l + 1] = n + 1 /\ \A k \in 1..l : q[k] = p[k]
      BY <2>4
    <3> HIDE DEF q
    <3>5. \A k \in 1..(l + 1) : u[k] = t[q[k]] /\ q[k] \notin D
      BY <2>1, <2>5, <2>6, <2>8, <3>1, <3>2, <3>4
    <3>6. \A j, k \in 1..(l + 1) : j < k => q[j] < q[k]
      <4> SUFFICES ASSUME NEW j \in 1..(l + 1), NEW k \in 1..(l + 1), j < k PROVE q[j] < q[k]
        OBVIOUS
      <4>1. j \in 1..l
        BY <2>4
      <4> QED BY <4>1, <2>5, <2>6, <3>2, <3>4
    <3>7. \A i \in (1..(n + 1)) \ D : \E k \in 1..(l + 1) : q[k] = i
      <4> TAKE i \in (1..(n + 1)) \ D
      <4>1. CASE i = n + 1
        <5>1. l + 1 \in 1..(l + 1)
          BY <2>4
        <5> QED BY <4>1, <5>1, <3>4
      <4>2. CASE i # n + 1
        <5>1. i \in (1..n) \ D
          BY <4>2, <2>1
        <5>2. PICK k \in 1..l : p[k] = i
          BY <5>1, <2>5
        <5>3. k \in 1..(l + 1)
          BY <2>4
        <5> QED BY <5>2, <5>3, <3>4
      <4> QED BY <4>1, <4>2
    <3>8. Sub(q, u, t, D)
      BY <2>1, <3>1, <3>3, <3>5, <3>6, <3>7 DEF Sub
    <3> QED BY <3>8 DEF u, t
  <2> QED BY <2>7, <2>8
<1>3. P \in SUBSET Seq(Symbols) /\ \A s \in P, c \in Symbols : Append(s, c) \in P
  <2>1. \A s \in P, c \in Symbols : Append(s, c) \in Seq(Symbols)
    OBVIOUS
  <2> QED BY <2>1, <1>2
<1> HIDE DEF P
<1>4. P = Seq(Symbols)
  BY <1>1, <1>3, Appending
<1> QED BY <1>4 DEF P

\* There is one such map, so what is left depends on D alone.
LEMMA SubRuns ==
    ASSUME NEW p, NEW q, NEW u \in Seq(Symbols), NEW v \in Seq(Symbols),
           NEW s \in Seq(Symbols), NEW D,
           Sub(p, u, s, D), Sub(q, v, s, D), Len(u) <= Len(v)
    PROVE  \A k \in 1..Len(u) : p[k] = q[k]
<1> DEFINE l == Len(u)
           r == Len(v)
           n == Len(s)
           R == {m \in 0..l : \A k \in 1..m : p[k] = q[k]}
<1>1. l \in Nat /\ r \in Nat /\ n \in Nat /\ l <= r
  OBVIOUS
<1>2. /\ p \in [1..l -> 1..n]
      /\ \A k \in 1..l : p[k] \notin D
      /\ \A j, k \in 1..l : j < k => p[j] < p[k]
      /\ \A i \in (1..n) \ D : \E k \in 1..l : p[k] = i
  BY DEF Sub
<1>3. /\ q \in [1..r -> 1..n]
      /\ \A k \in 1..r : q[k] \notin D
      /\ \A j, k \in 1..r : j < k => q[j] < q[k]
      /\ \A i \in (1..n) \ D : \E k \in 1..r : q[k] = i
  BY DEF Sub
<1> HIDE DEF l, r, n
<1>4. 0 \in R /\ R \in SUBSET (0..l)
  BY <1>1
<1>5. ASSUME NEW m \in R, m < l PROVE m + 1 \in R
  <2>1. \A k \in 1..m : p[k] = q[k]
    OBVIOUS
  <2>2. m \in Nat /\ m + 1 \in 1..l /\ m + 1 \in 1..r /\ m + 1 \in 0..l
    BY <1>1, <1>5
  <2>3. p[m + 1] \in (1..n) \ D /\ q[m + 1] \in (1..n) \ D
    BY <2>2, <1>2, <1>3
  <2>4. PICK j \in 1..l : p[j] = q[m + 1]
    BY <2>3, <1>2
  <2>5. PICK k \in 1..r : q[k] = p[m + 1]
    BY <2>3, <1>3
  <2>6. ~(j < m + 1)
    <3> SUFFICES ASSUME j < m + 1 PROVE FALSE
      OBVIOUS
    <3>1. j \in 1..m /\ j \in 1..r
      BY <2>2, <1>1
    <3>2. q[j] = q[m + 1] /\ q[j] < q[m + 1]
      BY <3>1, <2>1, <2>2, <2>4, <1>3
    <3> QED BY <3>2, <2>3
  <2>7. ~(k < m + 1)
    <3> SUFFICES ASSUME k < m + 1 PROVE FALSE
      OBVIOUS
    <3>1. k \in 1..m /\ k \in 1..l
      BY <2>2, <1>1
    <3>2. p[k] = p[m + 1] /\ p[k] < p[m + 1]
      BY <3>1, <2>1, <2>2, <2>5, <1>2
    <3> QED BY <3>2, <2>3
  <2>8. p[m + 1] <= q[m + 1]
    <3>1. j = m + 1 \/ m + 1 < j
      BY <2>6, <2>2, <1>1
    <3> QED BY <3>1, <2>2, <2>3, <2>4, <1>2
  <2>9. q[m + 1] <= p[m + 1]
    <3>1. k = m + 1 \/ m + 1 < k
      BY <2>7, <2>2, <1>1
    <3> QED BY <3>1, <2>2, <2>3, <2>5, <1>3
  <2>10. p[m + 1] = q[m + 1]
    BY <2>3, <2>8, <2>9
  <2>11. \A i \in 1..(m + 1) : i \in 1..m \/ i = m + 1
    BY <2>2
  <2> QED BY <2>1, <2>2, <2>10, <2>11
<1> HIDE DEF R
<1>6. R = 0..l
  BY <1>1, <1>4, <1>5, UpFrom0
<1>7. l \in R
  BY <1>1, <1>6
<1> QED BY <1>7 DEF R, l

\* A map onto all positions outside D leaves none to a longer one.
LEMMA SubShorter ==
    ASSUME NEW p, NEW q, NEW u \in Seq(Symbols), NEW v \in Seq(Symbols),
           NEW s \in Seq(Symbols), NEW D,
           Sub(p, u, s, D), Sub(q, v, s, D), Len(u) <= Len(v)
    PROVE  u = v
<1> DEFINE l == Len(u)
           r == Len(v)
<1>1. l \in Nat /\ r \in Nat /\ l <= r /\ Len(s) \in Nat
  OBVIOUS
<1>2. \A k \in 1..l : p[k] = q[k]
  BY SubRuns
<1>3. /\ \A k \in 1..l : p[k] \in 1..Len(s) /\ u[k] = s[p[k]]
      /\ \A i \in (1..Len(s)) \ D : \E k \in 1..l : p[k] = i
      /\ \A k \in 1..r : q[k] \in (1..Len(s)) \ D /\ v[k] = s[q[k]]
      /\ \A j, k \in 1..r : j < k => q[j] < q[k]
  BY DEF Sub
<1> HIDE DEF l, r
<1>4. ~(l < r)
  <2> SUFFICES ASSUME l < r PROVE FALSE
    OBVIOUS
  <2>1. l + 1 \in 1..r
    BY <1>1
  <2>2. PICK k \in 1..l : p[k] = q[l + 1]
    BY <2>1, <1>3
  <2>3. k \in 1..r /\ k < l + 1
    BY <1>1
  <2>4. q[k] < q[l + 1] /\ q[k] = q[l + 1]
    BY <2>1, <2>2, <2>3, <1>2, <1>3
  <2>5. q[l + 1] \in Nat
    BY <2>1, <1>1, <1>3
  <2> QED BY <2>4, <2>5
<1>5. l = r
  BY <1>1, <1>4
<1>6. \A k \in 1..l : u[k] = v[k]
  BY <1>2, <1>3, <1>5
<1> QED BY <1>5, <1>6, SeqEqual DEF l, r

\* Two sequences that leave out the same positions are the same.
LEMMA SubUnique ==
    ASSUME NEW p, NEW q, NEW u \in Seq(Symbols), NEW v \in Seq(Symbols),
           NEW s \in Seq(Symbols), NEW D,
           Sub(p, u, s, D), Sub(q, v, s, D)
    PROVE  u = v
<1>1. Len(u) <= Len(v) \/ Len(v) <= Len(u)
  OBVIOUS
<1> QED BY <1>1, SubShorter

\* Drop of a Drop.
LEMMA SubSub ==
    ASSUME NEW u \in Seq(Symbols), NEW v \in Seq(Symbols), NEW s \in Seq(Symbols),
           NEW p, NEW q, NEW D, NEW E, NEW G,
           Sub(p, v, s, D), Sub(q, u, v, E),
           D \cap (1..Len(s)) \subseteq G,
           \A k \in 1..Len(v) : p[k] \in G <=> k \in E
    PROVE  \E h : Sub(h, u, s, G)
<1> DEFINE l == Len(u)
           r == Len(v)
           n == Len(s)
           h == [k \in 1..l |-> p[q[k]]]
<1>1. /\ p \in [1..r -> 1..n]
      /\ \A k \in 1..r : v[k] = s[p[k]] /\ p[k] \notin D
      /\ \A j, k \in 1..r : j < k => p[j] < p[k]
      /\ \A i \in (1..n) \ D : \E k \in 1..r : p[k] = i
  BY DEF Sub
<1>2. /\ q \in [1..l -> 1..r]
      /\ \A k \in 1..l : u[k] = v[q[k]] /\ q[k] \notin E
      /\ \A j, k \in 1..l : j < k => q[j] < q[k]
      /\ \A i \in (1..r) \ E : \E k \in 1..l : q[k] = i
  BY DEF Sub
<1> HIDE DEF l, r, n
<1>3. \A k \in 1..l : q[k] \in 1..r /\ p[q[k]] \in 1..n
  BY <1>1, <1>2
<1>4. h \in [1..l -> 1..n]
  BY <1>3
<1>5. \A k \in 1..l : h[k] = p[q[k]]
  OBVIOUS
<1> HIDE DEF h
<1>6. \A k \in 1..l : u[k] = s[h[k]] /\ h[k] \notin G
  <2>1. \A k \in 1..r : p[k] \in G <=> k \in E
    BY DEF r
  <2> QED BY <2>1, <1>1, <1>2, <1>3, <1>5
<1>7. \A j, k \in 1..l : j < k => h[j] < h[k]
  BY <1>1, <1>2, <1>3, <1>5
<1>8. \A i \in (1..n) \ G : \E k \in 1..l : h[k] = i
  <2> TAKE i \in (1..n) \ G
  <2>1. i \notin D
    BY DEF n
  <2>2. PICK k \in 1..r : p[k] = i
    BY <2>1, <1>1
  <2>3. k \notin E
    BY <2>2 DEF r
  <2>4. PICK m \in 1..l : q[m] = k
    BY <2>3, <1>2
  <2> QED BY <2>2, <2>4, <1>5
<1>9. Sub(h, u, s, G)
  BY <1>4, <1>6, <1>7, <1>8 DEF Sub, l, n
<1> QED BY <1>9

\* BetweenCjk, for a text with marks in it.
Soft == {Blank, Mark}

Loose(s, i) ==
    /\ s[i] = Blank
    /\ \E j \in 1..(i - 1) : s[j] \in Cjk /\ \A n \in (j + 1)..(i - 1) : s[n] \in Soft
    /\ \E k \in (i + 1)..Len(s) : s[k] \in Cjk /\ \A n \in (i + 1)..(k - 1) : s[n] \in Soft

\* Marks dropped, and blanks with them: what is between ideographs remains so.
LEMMA BetweenKept ==
    ASSUME NEW s \in Seq(Symbols), NEW v \in Seq(Symbols), NEW p, NEW D, Sub(p, v, s, D),
           \A i \in 1..Len(s) : (i \in D => s[i] \in Soft) /\ (s[i] = Mark => i \in D),
           NEW t \in 1..Len(v)
    PROVE  BetweenCjk(v, t) <=> Loose(s, p[t])
<1> DEFINE l == Len(v)
           n == Len(s)
           o == p[t]
<1>1. /\ p \in [1..l -> 1..n]
      /\ \A k \in 1..l : v[k] = s[p[k]] /\ p[k] \notin D /\ p[k] \in 1..n
      /\ \A j, k \in 1..l : j < k => p[j] < p[k]
      /\ \A i \in (1..n) \ D : \E k \in 1..l : p[k] = i
  BY DEF Sub
<1>2. \A i \in 1..n : (i \in D => s[i] \in Soft) /\ (s[i] = Mark => i \in D)
  OBVIOUS
<1>3. l \in Nat /\ n \in Nat /\ t \in 1..l /\ o \in 1..n /\ v[t] = s[o]
  BY <1>1
<1>4. Soft \cap Cjk = {} /\ Blank \in Soft
  BY SlackTextAssumption DEF Soft
<1> HIDE DEF l, n, o
<1>5. \A j, k \in 1..l : p[j] < p[k] => j < k
  <2> SUFFICES ASSUME NEW j \in 1..l, NEW k \in 1..l, p[j] < p[k], ~(j < k) PROVE FALSE
    OBVIOUS
  <2>1. j = k \/ k < j
    BY <1>3
  <2> QED BY <2>1, <1>1, <1>3
<1>6. \A i \in 1..n : s[i] \in Cjk => \E k \in 1..l : p[k] = i
  BY <1>1, <1>2, <1>4
<1>7. \A i \in 1..n : i \notin D /\ s[i] \in Soft => s[i] = Blank
  BY <1>2 DEF Soft
<1>8. ASSUME NEW j \in 1..l, NEW k \in 1..l, j <= k
      PROVE  (\A m \in (j + 1)..(k - 1) : v[m] = Blank)
               <=> (\A i \in (p[j] + 1)..(p[k] - 1) : s[i] \in Soft)
  <2>1. p[j] \in 1..n /\ p[k] \in 1..n
    BY <1>1
  <2>2. ASSUME \A m \in (j + 1)..(k - 1) : v[m] = Blank, NEW i \in (p[j] + 1)..(p[k] - 1)
        PROVE  s[i] \in Soft
    <3>1. i \in 1..n /\ p[j] < i /\ i < p[k]
      BY <2>1, <1>3, SMTT(30)
    <3>2. CASE i \in D
      BY <3>1, <3>2, <1>2
    <3>3. CASE i \notin D
      <4>1. PICK m \in 1..l : p[m] = i
        BY <3>1, <3>3, <1>1
      <4>2. j < m /\ m < k
        BY <3>1, <4>1, <1>5
      <4>3. m \in (j + 1)..(k - 1)
        BY <4>2, <1>3
      <4> QED BY <4>1, <4>3, <2>2, <1>1, <1>4
    <3> QED BY <3>2, <3>3
  <2>3. ASSUME \A i \in (p[j] + 1)..(p[k] - 1) : s[i] \in Soft, NEW m \in (j + 1)..(k - 1)
        PROVE  v[m] = Blank
    <3>1. m \in 1..l /\ j < m /\ m < k
      BY <1>3
    <3>2. p[j] < p[m] /\ p[m] < p[k] /\ p[m] \in 1..n /\ p[m] \notin D /\ v[m] = s[p[m]]
      BY <3>1, <1>1
    <3>3. p[m] \in (p[j] + 1)..(p[k] - 1)
      BY <3>2, <2>1
    <3> QED BY <3>2, <3>3, <2>3, <1>7
  <2> QED BY <2>2, <2>3
<1>9. (\E j \in 1..(t - 1) : v[j] \in Cjk /\ \A m \in (j + 1)..(t - 1) : v[m] = Blank)
        <=> (\E i \in 1..(o - 1) : s[i] \in Cjk /\ \A m \in (i + 1)..(o - 1) : s[m] \in Soft)
  <2>1. ASSUME NEW j \in 1..(t - 1), v[j] \in Cjk, \A m \in (j + 1)..(t - 1) : v[m] = Blank
        PROVE  \E i \in 1..(o - 1) : s[i] \in Cjk /\ \A m \in (i + 1)..(o - 1) : s[m] \in Soft
    <3>1. j \in 1..l /\ j < t /\ j <= t
      BY <1>3
    <3>2. p[j] \in 1..n /\ p[j] < o /\ s[p[j]] \in Cjk
      BY <3>1, <2>1, <1>1, <1>3 DEF o
    <3>3. \A m \in (p[j] + 1)..(o - 1) : s[m] \in Soft
      BY <3>1, <2>1, <1>3, <1>8 DEF o
    <3>4. p[j] \in 1..(o - 1)
      BY <3>2, <1>3
    <3> QED BY <3>2, <3>3, <3>4
  <2>2. ASSUME NEW i \in 1..(o - 1), s[i] \in Cjk, \A m \in (i + 1)..(o - 1) : s[m] \in Soft
        PROVE  \E j \in 1..(t - 1) : v[j] \in Cjk /\ \A m \in (j + 1)..(t - 1) : v[m] = Blank
    <3>1. i \in 1..n /\ i < o
      BY <1>3
    <3>2. PICK j \in 1..l : p[j] = i
      BY <3>1, <2>2, <1>6
    <3>3. j < t
      BY <3>1, <3>2, <1>3, <1>5 DEF o
    <3>4. j \in 1..(t - 1) /\ j <= t
      BY <3>3, <1>3
    <3>5. \A m \in (j + 1)..(t - 1) : v[m] = Blank
      BY <3>2, <3>4, <2>2, <1>3, <1>8 DEF o
    <3> QED BY <3>2, <3>4, <3>5, <2>2, <1>1
  <2> QED BY <2>1, <2>2
<1>10. (\E k \in (t + 1)..l : v[k] \in Cjk /\ \A m \in (t + 1)..(k - 1) : v[m] = Blank)
        <=> (\E i \in (o + 1)..n : s[i] \in Cjk /\ \A m \in (o + 1)..(i - 1) : s[m] \in Soft)
  <2>1. ASSUME NEW k \in (t + 1)..l, v[k] \in Cjk, \A m \in (t + 1)..(k - 1) : v[m] = Blank
        PROVE  \E i \in (o + 1)..n : s[i] \in Cjk /\ \A m \in (o + 1)..(i - 1) : s[m] \in Soft
    <3>1. k \in 1..l /\ t < k /\ t <= k
      BY <1>3
    <3>2. p[k] \in 1..n /\ o < p[k] /\ s[p[k]] \in Cjk
      BY <3>1, <2>1, <1>1, <1>3 DEF o
    <3>3. \A m \in (o + 1)..(p[k] - 1) : s[m] \in Soft
      BY <3>1, <2>1, <1>3, <1>8 DEF o
    <3>4. p[k] \in (o + 1)..n
      BY <3>2, <1>3
    <3> QED BY <3>2, <3>3, <3>4
  <2>2. ASSUME NEW i \in (o + 1)..n, s[i] \in Cjk, \A m \in (o + 1)..(i - 1) : s[m] \in Soft
        PROVE  \E k \in (t + 1)..l : v[k] \in Cjk /\ \A m \in (t + 1)..(k - 1) : v[m] = Blank
    <3>1. i \in 1..n /\ o < i
      BY <1>3
    <3>2. PICK k \in 1..l : p[k] = i
      BY <3>1, <2>2, <1>6
    <3>3. t < k
      BY <3>1, <3>2, <1>3, <1>5 DEF o
    <3>4. k \in (t + 1)..l /\ t <= k
      BY <3>3, <1>3
    <3>5. \A m \in (t + 1)..(k - 1) : v[m] = Blank
      BY <3>2, <3>4, <2>2, <1>3, <1>8 DEF o
    <3> QED BY <3>2, <3>4, <3>5, <2>2, <1>1
  <2> QED BY <2>1, <2>2
<1> QED BY <1>3, <1>9, <1>10 DEF BetweenCjk, Loose, l, n, o

\* Positions that are gone once the marks are dropped and the rest is joined.
Gone(s) == {i \in 1..Len(s) : s[i] = Mark \/ Loose(s, i)}

\* Marks dropped first or last, the same positions are gone.
LEMMA JoinedSub ==
    ASSUME NEW s \in Seq(Symbols), NEW v \in Seq(Symbols), NEW p, NEW D, Sub(p, v, s, D),
           \A i \in 1..Len(s) : (i \in D => i \in Gone(s)) /\ (s[i] = Mark => i \in D)
    PROVE  \E h : Sub(h, JoinCjk(v), s, Gone(s))
<1> DEFINE E == {k \in DOMAIN v : BetweenCjk(v, k)}
<1>1. JoinCjk(v) = Drop(v, E)
  BY DEF JoinCjk
<1>2. PICK q : Sub(q, Drop(v, E), v, E)
  BY DropSub
<1>3. DOMAIN v = 1..Len(v) /\ \A k \in 1..Len(v) : k \in E <=> BetweenCjk(v, k)
  OBVIOUS
<1> HIDE DEF E
<1>4. Drop(v, E) \in Seq(Symbols)
  BY DropType
<1>5. \A i \in 1..Len(s) : (i \in D => s[i] \in Soft) /\ (s[i] = Mark => i \in D)
  BY DEF Gone, Loose, Soft
<1>6. ASSUME NEW k \in 1..Len(v) PROVE p[k] \in Gone(s) <=> k \in E
  <2>1. BetweenCjk(v, k) <=> Loose(s, p[k])
    BY <1>5, BetweenKept
  <2>2. p[k] \in 1..Len(s) /\ p[k] \notin D
    BY DEF Sub
  <2>3. s[p[k]] # Mark
    BY <2>2
  <2> QED BY <2>1, <2>2, <2>3, <1>3 DEF Gone
<1>7. D \cap (1..Len(s)) \subseteq Gone(s)
  OBVIOUS
<1> DEFINE u == Drop(v, E)
           G == Gone(s)
<1>8. u \in Seq(Symbols) /\ Sub(q, u, v, E) /\ D \cap (1..Len(s)) \subseteq G
      /\ \A k \in 1..Len(v) : p[k] \in G <=> k \in E
  BY <1>2, <1>4, <1>6, <1>7
<1> HIDE DEF u, G
<1>9. \E h : Sub(h, u, s, G)
  BY <1>8, SubSub
<1> QED BY <1>1, <1>9 DEF u, G

\* The marks of a hit.
Marked(s, i, j) ==
    SubSeq(s, 1, i - 1) \o <<Mark>> \o SubSeq(s, i, j) \o <<Mark>> \o SubSeq(s, j + 1, Len(s))

\* x is a followed by b.
Concats(x, a, b) ==
    /\ x \in Seq(Symbols) /\ Len(x) = Len(a) + Len(b)
    /\ \A k \in 1..(Len(a) + Len(b)) : x[k] = IF k <= Len(a) THEN a[k] ELSE b[k - Len(a)]

\* Concatenation, position by position.
LEMMA ConcatIs == ASSUME NEW a \in Seq(Symbols), NEW b \in Seq(Symbols) PROVE Concats(a \o b, a, b)
  BY DEF Concats

\* A marked hit, position by position.
LEMMA MarkedIs ==
    ASSUME NEW s \in Seq(Symbols), NEW i \in 1..Len(s), NEW j \in 1..Len(s), i <= j
    PROVE  /\ Marked(s, i, j) \in Seq(Symbols) /\ Len(Marked(s, i, j)) = Len(s) + 2
           /\ \A k \in 1..(Len(s) + 2) :
                 Marked(s, i, j)[k] = IF k < i THEN s[k] ELSE IF k = i THEN Mark
                                      ELSE IF k < j + 2 THEN s[k - 1] ELSE IF k = j + 2 THEN Mark
                                      ELSE s[k - 2]
<1> DEFINE n == Len(s)
           a == SubSeq(s, 1, i - 1)
           b == SubSeq(s, i, j)
           c == SubSeq(s, j + 1, n)
           m == <<Mark>>
           x1 == a \o m
           x2 == x1 \o b
           x3 == x2 \o m
           x4 == x3 \o c
<1>1. n \in Nat /\ i \in 1..n /\ j \in 1..n /\ i <= j
  OBVIOUS
<1>2. a \in Seq(Symbols) /\ Len(a) = i - 1 /\ \A k \in 1..(i - 1) : a[k] = s[k]
  OBVIOUS
<1>3. b \in Seq(Symbols) /\ Len(b) = j - i + 1 /\ \A k \in 1..(j - i + 1) : b[k] = s[i + k - 1]
  OBVIOUS
<1>4. c \in Seq(Symbols) /\ Len(c) = n - j /\ \A k \in 1..(n - j) : c[k] = s[j + k]
  <2>1. \A k \in (j + 1)..n : s[k] \in Symbols
    OBVIOUS
  <2>2. j + 1 \in Int /\ n \in Int
    OBVIOUS
  <2>3. /\ c \in Seq(Symbols) /\ Len(c) = IF j + 1 <= n THEN n - (j + 1) + 1 ELSE 0
        /\ \A k \in 1..(n - (j + 1) + 1) : c[k] = s[j + 1 + k - 1]
    <3> HIDE DEF n
    <3> QED BY <2>1, <2>2, SubSeqProperties
  <2>4. n - (j + 1) + 1 = n - j /\ (~(j + 1 <= n) => n - j = 0) /\ \A k \in 1..(n - j) : j + 1 + k - 1 = j + k
    BY <1>1
  <2> HIDE DEF n, c
  <2> QED BY <2>3, <2>4
<1>5. m \in Seq(Symbols) /\ Len(m) = 1 /\ m[1] = Mark
  BY Types
<1> HIDE DEF a, b, c, m, n
<1>6. /\ x1 \in Seq(Symbols) /\ Len(x1) = i
      /\ \A k \in 1..i : x1[k] = IF k < i THEN s[k] ELSE Mark
  <2>1. /\ x1 \in Seq(Symbols) /\ Len(x1) = (i - 1) + 1
        /\ \A k \in 1..((i - 1) + 1) : x1[k] = IF k <= i - 1 THEN a[k] ELSE m[k - (i - 1)]
    <3>1. Concats(x1, a, m)
      BY <1>2, <1>5, ConcatIs
    <3> HIDE DEF x1
    <3> QED BY <3>1, <1>2, <1>5 DEF Concats
  <2> HIDE DEF x1
  <2> QED BY <2>1, <1>1, <1>2, <1>5
<1> HIDE DEF x1
<1>7. /\ x2 \in Seq(Symbols) /\ Len(x2) = j + 1
      /\ \A k \in 1..(j + 1) : x2[k] = IF k < i THEN s[k] ELSE IF k = i THEN Mark ELSE s[k - 1]
  <2>1. /\ x2 \in Seq(Symbols) /\ Len(x2) = i + (j - i + 1)
        /\ \A k \in 1..(i + (j - i + 1)) : x2[k] = IF k <= i THEN x1[k] ELSE b[k - i]
    <3>1. Concats(x2, x1, b)
      BY <1>3, <1>6, ConcatIs
    <3> HIDE DEF x2
    <3> QED BY <3>1, <1>3, <1>6 DEF Concats
  <2> HIDE DEF x2
  <2>2. i + (j - i + 1) = j + 1
    BY <1>1
  <2>3. ASSUME NEW k \in 1..(j + 1), k > i PROVE b[k - i] = s[k - 1]
    <3>1. k - i \in 1..(j - i + 1) /\ i + (k - i) - 1 = k - 1
      BY <1>1, <2>3
    <3> QED BY <3>1, <1>3
  <2>4. ASSUME NEW k \in 1..(j + 1)
        PROVE  x2[k] = IF k < i THEN s[k] ELSE IF k = i THEN Mark ELSE s[k - 1]
    <3>1. x2[k] = IF k <= i THEN x1[k] ELSE b[k - i]
      BY <2>1, <2>2
    <3>2. CASE k <= i
      <4>1. k \in 1..i
        BY <3>2, <1>1
      <4> QED BY <4>1, <3>1, <3>2, <1>1, <1>6
    <3>3. CASE k > i
      BY <3>1, <3>3, <2>3, <1>1
    <3> QED BY <3>2, <3>3, <1>1
  <2> QED BY <2>1, <2>2, <2>4
<1> HIDE DEF x2
<1>8. /\ x3 \in Seq(Symbols) /\ Len(x3) = j + 2
      /\ \A k \in 1..(j + 2) : x3[k] = IF k <= j + 1 THEN x2[k] ELSE Mark
  <2>1. /\ x3 \in Seq(Symbols) /\ Len(x3) = (j + 1) + 1
        /\ \A k \in 1..((j + 1) + 1) : x3[k] = IF k <= j + 1 THEN x2[k] ELSE m[k - (j + 1)]
    <3>1. Concats(x3, x2, m)
      BY <1>5, <1>7, ConcatIs
    <3> HIDE DEF x3
    <3> QED BY <3>1, <1>5, <1>7 DEF Concats
  <2> HIDE DEF x3
  <2> QED BY <2>1, <1>1, <1>5
<1> HIDE DEF x3
<1>9. /\ x4 \in Seq(Symbols) /\ Len(x4) = n + 2
      /\ \A k \in 1..(n + 2) : x4[k] = IF k <= j + 2 THEN x3[k] ELSE s[k - 2]
  <2>1. /\ x4 \in Seq(Symbols) /\ Len(x4) = (j + 2) + (n - j)
        /\ \A k \in 1..((j + 2) + (n - j)) : x4[k] = IF k <= j + 2 THEN x3[k] ELSE c[k - (j + 2)]
    <3>1. Concats(x4, x3, c)
      BY <1>4, <1>8, ConcatIs
    <3> HIDE DEF x4
    <3> QED BY <3>1, <1>4, <1>8 DEF Concats
  <2> HIDE DEF x4
  <2>2. (j + 2) + (n - j) = n + 2
    BY <1>1
  <2>3. ASSUME NEW k \in 1..(n + 2), k > j + 2 PROVE c[k - (j + 2)] = s[k - 2]
    <3>1. k - (j + 2) \in 1..(n - j) /\ j + (k - (j + 2)) = k - 2
      BY <1>1, <2>3
    <3> QED BY <3>1, <1>4
  <2>4. ASSUME NEW k \in 1..(n + 2) PROVE x4[k] = IF k <= j + 2 THEN x3[k] ELSE s[k - 2]
    <3>1. x4[k] = IF k <= j + 2 THEN x3[k] ELSE c[k - (j + 2)]
      BY <2>1, <2>2
    <3>2. k <= j + 2 \/ k > j + 2
      BY <1>1
    <3> QED BY <3>1, <3>2, <2>3, <1>1
  <2> QED BY <2>1, <2>2, <2>4
<1>10. Marked(s, i, j) = x4
  BY DEF Marked, a, b, c, m, n, x1, x2, x3
<1> HIDE DEF x4
<1>11. ASSUME NEW k \in 1..(n + 2)
       PROVE  x4[k] = IF k < i THEN s[k] ELSE IF k = i THEN Mark
                      ELSE IF k < j + 2 THEN s[k - 1] ELSE IF k = j + 2 THEN Mark ELSE s[k - 2]
  <2>1. CASE k <= j + 1
    <3>1. k \in 1..(j + 1) /\ k \in 1..(j + 2) /\ k <= j + 2 /\ k < j + 2
      BY <2>1, <1>1
    <3>2. x4[k] = x2[k]
      BY <3>1, <2>1, <1>8, <1>9
    <3> QED BY <3>1, <3>2, <1>1, <1>7
  <2>2. CASE k = j + 2
    <3>1. k \in 1..(j + 2) /\ ~(k <= j + 1) /\ ~(k < i) /\ k # i
      BY <2>2, <1>1
    <3> QED BY <3>1, <2>2, <1>1, <1>8, <1>9
  <2>3. CASE k > j + 2
    <3>1. ~(k <= j + 2) /\ ~(k < i) /\ k # i /\ ~(k < j + 2) /\ k # j + 2
      BY <2>3, <1>1
    <3> QED BY <3>1, <1>9
  <2> QED BY <2>1, <2>2, <2>3, <1>1
<1> QED BY <1>9, <1>10, <1>11 DEF n

\* The hit is what is left when its marks are dropped.
LEMMA MarkedSub ==
    ASSUME NEW s \in Seq(Unmarked), NEW i \in 1..Len(s), NEW j \in 1..Len(s), i <= j
    PROVE  /\ Marked(s, i, j) \in Seq(Symbols)
           /\ \E p : Sub(p, s, Marked(s, i, j),
                         {k \in 1..Len(Marked(s, i, j)) : Marked(s, i, j)[k] = Mark})
<1> DEFINE n == Len(s)
           m == Marked(s, i, j)
           p == [k \in 1..n |-> IF k < i THEN k ELSE IF k <= j THEN k + 1 ELSE k + 2]
           D == {k \in 1..Len(m) : m[k] = Mark}
<1>1. s \in Seq(Symbols) /\ n \in Nat /\ i \in 1..n /\ j \in 1..n /\ i <= j
  BY UnmarkedTypes
<1>2. \A k \in 1..n : s[k] # Mark
  BY UnmarkedTypes
<1>3. /\ m \in Seq(Symbols) /\ Len(m) = n + 2
      /\ \A k \in 1..(n + 2) :
            m[k] = IF k < i THEN s[k] ELSE IF k = i THEN Mark
                   ELSE IF k < j + 2 THEN s[k - 1] ELSE IF k = j + 2 THEN Mark ELSE s[k - 2]
  BY <1>1, MarkedIs
<1> HIDE DEF m, n
<1>4. \A k \in 1..n : /\ p[k] \in 1..(n + 2) /\ p[k] # i /\ p[k] # j + 2
                      /\ p[k] < i => k = p[k]
                      /\ i < p[k] /\ p[k] < j + 2 => k = p[k] - 1
                      /\ p[k] > j + 2 => k = p[k] - 2
  BY <1>1
<1>5. p \in [1..n -> 1..(n + 2)]
  BY <1>4
<1>6. \A k, l \in 1..n : k < l => p[k] < p[l]
  BY <1>1
<1>7. ASSUME NEW k \in 1..(n + 2), k # i, k # j + 2 PROVE \E l \in 1..n : p[l] = k
  <2>1. CASE k < i
    <3>1. k \in 1..n /\ p[k] = k
      BY <2>1, <1>1
    <3> QED BY <3>1
  <2>2. CASE i < k /\ k < j + 2
    <3>1. k - 1 \in 1..n /\ p[k - 1] = k
      BY <2>2, <1>1
    <3> QED BY <3>1
  <2>3. CASE k > j + 2
    <3>1. k - 2 \in 1..n /\ p[k - 2] = k
      BY <2>3, <1>1
    <3> QED BY <3>1
  <2> QED BY <2>1, <2>2, <2>3, <1>1, <1>7
<1> HIDE DEF p
<1>8. ASSUME NEW k \in 1..n PROVE s[k] = m[p[k]]
  <2>1. p[k] \in 1..(n + 2) /\ p[k] # i /\ p[k] # j + 2
    BY <1>4
  <2>2. CASE p[k] < i
    BY <2>1, <2>2, <1>3, <1>4
  <2>3. CASE i < p[k] /\ p[k] < j + 2
    <3>1. k = p[k] - 1 /\ ~(p[k] < i) /\ p[k] # i
      BY <2>3, <1>1, <1>4
    <3> QED BY <2>1, <2>3, <3>1, <1>3
  <2>4. CASE p[k] > j + 2
    <3>1. k = p[k] - 2 /\ ~(p[k] < i) /\ p[k] # i /\ ~(p[k] < j + 2) /\ p[k] # j + 2
      BY <2>4, <1>1, <1>4
    <3> QED BY <2>1, <3>1, <1>3
  <2> QED BY <2>1, <2>2, <2>3, <2>4, <1>1
<1>9. i \in 1..(n + 2) /\ j + 2 \in 1..(n + 2) /\ m[i] = Mark /\ m[j + 2] = Mark
  BY <1>1, <1>3
<1>10. D = {i, j + 2}
  <2>1. ASSUME NEW k \in 1..(n + 2), m[k] = Mark PROVE k \in {i, j + 2}
    <3> SUFFICES ASSUME k # i, k # j + 2 PROVE FALSE
      OBVIOUS
    <3>1. PICK l \in 1..n : p[l] = k
      BY <1>7
    <3> QED BY <3>1, <2>1, <1>2, <1>8
  <2> QED BY <2>1, <1>3, <1>9
<1>11. Sub(p, s, m, D)
  <2>1. \A k \in 1..n : p[k] \notin D
    BY <1>4, <1>10
  <2>2. \A k \in (1..(n + 2)) \ D : \E l \in 1..n : p[l] = k
    BY <1>7, <1>10
  <2> QED BY <2>1, <2>2, <1>3, <1>5, <1>6, <1>8 DEF Sub, n
<1> QED BY <1>3, <1>11 DEF m

\* A hit in the terminal is the hit without its marks.
LEMMA SnippetClean ==
    ASSUME NEW w \in Seq(Unmarked), NEW i \in 1..Len(w), NEW j \in 1..Len(w), i <= j
    PROVE  Clean(Snippet(w, i, j)) = Strip(JoinCjk(w))
<1> DEFINE m == Marked(w, i, j)
           D == {k \in 1..Len(m) : m[k] = Mark}
           B == {k \in DOMAIN m : BetweenCjk(m, k)}
           jm == Drop(m, B)
           E == {k \in DOMAIN jm : jm[k] = Mark}
           x == Drop(jm, E)
           G == {k \in 1..Len(m) : k \in B \/ m[k] = Mark}
<1>1. w \in Seq(Symbols)
  BY UnmarkedTypes
<1>2. m \in Seq(Symbols) /\ \E p : Sub(p, w, m, D)
  BY MarkedSub
<1>3. Clean(Snippet(w, i, j)) = Strip(JoinCjk(x))
  BY DEF Clean, Without, Snippet, JoinCjk, Marked
<1> HIDE DEF m
<1>4. jm \in Seq(Symbols) /\ x \in Seq(Symbols)
  <2>1. jm \in Seq(Symbols)
    BY <1>2, DropType
  <2> HIDE DEF jm
  <2> QED BY <2>1, DropType
<1>5. \E h : Sub(h, JoinCjk(w), m, Gone(m))
  <2>1. PICK p : Sub(p, w, m, D)
    BY <1>2
  <2>2. \A k \in 1..Len(m) : (k \in D => k \in Gone(m)) /\ (m[k] = Mark => k \in D)
    BY DEF Gone
  <2> HIDE DEF D
  <2> QED BY <1>1, <1>2, <2>1, <2>2, JoinedSub
<1>6. \E h : Sub(h, x, m, G)
  <2>1. PICK p : Sub(p, jm, m, B)
    BY <1>2, DropSub
  <2>2. PICK q : Sub(q, x, jm, E)
    BY <1>4, DropSub
  <2>3. B \cap (1..Len(m)) \subseteq G
    OBVIOUS
  <2>4. ASSUME NEW k \in 1..Len(jm) PROVE p[k] \in G <=> k \in E
    <3>1. p[k] \in 1..Len(m) /\ p[k] \notin B /\ jm[k] = m[p[k]]
      <4> HIDE DEF jm, B
      <4> QED BY <2>1 DEF Sub
    <3>2. k \in DOMAIN jm
      <4> HIDE DEF jm
      <4> QED BY <1>4
    <3> HIDE DEF jm, B
    <3> QED BY <3>1, <3>2
  <2> HIDE DEF jm, B, E, G, x
  <2> QED BY <1>2, <1>4, <2>1, <2>2, <2>3, <2>4, SubSub
<1>7. \A k \in 1..Len(m) : (k \in G => k \in Gone(m)) /\ (m[k] = Mark => k \in G)
  <2> SUFFICES ASSUME NEW k \in 1..Len(m), BetweenCjk(m, k) PROVE Loose(m, k)
    BY DEF Gone
  <2>1. Blank \in Soft
    BY DEF Soft
  <2> QED BY <2>1 DEF BetweenCjk, Loose
<1> HIDE DEF x, G, jm, B, E
<1>8. \E h : Sub(h, JoinCjk(x), m, Gone(m))
  <2>1. PICK p : Sub(p, x, m, G)
    BY <1>6
  <2> QED BY <1>2, <1>4, <1>7, <2>1, JoinedSub
<1>9. JoinCjk(w) \in Seq(Symbols) /\ JoinCjk(x) \in Seq(Symbols)
  BY <1>1, <1>4, Sets, PartsJoin
<1>10. JoinCjk(w) = JoinCjk(x)
  BY <1>2, <1>5, <1>8, <1>9, SubUnique
<1> QED BY <1>3, <1>10

\* Nothing is left to join.
LEMMA JoinedOnce ==
    ASSUME NEW w \in Seq(Unmarked), NEW t \in DOMAIN JoinCjk(w)
    PROVE  ~BetweenCjk(JoinCjk(w), t)
<1> DEFINE E == {k \in DOMAIN w : BetweenCjk(w, k)}
           v == Drop(w, E)
<1>1. w \in Seq(Symbols) /\ \A k \in 1..Len(w) : w[k] # Mark
  BY UnmarkedTypes
<1>2. JoinCjk(w) = v
  BY DEF JoinCjk
<1>3. v \in Seq(Symbols)
  BY <1>1, DropType
<1>4. PICK p : Sub(p, v, w, E)
  BY <1>1, DropSub
<1>5. t \in 1..Len(v)
  BY <1>2, <1>3
<1>6. \A k \in 1..Len(w) : (k \in E => w[k] \in Soft) /\ (w[k] = Mark => k \in E)
  BY <1>1 DEF BetweenCjk, Soft
<1>7. p[t] \in 1..Len(w) /\ p[t] \notin E
  <2> HIDE DEF v, E
  <2> QED BY <1>4, <1>5 DEF Sub
<1>8. BetweenCjk(v, t) <=> Loose(w, p[t])
  <2> HIDE DEF v, E
  <2> QED BY <1>1, <1>3, <1>4, <1>5, <1>6, BetweenKept
<1>9. Loose(w, p[t]) => BetweenCjk(w, p[t])
  <2> DEFINE o == p[t]
  <2>1. o \in 1..Len(w) /\ Len(w) \in Nat
    BY <1>1, <1>7
  <2> HIDE DEF o
  <2>2. \A k \in 1..Len(w) : w[k] \in Soft => w[k] = Blank
    BY <1>1 DEF Soft
  <2>3. \A a \in 1..(o - 1) : \A k \in (a + 1)..(o - 1) : k \in 1..Len(w)
    BY <2>1
  <2>4. \A a \in (o + 1)..Len(w) : \A k \in (o + 1)..(a - 1) : k \in 1..Len(w)
    BY <2>1
  <2>5. Loose(w, o) => BetweenCjk(w, o)
    BY <2>2, <2>3, <2>4 DEF Loose, BetweenCjk
  <2> QED BY <2>5 DEF o
<1>10. DOMAIN w = 1..Len(w)
  BY <1>1
<1> QED BY <1>2, <1>7, <1>8, <1>9, <1>10

-----------------------------------------------------------------------------
(* The theorems.                                                             *)

\* The inductive invariant: all else follows from it for each text alone.
Typed == text \in Seq(Elements)

\* The text is made of characters and constructs.
LEMMA TextTyped == Spec => []Typed
<1>1. Init => Typed
  BY DEF Init, Typed
<1>2. Typed /\ [Next]_text => Typed'
  BY DEF Typed, Next, Type, Elements
<1> QED BY <1>1, <1>2, PTL DEF Spec

\* The argument for each text.
LEMMA SameReading == Typed => ReadsTheSame
<1> SUFFICES ASSUME Typed PROVE ReadsTheSame
  OBVIOUS
<1> DEFINE plain == Plain(text)
           column == Normalize(text)
           shown == JoinCjk(column)
<1>1. column \in Seq(Unmarked) /\ column \in Seq(Symbols) /\ plain \in Seq(Symbols)
  BY TextType DEF Typed
<1>2. column = SplitCjk(plain)
  BY DEF Normalize
<1> HIDE DEF column, plain
<1>3. Words(shown) = Words(plain)
  <2> DEFINE S == Symbols \ {Blank}
  <2>1. Wordy(S)
    BY Sets
  <2>2. \A s : Words(s) = Parts(S, s)
    BY DEF Words, Parts
  <2> HIDE DEF S
  <2> QED BY <1>1, <1>2, <2>1, <2>2, PartsJoin, PartsSplit
<1>4. \A i \in DOMAIN shown : ~BetweenCjk(shown, i)
  BY <1>1, JoinedOnce
<1>5. \A i, j \in {k \in DOMAIN column : column[k] # Blank} :
         i <= j => Clean(Snippet(column, i, j)) = Strip(shown)
  <2> SUFFICES ASSUME NEW i \in DOMAIN column, NEW j \in DOMAIN column, i <= j
               PROVE  Clean(Snippet(column, i, j)) = Strip(shown)
    OBVIOUS
  <2>1. i \in 1..Len(column) /\ j \in 1..Len(column)
    BY <1>1
  <2> HIDE DEF shown
  <2>2. Clean(Snippet(column, i, j)) = Strip(JoinCjk(column))
    BY <1>1, <2>1, SnippetClean
  <2> QED BY <2>2 DEF shown
<1> QED BY <1>3, <1>4, <1>5 DEF ReadsTheSame, column, plain

\* split_cjk and join_cjk (core/text.py): for every message, what the index gives
\* back has the words of the message, no two ideographs left apart and none cut or
\* glued; and what _clean (search.py) prints of a hit is the hit without its
\* marks, wherever snippet() put them.
THEOREM TextsReadTheSame == Spec => []ReadsTheSame
  BY TextTyped, SameReading, PTL

\* The argument for each text: the thread page and the text of a hit.
LEMMA WordsFind == Typed => FoundByItsWords
<1> SUFFICES ASSUME Typed PROVE FoundByItsWords
  OBVIOUS
<1> DEFINE plain == Plain(text)
           page == PageText(text)
           column == Normalize(text)
           tokens == Tokens(column)
           shown == JoinCjk(column)
<1>1. column \in Seq(Symbols) /\ plain \in Seq(Symbols) /\ Faithful(page, plain)
  BY TextType, PageFaithful DEF Typed
<1>2. column = SplitCjk(plain) /\ tokens = Parts(Letters, plain)
  BY DEF Normalize, Parts, Tokens, Letters
<1>3. Wordy(Letters)
  BY Sets DEF Letters
<1> HIDE DEF column, plain, page
<1>4. ASSUME NEW i \in DOMAIN page, NEW j \in DOMAIN page, IsPiece(page, i, j)
      PROVE  Matches(SubSeq(page, i, j), tokens)
  <2>1. i \in 1..Len(page) /\ j \in 1..Len(page)
    BY <1>1 DEF Faithful
  <2> HIDE DEF tokens
  <2> QED BY <1>1, <1>2, <1>4, <2>1, PagePieceFound
<1>5. shown \in Seq(Symbols) /\ Parts(Letters, shown) = tokens
  <2> HIDE DEF tokens
  <2> QED BY <1>1, <1>2, <1>3, PartsJoin, PartsSplit
<1> HIDE DEF shown, tokens
<1>6. ASSUME NEW i \in DOMAIN shown, NEW j \in DOMAIN shown, IsPiece(shown, i, j)
      PROVE  Matches(SubSeq(shown, i, j), tokens)
  <2>1. /\ i \in 1..Len(shown) /\ j \in 1..Len(shown) /\ i <= j
        /\ i > 1 => ~(shown[i - 1] \in Latin /\ shown[i] \in Latin)
        /\ j < Len(shown) => ~(shown[j] \in Latin /\ shown[j + 1] \in Latin)
        /\ \E k \in i..j : shown[k] \in Letters
    BY <1>5, <1>6 DEF IsPiece, Cuts, Letters
  <2>2. j \in i..Len(shown)
    BY <1>5, <2>1
  <2> QED BY <1>5, <2>1, <2>2, StretchFound
<1>7. \A piece \in Pieces(page) \cup Pieces(shown) : Matches(piece, tokens)
  <2> SUFFICES ASSUME NEW s \in {page, shown}, NEW piece \in Pieces(s) PROVE Matches(piece, tokens)
    OBVIOUS
  <2>1. PICK i \in DOMAIN s, j \in DOMAIN s : IsPiece(s, i, j) /\ piece = SubSeq(s, i, j)
    BY DEF Pieces
  <2> QED BY <2>1, <1>4, <1>6
<1> QED BY <1>7 DEF FoundByItsWords, column, page, tokens, shown

\* _to_fts_query (pipeline/index.py) over what normalize_text put into the index:
\* for every message, whatever a reader copies from its thread page or from the
\* text of a hit, cut between words, finds the message again.
THEOREM WordsAreFound == Spec => []FoundByItsWords
  BY TextTyped, WordsFind, PTL

-----------------------------------------------------------------------------
(* The preview beside the page.                                              *)

\* What make_preview has for an element.
KnownOf(x) == IF x \in Constructs THEN Known(x) ELSE <<x>>

\* The messages PreviewIsPage is about.
AllKnown(s) == \A x \in ToSet(s) \cap Constructs : Kind[x] \in KnownKinds

\* Positions outside of the text do not matter.
LEMMA DropAlike ==
    ASSUME NEW s, NEW D, NEW E, \A i \in DOMAIN s : i \in D <=> i \in E
    PROVE  Drop(s, D) = Drop(s, E)
  BY DEF Drop

\* What one element more does to Without.
WithoutMore(s, c, x) ==
    /\ Without(s, c) \in Seq(Symbols)
    /\ Without(Append(s, x), c) = IF x = c THEN Without(s, c) ELSE Append(Without(s, c), x)

\* One element more.
LEMMA WithoutAppend ==
    ASSUME NEW s \in Seq(Symbols), NEW c, NEW x \in Symbols
    PROVE  WithoutMore(s, c, x)
<1> DEFINE n == Len(s)
           t == Append(s, x)
           D == {i \in DOMAIN s : s[i] = c}
           E == {i \in DOMAIN t : t[i] = c}
<1>1. n \in Nat /\ DOMAIN s = 1..n /\ DOMAIN t = 1..(n + 1) /\ t[n + 1] = x /\ \A i \in 1..n : t[i] = s[i]
  OBVIOUS
<1>2. \A i \in DOMAIN s : i \in D <=> i \in E
  BY <1>1
<1>3. n + 1 \in E <=> x = c
  BY <1>1
<1>4. Without(s, c) = Drop(s, D) /\ Without(t, c) = Drop(t, E)
  BY DEF Without
<1> HIDE DEF D, E, t
<1>5. Drop(s, D) = Drop(s, E)
  BY <1>2, DropAlike
<1>6. Dropped(Symbols, s, x, E)
  BY DropAppend
<1> QED BY <1>3, <1>4, <1>5, <1>6 DEF Dropped, WithoutMore, n, t

\* Nothing to leave out.
LEMMA WithoutNothing == ASSUME NEW c PROVE Without(<<>>, c) = <<>>
  BY DropNothing DEF Without

\* Characters stay.
LEMMA WithoutConcat ==
    ASSUME NEW s \in Seq(Symbols)
    PROVE  \A y \in Seq(Characters) : Without(s \o y, Close) = Without(s, Close) \o y
<1> DEFINE v == Without(s, Close)
           P == {y \in Seq(Characters) : Without(s \o y, Close) = v \o y}
<1>1. v \in Seq(Symbols) /\ Seq(Characters) \subseteq Seq(Symbols) /\ Characters \subseteq Symbols
  <2>1. WithoutMore(s, Close, Blank)
    BY Types, WithoutAppend
  <2> QED BY <2>1, Types DEF WithoutMore
<1> HIDE DEF v
<1>2. <<>> \in P
  <2>1. s \o <<>> = s /\ v \o <<>> = v /\ <<>> \in Seq(Characters)
    BY <1>1
  <2> QED BY <2>1 DEF v
<1>3. ASSUME NEW y \in P, NEW c \in Characters PROVE Append(y, c) \in P
  <2>1. y \in Seq(Characters) /\ y \in Seq(Symbols) /\ c \in Symbols /\ Append(y, c) \in Seq(Characters)
    BY <1>1
  <2>2. c # Close
    BY SlackTextAssumption DEF Characters
  <2>3. Behind(s, y, c) /\ Behind(v, y, c)
    BY <1>1, <2>1, AppendConcat
  <2>4. s \o y \in Seq(Symbols)
    BY <2>1
  <2>5. WithoutMore(s \o y, Close, c)
    BY <2>1, <2>4, WithoutAppend
  <2>6. Without(s \o y, Close) = v \o y
    OBVIOUS
  <2> QED BY <2>1, <2>2, <2>3, <2>5, <2>6 DEF WithoutMore, Behind
<1>4. P \in SUBSET Seq(Characters)
  OBVIOUS
<1> HIDE DEF P
<1>5. P = Seq(Characters)
  BY <1>2, <1>3, <1>4, Appending
<1> QED BY <1>5 DEF P, v

\* An element whose kind make_preview knows is spelled as on the page.
LEMMA KnownStep ==
    ASSUME NEW page \in Seq(Symbols), NEW x \in Elements, x \in Constructs => Kind[x] \in KnownKinds
    PROVE  Without(page \o PageOf(x), Close) = Without(page, Close) \o KnownOf(x)
<1>1. CASE x \notin Constructs
  <2>1. <<x>> \in Seq(Characters)
    BY <1>1 DEF Elements
  <2> QED BY <2>1, <1>1, WithoutConcat DEF PageOf, KnownOf
<1>2. CASE x \in Constructs
  <2> DEFINE name == Name[x]
  <2>1. /\ name \in Seq(Characters) /\ name \in Seq(Symbols) /\ Url \in Seq(Characters)
        /\ <<Sign>> \o name \in Seq(Characters) /\ <<Close>> \in Seq(Symbols)
    <3>1. name \in Seq(Characters) /\ name \in Seq(Symbols) /\ Url \in Seq(Characters)
      BY <1>2, Constructed
    <3> HIDE DEF name
    <3> QED BY <3>1, Types
  <2>2. KnownOf(x) = Spelled(x) /\ Kind[x] \notin ForeignKinds
    BY <1>2 DEF KnownOf, Known, KnownKinds, ForeignKinds
  <2>3. CASE Kind[x] = "link"
    <3>1. PageOf(x) = name \o <<Close>> /\ KnownOf(x) = name
      BY <1>2, <2>2, <2>3, Constructed DEF PageOf
    <3> HIDE DEF name
    <3>2. Regroup(page, name, <<Close>>)
      BY <2>1, Regrouped
    <3>3. page \o name \in Seq(Symbols) /\ Close \in Symbols
      BY <2>1, Types
    <3>4. (page \o name) \o <<Close>> = Append(page \o name, Close)
      BY <3>3
    <3>5. WithoutMore(page \o name, Close, Close)
      BY <3>3, WithoutAppend
    <3>6. Without((page \o name) \o <<Close>>, Close) = Without(page \o name, Close)
      BY <3>4, <3>5 DEF WithoutMore
    <3> QED BY <2>1, <3>1, <3>2, <3>6, WithoutConcat DEF Regroup
  <2>4. CASE Kind[x] # "link"
    <3>1. PageOf(x) = KnownOf(x)
      BY <1>2, <2>2, <2>4 DEF PageOf
    <3>2. KnownOf(x) \in Seq(Characters)
      BY <1>2, <2>1, <2>2, <2>4, Constructed DEF ForeignKinds
    <3> QED BY <3>1, <3>2, WithoutConcat
  <2> QED BY <2>3, <2>4
<1> QED BY <1>1, <1>2

\* The preview before its cut is made element by element.
LEMMA KnownSpread ==
    ASSUME NEW s \in Seq(Elements), NEW x \in Elements
    PROVE  /\ Expand(s, Known) \in Seq(Unmarked)
           /\ Expand(Append(s, x), Known) = Expand(s, Known) \o KnownOf(x)
           /\ Expand(<<>>, Known) = <<>>
<1> DEFINE F == [e \in Elements |-> KnownOf(e)]
<1>1. F \in [Elements -> Seq(Unmarked)]
  <2> SUFFICES ASSUME NEW e \in Elements PROVE KnownOf(e) \in Seq(Unmarked)
    OBVIOUS
  <2>1. CASE e \notin Constructs
    BY <2>1, UnmarkedTypes DEF Elements, KnownOf
  <2>2. CASE e \in Constructs
    <3>1. Name[e] \in Seq(Unmarked) /\ Url \in Seq(Unmarked)
      BY <2>2, Constructed, UnmarkedTypes
    <3>2. <<Sign>> \o Name[e] \in Seq(Unmarked) /\ <<Open>> \o Name[e] \o <<Close>> \in Seq(Unmarked)
      BY <3>1, UnmarkedTypes, Types
    <3> QED BY <2>2, <3>1, <3>2, Constructed DEF KnownOf, Known, Source
  <2> QED BY <2>1, <2>2
<1>2. ASSUME NEW t \in Seq(Elements) PROVE Expand(t, Known) = Spread(F, t)
  <2>1. \A i \in DOMAIN t : t[i] \in Elements
    OBVIOUS
  <2> QED BY <2>1 DEF Expand, Spread, KnownOf
<1>3. F[x] = KnownOf(x) /\ Append(s, x) \in Seq(Elements) /\ <<>> \in Seq(Elements)
  OBVIOUS
<1> HIDE DEF F
<1>4. SpreadMore(Unmarked, F, s, x)
  BY <1>1, SpreadAppend
<1> QED BY <1>2, <1>3, <1>4, SpreadNothing DEF SpreadMore

\* So is a text of such elements.
LEMMA KnownText ==
    \A s \in Seq(Elements) : AllKnown(s) => Expand(s, Known) = Without(PageText(s), Close)
<1> DEFINE P == {s \in Seq(Elements) : AllKnown(s) => Expand(s, Known) = Without(PageText(s), Close)}
<1>1. <<>> \in P
  <2>1. <<>> \in Seq(Elements) /\ Sign \in Elements
    BY Types DEF Elements
  <2> QED BY <2>1, KnownSpread, TextNothing, WithoutNothing
<1>2. ASSUME NEW s \in P, NEW x \in Elements, AllKnown(Append(s, x))
      PROVE  Expand(Append(s, x), Known) = Without(PageText(Append(s, x)), Close)
  <2>1. s \in Seq(Elements)
    OBVIOUS
  <2>2. AllKnown(s) /\ (x \in Constructs => Kind[x] \in KnownKinds)
    <3>1. ToSet(s) \subseteq ToSet(Append(s, x)) /\ x \in ToSet(Append(s, x))
      <4> DEFINE t == Append(s, x)
      <4>1. Len(s) \in Nat /\ DOMAIN s = 1..Len(s) /\ DOMAIN t = 1..(Len(s) + 1)
            /\ t[Len(s) + 1] = x /\ \A i \in 1..Len(s) : t[i] = s[i]
        BY <2>1
      <4> HIDE DEF t
      <4>2. Len(s) + 1 \in DOMAIN t /\ \A i \in DOMAIN s : i \in DOMAIN t
        BY <4>1
      <4>3. ToSet(s) \subseteq ToSet(t) /\ x \in ToSet(t)
        BY <4>1, <4>2 DEF ToSet
      <4> QED BY <4>3 DEF t
    <3> QED BY <3>1, <1>2 DEF AllKnown
  <2>3. Expand(s, Known) = Without(PageText(s), Close)
    BY <2>2
  <2>4. PageText(s) \in Seq(Symbols) /\ PageText(Append(s, x)) = PageText(s) \o PageOf(x)
    BY <2>1, TextAppend, UnmarkedTypes
  <2>5. Without(PageText(s) \o PageOf(x), Close) = Without(PageText(s), Close) \o KnownOf(x)
    BY <2>2, <2>4, KnownStep
  <2>6. Expand(Append(s, x), Known) = Expand(s, Known) \o KnownOf(x)
    BY <2>1, KnownSpread
  <2> QED BY <2>3, <2>4, <2>5, <2>6
<1>3. P \in SUBSET Seq(Elements) /\ \A s \in P, x \in Elements : Append(s, x) \in P
  <2>1. \A s \in P, x \in Elements : Append(s, x) \in Seq(Elements)
    OBVIOUS
  <2> QED BY <2>1, <1>2
<1> HIDE DEF P
<1>4. P = Seq(Elements)
  BY <1>1, <1>3, Appending
<1> QED BY <1>4 DEF P

\* What str.strip leaves.
LEMMA StripType == ASSUME NEW s \in Seq(Symbols) PROVE Strip(s) \in Seq(Symbols)
<1> DEFINE solid == {i \in DOMAIN s : s[i] # Blank}
           n == Len(s)
<1>1. n \in Nat /\ solid \subseteq 1..n /\ \A i \in 1..n : s[i] \in Symbols
  OBVIOUS
<1>2. CASE solid = {}
  BY <1>2 DEF Strip
<1>3. CASE solid # {}
  <2> DEFINE First(a) == a \in solid /\ \A j \in solid : a <= j
             Final(b) == b \in solid /\ \A j \in solid : j <= b
  <2>1. Strip(s) = SubSeq(s, CHOOSE a \in solid : \A j \in solid : a <= j,
                             CHOOSE b \in solid : \A j \in solid : j <= b)
    BY <1>3 DEF Strip
  <2> HIDE DEF solid, n
  <2>2. \E a \in solid : \A j \in solid : a <= j
    <3>1. solid \in SUBSET Nat
      BY <1>1
    <3> QED BY <1>3, <3>1, Least
  <2>3. \E b \in solid : \A j \in solid : j <= b
    <3> DEFINE T == {n - j : j \in solid}
    <3>1. T \in SUBSET Nat /\ T # {}
      <4>1. \A j \in solid : j \in 1..n /\ n - j \in Nat
        BY <1>1
      <4>2. PICK j \in solid : TRUE
        BY <1>3
      <4> QED BY <4>1, <4>2
    <3> HIDE DEF T
    <3>2. PICK c \in T : \A m \in T : c <= m
      BY <3>1, Least
    <3>3. PICK b \in solid : c = n - b
      BY <3>2 DEF T
    <3>4. ASSUME NEW j \in solid PROVE j <= b
      <4>1. n - j \in T
        BY DEF T
      <4>2. n - b <= n - j
        BY <3>2, <3>3, <4>1
      <4> QED BY <4>2, <1>1
    <3> QED BY <3>4
  <2>4. (CHOOSE a \in solid : \A j \in solid : a <= j) \in 1..n
    BY <2>2, <1>1
  <2>5. (CHOOSE b \in solid : \A j \in solid : j <= b) \in 1..n
    BY <2>3, <1>1
  <2>6. \A a, b \in 1..n : SubSeq(s, a, b) \in Seq(Symbols)
    BY <1>1 DEF n
  <2> QED BY <2>1, <2>4, <2>5, <2>6
<1> QED BY <1>2, <1>3

\* A cut leaves a beginning.
LEMMA UpToPrefix ==
    ASSUME NEW s \in Seq(Symbols), NEW n \in Nat
    PROVE  IsPrefix(UpTo(s, n), s)
<1> DEFINE m == IF Len(s) < n THEN Len(s) ELSE n
           u == SubSeq(s, 1, m)
<1>1. m \in 0..Len(s) /\ Len(s) \in Nat
  OBVIOUS
<1>2. u = UpTo(s, n)
  BY DEF UpTo
<1> HIDE DEF m
<1>3. u \in Seq(Symbols) /\ Len(u) = m
  BY <1>1
<1>4. SubSeq(u, 1, Len(u)) = u
  <2> HIDE DEF u
  <2> QED BY <1>3, SubSeqFull
<1> QED BY <1>1, <1>2, <1>3, <1>4 DEF IsPrefix

\* The argument for each text.
LEMMA PreviewBegins == Typed => PreviewIsPage
<1> SUFFICES ASSUME Typed, AllKnown(text)
             PROVE  IsPrefix(MakePreview(text), Strip(Without(PageText(text), Close)))
  BY DEF PreviewIsPage, AllKnown
<1> DEFINE s == Expand(text, Known)
<1>1. s = Without(PageText(text), Close)
  BY KnownText DEF Typed
<1>2. s \in Seq(Symbols)
  <2>1. Sign \in Elements
    BY Types DEF Elements
  <2> QED BY <2>1, KnownSpread, UnmarkedTypes DEF Typed
<1>3. MakePreview(text) = UpTo(Strip(s), MaxLen)
  BY DEF MakePreview
<1> HIDE DEF s
<1>4. Strip(s) \in Seq(Symbols) /\ MaxLen \in Nat
  BY <1>2, StripType, SlackTextAssumption
<1> QED BY <1>1, <1>3, <1>4, UpToPrefix

\* make_preview (core/text.py) expands before it cuts: for every message whose
\* constructs it knows and every max_len, the preview is the beginning of what
\* the thread page shows, never half a construct.
THEOREM PreviewsBeginThePage == Spec => []PreviewIsPage
  BY TextTyped, PreviewBegins, PTL
=============================================================================
