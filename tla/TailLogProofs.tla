--------------------------- MODULE TailLogProofs ---------------------------
(***************************************************************************)
(* Proofs about module TailLog, for a page, a file and growth of any size:  *)
(* the lines received are the last of the file (TailSound), none that was   *)
(* there is missing at the end but what misaligned pages lose               *)
(* (TailComplete), and they exceed what was asked for by what one page can  *)
(* hold at most (TailBounded).                                              *)
(*                                                                         *)
(* Split and NonEmpty are recursive.  What they compute is proved by        *)
(* induction on sets (Induction, SeqInduction), which the well-foundedness  *)
(* of < on Nat gives without an operator as a parameter.  The fact behind   *)
(* ReverseReader is SplitConcat: what a page adds to the bytes behind it    *)
(* goes in front of their first line and leaves the others as they are.     *)
(***************************************************************************)
EXTENDS TailLog, WellFoundedInduction, SequenceTheorems, TLAPS

-----------------------------------------------------------------------------
(* Induction and folds. *)

\* Induction over the numbers, as a fact about sets.
LEMMA Induction ==
    ASSUME NEW S \in SUBSET Nat, 0 \in S, \A n \in S : n + 1 \in S
    PROVE  S = Nat
<1> SUFFICES ASSUME Nat \ S # {} PROVE FALSE
  OBVIOUS
<1>1. PICK x \in Nat \ S : \A y \in Nat \ S : ~(<<y, x>> \in OpToRel(<, Nat))
  BY NatLessThanWellFounded, WFMin, Nat \ S \subseteq Nat
<1>2. x # 0 /\ x - 1 \in Nat /\ x - 1 < x
  OBVIOUS
<1>3. <<x - 1, x>> \in OpToRel(<, Nat)
  BY <1>2 DEF OpToRel
<1>4. x - 1 \in S
  BY <1>1, <1>2, <1>3
<1> QED
  BY <1>2, <1>4

\* f folds s from the left: f[k] is what base and the first k elements give.
IsFold(f, base, step, s, n) ==
    f[0] = base /\ \A k \in 1 .. n : f[k] = step[<<f[k - 1], s[k]>>]

\* A sequence has a fold.
LEMMA FoldExists ==
    ASSUME NEW R, NEW S, NEW base \in R, NEW step \in [R \X S -> R], NEW s \in Seq(S)
    PROVE  \E f \in [0 .. Len(s) -> R] : IsFold(f, base, step, s, Len(s))
<1> DEFINE Good(m) == \E f \in [0 .. m -> R] :
                        f[0] = base /\ \A k \in 1 .. m : f[k] = step[<<f[k - 1], s[k]>>]
           D == {m \in Nat : m <= Len(s) => Good(m)}
<1>1. 0 \in D
  <2> DEFINE f == [k \in 0 .. 0 |-> base]
  <2>1. f \in [0 .. 0 -> R] /\ f[0] = base
    OBVIOUS
  <2>2. \A k \in 1 .. 0 : FALSE
    OBVIOUS
  <2>3. Good(0)
    BY <2>1, <2>2
  <2> QED
    BY <2>3
<1>2. ASSUME NEW m \in D PROVE m + 1 \in D
  <2> SUFFICES ASSUME m + 1 <= Len(s) PROVE Good(m + 1)
    OBVIOUS
  <2>1. m \in Nat /\ Good(m) /\ Len(s) \in Nat
    BY <1>2
  <2>2. PICK f \in [0 .. m -> R] : f[0] = base /\ \A k \in 1 .. m : f[k] = step[<<f[k - 1], s[k]>>]
    BY <2>1
  <2> DEFINE v == step[<<f[m], s[m + 1]>>]
             g == [k \in 0 .. m + 1 |-> IF k = m + 1 THEN v ELSE f[k]]
  <2>3. v \in R
    <3>1. f[m] \in R /\ s[m + 1] \in S
      BY <2>1, <2>2
    <3> QED
      BY <3>1
  <2> HIDE DEF v
  <2>4. g \in [0 .. m + 1 -> R] /\ g[0] = base
    BY <2>1, <2>2, <2>3
  <2>5. ASSUME NEW k \in 1 .. m + 1 PROVE g[k] = step[<<g[k - 1], s[k]>>]
    <3>1. CASE k = m + 1
      <4>1. g[k] = v /\ g[k - 1] = f[m]
        BY <2>1, <3>1
      <4> QED
        BY <3>1, <4>1 DEF v
    <3>2. CASE k # m + 1
      <4>1. k \in 1 .. m /\ k - 1 \in 0 .. m
        BY <2>1, <3>2
      <4>2. g[k] = f[k] /\ g[k - 1] = f[k - 1]
        BY <2>1, <3>2, <4>1
      <4> QED
        BY <2>2, <4>1, <4>2
    <3> QED
      BY <3>1, <3>2
  <2> QED
    BY <2>4, <2>5
<1> HIDE DEF Good
<1>3. D = Nat
  <2>1. D \in SUBSET Nat
    OBVIOUS
  <2> HIDE DEF D
  <2> QED
    BY <1>1, <1>2, <2>1, Induction
<1>4. Len(s) \in Nat
  OBVIOUS
<1> QED
  BY <1>3, <1>4 DEF Good, IsFold

\* Folds of sequences that agree on their first n elements agree there.
LEMMA FoldUnique ==
    ASSUME NEW base, NEW step, NEW s, NEW t, NEW n \in Nat, \A k \in 1 .. n : s[k] = t[k],
           NEW f, IsFold(f, base, step, s, n), NEW g, IsFold(g, base, step, t, n)
    PROVE  f[n] = g[n]
<1> DEFINE D == {m \in Nat : m <= n => f[m] = g[m]}
<1>1. 0 \in D
  BY DEF IsFold
<1>2. ASSUME NEW m \in D PROVE m + 1 \in D
  <2> SUFFICES ASSUME m + 1 <= n PROVE f[m + 1] = g[m + 1]
    OBVIOUS
  <2>1. m + 1 \in 1 .. n /\ (m + 1) - 1 = m /\ f[m] = g[m]
    OBVIOUS
  <2> QED
    BY <2>1 DEF IsFold
<1>3. D \in SUBSET Nat
  OBVIOUS
<1> HIDE DEF D
<1>4. n \in D
  BY <1>1, <1>2, <1>3, Induction
<1> QED
  BY <1>4 DEF D

\* The fold of a longer sequence takes one step more.
LEMMA FoldAppend ==
    ASSUME NEW S, NEW s \in Seq(S), NEW e \in S, NEW base, NEW step,
           NEW f, IsFold(f, base, step, s, Len(s)),
           NEW g, IsFold(g, base, step, Append(s, e), Len(Append(s, e)))
    PROVE  g[Len(Append(s, e))] = step[<<f[Len(s)], e>>]
<1> DEFINE t == Append(s, e)
<1>1. /\ Len(s) \in Nat /\ Len(t) = Len(s) + 1 /\ t[Len(s) + 1] = e
      /\ \A k \in 1 .. Len(s) : s[k] = t[k]
  OBVIOUS
<1> HIDE DEF t
<1>2. IsFold(g, base, step, t, Len(t))
  BY DEF t
<1>3. IsFold(g, base, step, t, Len(s))
  BY <1>1, <1>2 DEF IsFold
<1>4. f[Len(s)] = g[Len(s)]
  BY <1>1, <1>3, FoldUnique
<1>5. Len(t) \in 1 .. Len(t) /\ Len(t) - 1 = Len(s)
  BY <1>1
<1>6. g[Len(t)] = step[<<g[Len(s)], e>>]
  BY <1>1, <1>2, <1>5 DEF IsFold
<1> QED
  BY <1>4, <1>6 DEF t

\* Induction over sequences, as a fact about sets.
LEMMA SeqInduction ==
    ASSUME NEW S, NEW T \in SUBSET Seq(S), <<>> \in T, \A s \in T, e \in S : Append(s, e) \in T
    PROVE  T = Seq(S)
<1> DEFINE D == {n \in Nat : \A s \in Seq(S) : Len(s) = n => s \in T}
<1>1. 0 \in D
  BY EmptySeq
<1>2. ASSUME NEW n \in D PROVE n + 1 \in D
  <2> SUFFICES ASSUME NEW s \in Seq(S), Len(s) = n + 1 PROVE s \in T
    OBVIOUS
  <2>1. s # <<>>
    BY EmptySeq
  <2>2. PICK r \in Seq(S), e \in S : s = Append(r, e)
    BY <2>1, SequenceEmptyOrAppend
  <2>3. Len(r) = n
    BY <2>2, AppendProperties, LenProperties
  <2> QED
    BY <2>2, <2>3
<1>3. D \in SUBSET Nat
  OBVIOUS
<1> HIDE DEF D
<1>4. D = Nat
  BY <1>1, <1>2, <1>3, Induction
<1>5. \A s \in Seq(S) : Len(s) \in Nat
  OBVIOUS
<1> QED
  BY <1>4, <1>5 DEF D

-----------------------------------------------------------------------------
(* Split. *)

Lines == Seq(Seq(Nat)) \ {<<>>}

\* What one byte does to the lines before it.
SplitStep == [x \in Lines \X Nat |->
                IF x[2] = 0 THEN Append(x[1], NoBytes)
                ELSE [x[1] EXCEPT ![Len(x[1])] = Append(@, x[2])]]

\* A byte that ends a line begins an empty one; any other goes to the last line.
LEMMA SplitStepType ==
    /\ <<NoBytes>> \in Lines
    /\ SplitStep \in [Lines \X Nat -> Lines]
    /\ \A l \in Lines, b \in Nat :
          SplitStep[<<l, b>>] = IF b = 0 THEN Append(l, NoBytes)
                                ELSE [l EXCEPT ![Len(l)] = Append(@, b)]
<1>1. <<NoBytes>> \in Lines
  BY DEF Lines, NoBytes
<1>2. ASSUME NEW l \in Lines, NEW b \in Nat
      PROVE  /\ Append(l, NoBytes) \in Lines
             /\ [l EXCEPT ![Len(l)] = Append(@, b)] \in Lines
  <2>1. l \in Seq(Seq(Nat)) /\ l # <<>> /\ Len(l) \in 1 .. Len(l)
    BY DEF Lines
  <2>2. Append(l, NoBytes) \in Lines
    <3>1. NoBytes \in Seq(Nat)
      BY DEF NoBytes
    <3> HIDE DEF NoBytes
    <3>2. Append(l, NoBytes) \in Seq(Seq(Nat)) /\ Len(Append(l, NoBytes)) = Len(l) + 1
      BY <2>1, <3>1
    <3>3. Append(l, NoBytes) # <<>>
      BY <2>1, <3>2
    <3> QED
      BY <3>2, <3>3 DEF Lines
  <2> DEFINE e == Append(l[Len(l)], b)
  <2>3. e \in Seq(Nat)
    BY <2>1
  <2> HIDE DEF e
  <2>4. [l EXCEPT ![Len(l)] = e] \in Seq(Seq(Nat)) /\ Len([l EXCEPT ![Len(l)] = e]) = Len(l)
    BY <2>1, <2>3, ExceptSeq
  <2>5. [l EXCEPT ![Len(l)] = e] # <<>>
    BY <2>1, <2>4
  <2>6. [l EXCEPT ![Len(l)] = Append(@, b)] = [l EXCEPT ![Len(l)] = e]
    BY DEF e
  <2> QED
    BY <2>2, <2>4, <2>5, <2>6 DEF Lines
<1> QED
  BY <1>1, <1>2 DEF SplitStep

\* Split is the fold that its definition describes.
LEMMA SplitFold ==
    ASSUME NEW s \in Seq(Nat)
    PROVE  \E f \in [0 .. Len(s) -> Lines] :
             IsFold(f, <<NoBytes>>, SplitStep, s, Len(s)) /\ Split(s) = f[Len(s)]
<1> DEFINE Body(g) == [k \in 0 .. Len(s) |->
                         IF k = 0 THEN <<NoBytes>>
                         ELSE IF s[k] = 0 THEN Append(g[k - 1], NoBytes)
                              ELSE [g[k - 1] EXCEPT ![Len(g[k - 1])] = Append(@, s[k])]]
           lines == CHOOSE g : g = Body(g)
<1>0. Len(s) \in Nat /\ \A k \in 1 .. Len(s) : s[k] \in Nat /\ k - 1 \in 0 .. Len(s) /\ k # 0
  OBVIOUS
<1>1. PICK f \in [0 .. Len(s) -> Lines] : IsFold(f, <<NoBytes>>, SplitStep, s, Len(s))
  BY SplitStepType, FoldExists
<1>20. f[0] = <<NoBytes>> /\ \A k \in 1 .. Len(s) : f[k] = SplitStep[<<f[k - 1], s[k]>>]
  BY <1>1 DEF IsFold
<1>2. f = Body(f)
  <2>1. ASSUME NEW k \in 0 .. Len(s) PROVE f[k] = Body(f)[k]
    <3>1. CASE k = 0
      BY <1>20, <3>1
    <3>2. CASE k # 0
      <4>1. k \in 1 .. Len(s) /\ f[k - 1] \in Lines /\ s[k] \in Nat
        BY <1>0, <1>1, <3>2
      <4> QED
        BY <1>20, <3>2, <4>1, SplitStepType
    <3> QED
      BY <3>1, <3>2
  <2> QED
    BY <2>1
<1>3. lines = Body(lines)
  BY <1>2
<1>4. Split(s) = lines[Len(s)]
  BY DEF Split
<1> HIDE DEF lines
<1>5. lines[0] = <<NoBytes>>
  BY <1>0, <1>3
<1>6. ASSUME NEW k \in 1 .. Len(s), lines[k - 1] \in Lines
      PROVE  lines[k] = SplitStep[<<lines[k - 1], s[k]>>] /\ lines[k] \in Lines
  <2>1. lines[k] = IF s[k] = 0 THEN Append(lines[k - 1], NoBytes)
                   ELSE [lines[k - 1] EXCEPT ![Len(lines[k - 1])] = Append(@, s[k])]
    <3>1. k \in 0 .. Len(s) /\ k # 0
      BY <1>0
    <3>2. lines[k] = Body(lines)[k]
      BY <1>3
    <3> QED
      BY <3>1, <3>2
  <2>2. lines[k] = SplitStep[<<lines[k - 1], s[k]>>]
    BY <1>0, <1>6, <2>1, SplitStepType
  <2> QED
    BY <1>0, <1>6, <2>2, SplitStepType
<1> DEFINE D == {m \in Nat : m <= Len(s) => lines[m] \in Lines}
<1>7. D = Nat
  <2>1. 0 \in D
    BY <1>5, SplitStepType
  <2>2. ASSUME NEW m \in D PROVE m + 1 \in D
    <3> SUFFICES ASSUME m + 1 <= Len(s) PROVE lines[m + 1] \in Lines
      OBVIOUS
    <3>1. m + 1 \in 1 .. Len(s) /\ (m + 1) - 1 = m /\ lines[m] \in Lines
      BY <1>0
    <3> QED
      BY <1>6, <3>1
  <2>3. D \in SUBSET Nat
    OBVIOUS
  <2> HIDE DEF D
  <2> QED
    BY <2>1, <2>2, <2>3, Induction
<1>8. \A k \in 0 .. Len(s) : lines[k] \in Lines
  BY <1>0, <1>7
<1>9. lines \in [0 .. Len(s) -> Lines]
  BY <1>3, <1>8
<1> HIDE DEF D
<1>10. \A k \in 1 .. Len(s) : lines[k] = SplitStep[<<lines[k - 1], s[k]>>]
  BY <1>0, <1>6, <1>8
<1> QED
  BY <1>4, <1>5, <1>9, <1>10 DEF IsFold

\* Split of nothing.
LEMMA SplitEmpty == Split(<<>>) = <<NoBytes>>
<1>1. <<>> \in Seq(Nat) /\ Len(<<>>) = 0
  OBVIOUS
<1> QED
  BY <1>1, SplitFold DEF IsFold

\* There is always a line, if an empty one.
LEMMA SplitType == \A s \in Seq(Nat) : Split(s) \in Lines
<1> TAKE s \in Seq(Nat)
<1>1. Len(s) \in 0 .. Len(s)
  OBVIOUS
<1> QED
  BY <1>1, SplitFold

\* Split of one byte more.
LEMMA SplitAppend ==
    ASSUME NEW s \in Seq(Nat), NEW b \in Nat
    PROVE  Split(Append(s, b)) = SplitStep[<<Split(s), b>>]
<1> DEFINE t == Append(s, b)
           base == <<NoBytes>>
<1>1. t \in Seq(Nat)
  OBVIOUS
<1>2. PICK f : IsFold(f, base, SplitStep, s, Len(s)) /\ Split(s) = f[Len(s)]
  BY SplitFold
<1>3. PICK g : IsFold(g, base, SplitStep, t, Len(t)) /\ Split(t) = g[Len(t)]
  BY <1>1, SplitFold
<1> HIDE DEF base
<1>4. g[Len(t)] = SplitStep[<<f[Len(s)], b>>]
  BY <1>2, <1>3, FoldAppend
<1> QED
  BY <1>2, <1>3, <1>4

-----------------------------------------------------------------------------
(* NonEmpty. *)

\* What one line does to those kept before it.
KeepStep == [x \in Seq(Seq(Nat)) \X Seq(Nat) |-> IF x[2] = NoBytes THEN x[1] ELSE Append(x[1], x[2])]

\* Empty lines are dropped and the others kept.
LEMMA KeepStepType ==
    /\ <<>> \in Seq(Seq(Nat))
    /\ KeepStep \in [Seq(Seq(Nat)) \X Seq(Nat) -> Seq(Seq(Nat))]
    /\ \A l \in Seq(Seq(Nat)), b \in Seq(Nat) :
          KeepStep[<<l, b>>] = IF b = NoBytes THEN l ELSE Append(l, b)
BY DEF KeepStep

\* NonEmpty is the fold that its definition describes.
LEMMA NonEmptyFold ==
    ASSUME NEW s \in Seq(Seq(Nat))
    PROVE  \E f \in [0 .. Len(s) -> Seq(Seq(Nat))] :
             IsFold(f, <<>>, KeepStep, s, Len(s)) /\ NonEmpty(s) = f[Len(s)]
<1> DEFINE R == Seq(Seq(Nat))
           Body(g) == [k \in 0 .. Len(s) |->
                         IF k = 0 THEN <<>>
                         ELSE IF s[k] = NoBytes THEN g[k - 1] ELSE Append(g[k - 1], s[k])]
           kept == CHOOSE g : g = Body(g)
<1>0. Len(s) \in Nat /\ \A k \in 1 .. Len(s) : s[k] \in Seq(Nat) /\ k - 1 \in 0 .. Len(s) /\ k # 0
  OBVIOUS
<1>1. PICK f \in [0 .. Len(s) -> R] : IsFold(f, <<>>, KeepStep, s, Len(s))
  BY KeepStepType, FoldExists
<1>20. f[0] = <<>> /\ \A k \in 1 .. Len(s) : f[k] = KeepStep[<<f[k - 1], s[k]>>]
  BY <1>1 DEF IsFold
<1> HIDE DEF R
<1>21. \A l \in R, b \in Seq(Nat) :
        /\ KeepStep[<<l, b>>] = IF b = NoBytes THEN l ELSE Append(l, b)
        /\ KeepStep[<<l, b>>] \in R
  BY KeepStepType DEF R
<1>2. f = Body(f)
  <2>1. ASSUME NEW k \in 0 .. Len(s) PROVE f[k] = Body(f)[k]
    <3>1. CASE k = 0
      BY <1>20, <3>1
    <3>2. CASE k # 0
      <4>0. k \in 1 .. Len(s) /\ k - 1 \in 0 .. Len(s) /\ s[k] \in Seq(Nat)
        BY <1>0, <3>2
      <4>1. k \in 1 .. Len(s) /\ f[k - 1] \in R /\ s[k] \in Seq(Nat)
        BY <1>1, <4>0
      <4> QED
        BY <1>20, <1>21, <3>2, <4>1
    <3> QED
      BY <3>1, <3>2
  <2> QED
    BY <1>1, <2>1
<1>3. kept = Body(kept)
  BY <1>2
<1>4. NonEmpty(s) = kept[Len(s)]
  BY DEF NonEmpty
<1> HIDE DEF kept
<1>5. kept[0] = <<>>
  BY <1>0, <1>3
<1>6. ASSUME NEW k \in 1 .. Len(s), kept[k - 1] \in R
      PROVE  kept[k] = KeepStep[<<kept[k - 1], s[k]>>] /\ kept[k] \in R
  <2>1. kept[k] = IF s[k] = NoBytes THEN kept[k - 1] ELSE Append(kept[k - 1], s[k])
    <3>1. k \in 0 .. Len(s) /\ k # 0
      BY <1>0
    <3>2. kept[k] = Body(kept)[k]
      BY <1>3
    <3> QED
      BY <3>1, <3>2
  <2> QED
    BY <1>0, <1>6, <1>21, <2>1
<1> DEFINE D == {m \in Nat : m <= Len(s) => kept[m] \in R}
<1>7. D = Nat
  <2>1. 0 \in D
    BY <1>5, KeepStepType DEF R
  <2>2. ASSUME NEW m \in D PROVE m + 1 \in D
    <3> SUFFICES ASSUME m + 1 <= Len(s) PROVE kept[m + 1] \in R
      OBVIOUS
    <3>1. m + 1 \in 1 .. Len(s) /\ (m + 1) - 1 = m /\ kept[m] \in R
      BY <1>0
    <3> QED
      BY <1>6, <3>1
  <2>3. D \in SUBSET Nat
    OBVIOUS
  <2> HIDE DEF D
  <2> QED
    BY <2>1, <2>2, <2>3, Induction
<1>8. \A k \in 0 .. Len(s) : kept[k] \in R
  BY <1>0, <1>7
<1>9. kept \in [0 .. Len(s) -> R]
  BY <1>3, <1>8
<1> HIDE DEF D
<1>10. \A k \in 1 .. Len(s) : kept[k] = KeepStep[<<kept[k - 1], s[k]>>]
  BY <1>0, <1>6, <1>8
<1> QED
  BY <1>4, <1>5, <1>9, <1>10 DEF IsFold, R

\* NonEmpty of nothing.
LEMMA NonEmptyEmpty == NonEmpty(<<>>) = <<>>
<1>1. <<>> \in Seq(Seq(Nat)) /\ Len(<<>>) = 0
  OBVIOUS
<1> QED
  BY <1>1, NonEmptyFold DEF IsFold

\* What is kept are lines.
LEMMA NonEmptyType == \A s \in Seq(Seq(Nat)) : NonEmpty(s) \in Seq(Seq(Nat))
<1> TAKE s \in Seq(Seq(Nat))
<1>1. Len(s) \in 0 .. Len(s)
  OBVIOUS
<1> QED
  BY <1>1, NonEmptyFold

\* NonEmpty of one line more.
LEMMA NonEmptyAppend ==
    ASSUME NEW s \in Seq(Seq(Nat)), NEW l \in Seq(Nat)
    PROVE  NonEmpty(Append(s, l)) = IF l = NoBytes THEN NonEmpty(s) ELSE Append(NonEmpty(s), l)
<1> DEFINE t == Append(s, l)
<1>1. t \in Seq(Seq(Nat))
  OBVIOUS
<1>2. PICK f : IsFold(f, <<>>, KeepStep, s, Len(s)) /\ NonEmpty(s) = f[Len(s)]
  BY NonEmptyFold
<1>3. PICK g : IsFold(g, <<>>, KeepStep, t, Len(t)) /\ NonEmpty(t) = g[Len(t)]
  BY <1>1, NonEmptyFold
<1>4. g[Len(t)] = KeepStep[<<f[Len(s)], l>>]
  BY <1>2, <1>3, FoldAppend
<1> QED
  BY <1>2, <1>3, <1>4, KeepStepType, NonEmptyType

-----------------------------------------------------------------------------
(* Lines and concatenation. *)

\* A byte changes the last line only.
LEMMA StepLast ==
    ASSUME NEW a \in Seq(Seq(Nat)), NEW l \in Lines, NEW b \in Nat
    PROVE  /\ a \o l \in Lines
           /\ SplitStep[<<a \o l, b>>] = a \o SplitStep[<<l, b>>]
<1>1. l \in Seq(Seq(Nat)) /\ l # <<>> /\ Len(l) \in Nat \ {0} /\ Len(a) \in Nat
  BY EmptySeq DEF Lines
<1>2. a \o l \in Seq(Seq(Nat)) /\ Len(a \o l) = Len(a) + Len(l)
  BY <1>1, ConcatProperties
<1>3. a \o l \in Lines
  BY <1>1, <1>2 DEF Lines
<1>4. CASE b = 0
  <2>1. NoBytes \in Seq(Nat)
    BY DEF NoBytes
  <2> DEFINE e == NoBytes
  <2> HIDE DEF e
  <2>2. Append(a \o l, e) = a \o Append(l, e)
    <3> DEFINE u == <<e>>
    <3>1. e \in Seq(Nat) /\ u \in Seq(Seq(Nat))
      BY <2>1 DEF e
    <3>2. Append(a \o l, e) = (a \o l) \o u /\ Append(l, e) = l \o u
      BY <1>1, <1>2, <3>1, AppendIsConcat
    <3> HIDE DEF u
    <3>3. u \in Seq(Seq(Nat)) /\ l \in Seq(Seq(Nat))
      BY <1>1, <3>1
    <3>4. (a \o l) \o u = a \o (l \o u)
      BY <3>3, ConcatAssociative
    <3> QED
      BY <3>2, <3>4
  <2> QED
    BY <1>3, <1>4, <2>2, SplitStepType DEF e
<1>5. CASE b # 0
  <2> DEFINE al == a \o l
             n == Len(l)
             e == Append(l[n], b)
             left == [al EXCEPT ![Len(al)] = Append(@, b)]
             right == [l EXCEPT ![n] = Append(@, b)]
  <2>1. e \in Seq(Nat)
    BY <1>1
  <2>2. al[Len(al)] = l[n] /\ Len(al) \in 1 .. Len(al) /\ n \in 1 .. n
    BY <1>1, <1>2, ConcatProperties
  <2> HIDE DEF e
  <2>3. left = [al EXCEPT ![Len(al)] = e] /\ right = [l EXCEPT ![n] = e]
    BY <2>2 DEF e
  <2>20. al \in Seq(Seq(Nat))
    BY <1>2
  <2> HIDE DEF left, right, al
  <2>4. /\ left \in Seq(Seq(Nat)) /\ Len(left) = Len(al)
        /\ \A j \in 1 .. Len(al) : left[j] = IF j = Len(al) THEN e ELSE al[j]
    BY <2>20, <2>1, <2>2, <2>3, ExceptSeq
  <2>5. /\ right \in Seq(Seq(Nat)) /\ Len(right) = n
        /\ \A j \in 1 .. n : right[j] = IF j = n THEN e ELSE l[j]
    BY <1>1, <2>1, <2>2, <2>3, ExceptSeq
  <2>6. /\ a \o right \in Seq(Seq(Nat)) /\ Len(a \o right) = Len(a) + n
        /\ \A j \in 1 .. Len(a) + n : (a \o right)[j] = IF j <= Len(a) THEN a[j] ELSE right[j - Len(a)]
    <3>1. /\ a \o right \in Seq(Seq(Nat)) /\ Len(a \o right) = Len(a) + Len(right)
          /\ \A j \in 1 .. Len(a) + Len(right) :
               (a \o right)[j] = IF j <= Len(a) THEN a[j] ELSE right[j - Len(a)]
      BY <2>5, ConcatProperties
    <3> QED
      BY <2>5, <3>1
  <2>7. \A j \in 1 .. Len(a) + n : al[j] = IF j <= Len(a) THEN a[j] ELSE l[j - Len(a)]
    BY <1>1, ConcatProperties DEF al
  <2>8. ASSUME NEW j \in 1 .. Len(left) PROVE left[j] = (a \o right)[j]
    <3>1. j \in 1 .. Len(a) + n /\ j \in 1 .. Len(al) /\ Len(al) = Len(a) + n
      BY <1>2, <2>4 DEF al
    <3>2. CASE j <= Len(a)
      BY <1>1, <2>4, <2>6, <2>7, <3>1, <3>2
    <3>3. CASE ~(j <= Len(a))
      <4>1. j - Len(a) \in 1 .. n /\ (j - Len(a) = n <=> j = Len(al))
        BY <1>1, <3>1, <3>3
      <4> QED
        BY <2>4, <2>5, <2>6, <2>7, <3>1, <3>3, <4>1
    <3> QED
      BY <3>2, <3>3
  <2>9. left = a \o right
    <3>1. Len(left) = Len(a \o right)
      BY <1>2, <2>4, <2>6 DEF al
    <3> QED
      BY <2>4, <2>6, <2>8, <3>1, SeqEqual
  <2>10. SplitStep[<<al, b>>] = left /\ SplitStep[<<l, b>>] = right
    BY <1>3, <1>5, SplitStepType DEF left, right, al
  <2> QED
    BY <1>3, <2>9, <2>10 DEF al
<1> QED
  BY <1>3, <1>4, <1>5

\* Lines are a first line and the others.
LEMMA LinesCons ==
    ASSUME NEW l \in Lines
    PROVE  Head(l) \in Seq(Nat) /\ Tail(l) \in Seq(Seq(Nat)) /\ l = <<Head(l)>> \o Tail(l)
<1>1. l \in Seq(Seq(Nat)) /\ l # <<>>
  BY DEF Lines
<1>2. Head(l) \in Seq(Nat) /\ Tail(l) \in Seq(Seq(Nat))
  BY <1>1, HeadTailProperties
<1> QED
  BY <1>1, <1>2

\* And are taken apart again.
LEMMA ConsHead ==
    ASSUME NEW h \in Seq(Nat), NEW t \in Seq(Seq(Nat))
    PROVE  <<h>> \o t \in Lines /\ Head(<<h>> \o t) = h /\ Tail(<<h>> \o t) = t
<1>1. <<h>> \in Seq(Seq(Nat)) /\ Len(<<h>>) = 1 /\ Len(t) \in Nat
  OBVIOUS
<1>2. <<h>> \o t \in Seq(Seq(Nat)) /\ Len(<<h>> \o t) = 1 + Len(t)
  BY <1>1, ConcatProperties
<1>3. <<h>> \o t # <<>>
  BY <1>1, <1>2
<1> DEFINE u == <<h>> \o t
<1>4. Head(u) = h
  BY <1>1, <1>2, <1>3
<1>5. \A i \in 1 .. Len(t) : u[i + 1] = t[i]
  BY <1>1, ConcatProperties
<1> HIDE DEF u
<1>6. u \in Seq(Seq(Nat)) /\ u # <<>> /\ Len(u) = 1 + Len(t)
  BY <1>2, <1>3 DEF u
<1>7. /\ Tail(u) \in Seq(Seq(Nat)) /\ Len(Tail(u)) = Len(u) - 1
      /\ \A i \in 1 .. Len(Tail(u)) : Tail(u)[i] = u[i + 1]
  BY <1>6, HeadTailProperties
<1>8. Len(Tail(u)) = Len(t)
  BY <1>1, <1>6, <1>7
<1>9. Tail(u) = t
  BY <1>5, <1>7, <1>8, SeqEqual
<1> QED
  BY <1>2, <1>3, <1>4, <1>9 DEF u, Lines

\* Append and concatenation.
LEMMA AppendConcat ==
    ASSUME NEW S, NEW a \in Seq(S), NEW s \in Seq(S), NEW e \in S
    PROVE  a \o Append(s, e) = Append(a \o s, e)
<1> DEFINE u == <<e>>
<1>1. u \in Seq(S)
  OBVIOUS
<1>2. a \o s \in Seq(S)
  BY ConcatProperties
<1>3. Append(s, e) = s \o u /\ Append(a \o s, e) = (a \o s) \o u
  BY <1>2, AppendIsConcat
<1> HIDE DEF u
<1>4. (a \o s) \o u = a \o (s \o u)
  BY <1>1, ConcatAssociative
<1> QED
  BY <1>3, <1>4

\* What p adds to r goes in front of the first line of r.
LEMMA SplitConcat ==
    ASSUME NEW p \in Seq(Nat), NEW r \in Seq(Nat)
    PROVE  Split(p \o r) = Split(p \o Head(Split(r))) \o Tail(Split(r))
<1> DEFINE T == {s \in Seq(Nat) : Split(p \o s) = Split(p \o Head(Split(s))) \o Tail(Split(s))}
<1>1. <<>> \in T
  <2>1. Head(Split(<<>>)) = <<>> /\ Tail(Split(<<>>)) = <<>>
    <3> DEFINE e == NoBytes
    <3>1. Split(<<>>) = <<e>>
      BY SplitEmpty
    <3> HIDE DEF e
    <3>2. Head(<<e>>) = e /\ Tail(<<e>>) = <<>>
      OBVIOUS
    <3> QED
      BY <3>1, <3>2 DEF e, NoBytes
  <2>2. p \o <<>> = p
    BY ConcatEmptySeq
  <2>3. Split(p) \in Seq(Seq(Nat))
    BY SplitType DEF Lines
  <2>4. Split(p) \o <<>> = Split(p)
    BY <2>3, ConcatEmptySeq
  <2>5. <<>> \in Seq(Nat)
    OBVIOUS
  <2> QED
    BY <2>1, <2>2, <2>4, <2>5
<1>2. ASSUME NEW s \in T, NEW b \in Nat PROVE Append(s, b) \in T
  <2>20. s \in Seq(Nat) /\ Append(s, b) \in Seq(Nat)
    OBVIOUS
  <2>21. Split(p \o s) = Split(p \o Head(Split(s))) \o Tail(Split(s))
    OBVIOUS
  <2> DEFINE L == Split(s)
             h == Head(L)
             t == Tail(L)
             ph == p \o h
             sb == Append(s, b)
  <2>1. s \in Seq(Nat) /\ sb \in Seq(Nat) /\ Split(p \o s) = Split(ph) \o t
    BY <2>20, <2>21
  <2>2. L \in Lines /\ h \in Seq(Nat) /\ t \in Seq(Seq(Nat)) /\ L = <<h>> \o t
    BY <2>1, SplitType, LinesCons
  <2> HIDE DEF L, h, t
  <2>3. p \o s \in Seq(Nat) /\ ph \in Seq(Nat)
    BY <2>1, <2>2, ConcatProperties
  <2>4. Split(ph) \in Lines
    BY <2>3, SplitType
  <2> HIDE DEF ph
  <2>5. Split(sb) = SplitStep[<<L, b>>]
    BY <2>1, SplitAppend DEF L
  <2>6. Split(p \o sb) = SplitStep[<<Split(ph) \o t, b>>]
    <3>1. p \o sb = Append(p \o s, b)
      BY <2>1, AppendConcat
    <3>2. Split(p \o sb) = SplitStep[<<Split(p \o s), b>>]
      BY <2>3, <3>1, SplitAppend
    <3> QED
      BY <2>1, <3>2
  <2>7. CASE t # <<>>
    <3>1. t \in Lines
      BY <2>2, <2>7 DEF Lines
    <3>2. SplitStep[<<t, b>>] \in Seq(Seq(Nat))
      BY <3>1, SplitStepType DEF Lines
    <3> DEFINE v == SplitStep[<<t, b>>]
               hs == <<h>>
    <3>3. hs \in Seq(Seq(Nat)) /\ Split(ph) \in Seq(Seq(Nat))
      BY <2>2, <2>4 DEF Lines
    <3>4. L = hs \o t
      BY <2>2
    <3> HIDE DEF hs
    <3>5. SplitStep[<<hs \o t, b>>] = hs \o v
      BY <3>1, <3>3, StepLast
    <3>6. SplitStep[<<Split(ph) \o t, b>>] = Split(ph) \o v
      BY <3>1, <3>3, StepLast
    <3>7. Head(Split(sb)) = h /\ Tail(Split(sb)) = v
      <4>1. v \in Seq(Seq(Nat))
        BY <3>2
      <4>2. Split(sb) = hs \o v
        BY <2>5, <3>4, <3>5
      <4> HIDE DEF v
      <4>3. Split(sb) = <<h>> \o v
        BY <4>2 DEF hs
      <4> QED
        BY <2>2, <4>1, <4>3, ConsHead
    <3> QED
      BY <2>1, <2>6, <3>6, <3>7 DEF ph
  <2>8. CASE t = <<>>
    <3>1. L = <<h>>
      BY <2>2, <2>8, ConcatEmptySeq
    <3>2. Split(ph) \o t = Split(ph)
      BY <2>4, <2>8, ConcatEmptySeq DEF Lines
    <3>3. CASE b = 0
      <4> DEFINE u == <<NoBytes>>
      <4>1. NoBytes \in Seq(Nat) /\ u \in Seq(Seq(Nat)) /\ L \in Seq(Seq(Nat))
        BY <2>2 DEF NoBytes, Lines
      <4>2. Head(Split(sb)) = h /\ Tail(Split(sb)) = u
        <5>1. Split(sb) = Append(L, NoBytes)
          BY <2>2, <2>5, <3>3, SplitStepType
        <5>2. Append(L, NoBytes) = L \o u
          BY <4>1, AppendIsConcat
        <5> HIDE DEF u
        <5>3. Split(sb) = <<h>> \o u
          BY <3>1, <5>1, <5>2
        <5> QED
          BY <2>2, <4>1, <5>3, ConsHead
      <4>3. Split(p \o sb) = Append(Split(ph), NoBytes)
        BY <2>4, <2>6, <3>2, <3>3, SplitStepType
      <4>4. Append(Split(ph), NoBytes) = Split(ph) \o <<NoBytes>>
        <5>1. Split(ph) \in Seq(Seq(Nat)) /\ NoBytes \in Seq(Nat)
          BY <2>4 DEF Lines, NoBytes
        <5> QED
          BY <5>1, AppendIsConcat
      <4> QED
        BY <2>1, <4>2, <4>3, <4>4 DEF ph
    <3>4. CASE b # 0
      <4> DEFINE hb == Append(h, b)
      <4>1. hb \in Seq(Nat)
        BY <2>2
      <4>2. Split(sb) = <<hb>>
        <5>1. Split(sb) = [L EXCEPT ![Len(L)] = Append(@, b)]
          BY <2>2, <2>5, <3>4, SplitStepType
        <5>2. Len(L) = 1 /\ L[1] = h
          BY <3>1
        <5> QED
          BY <3>1, <5>1, <5>2
      <4> HIDE DEF hb
      <4>3. Head(Split(sb)) = hb /\ Tail(Split(sb)) = <<>>
        BY <4>2
      <4>4. Split(p \o sb) = Split(Append(ph, b))
        BY <2>3, <2>6, <3>2, SplitAppend
      <4>5. Append(ph, b) = p \o hb
        <5>1. p \o Append(h, b) = Append(p \o h, b)
          BY <2>2, AppendConcat
        <5> QED
          BY <5>1 DEF ph, hb
      <4>6. p \o hb \in Seq(Nat)
        BY <4>1, ConcatProperties
      <4>7. Split(p \o hb) \o <<>> = Split(p \o hb)
        BY <4>6, SplitType, ConcatEmptySeq DEF Lines
      <4> QED
        BY <2>1, <4>3, <4>4, <4>5, <4>7
    <3> QED
      BY <3>3, <3>4
  <2> QED
    BY <2>7, <2>8
<1>3. T \in SUBSET Seq(Nat)
  OBVIOUS
<1> HIDE DEF T
<1>4. T = Seq(Nat)
  BY <1>1, <1>2, <1>3, SeqInduction
<1> QED
  BY <1>4 DEF T

\* Lines are kept or dropped each on its own.
LEMMA NonEmptyConcat ==
    ASSUME NEW a \in Seq(Seq(Nat)), NEW b \in Seq(Seq(Nat))
    PROVE  NonEmpty(a \o b) = NonEmpty(a) \o NonEmpty(b)
<1> DEFINE S == Seq(Nat)
           T == {s \in Seq(S) : NonEmpty(a \o s) = NonEmpty(a) \o NonEmpty(s)}
<1>0. NonEmpty(a) \in Seq(S)
  BY NonEmptyType
<1>1. <<>> \in T
  <2>1. a \o <<>> = a /\ NonEmpty(a) \o <<>> = NonEmpty(a)
    BY <1>0, ConcatEmptySeq
  <2>2. <<>> \in Seq(S)
    OBVIOUS
  <2> QED
    BY <2>1, <2>2, NonEmptyEmpty
<1>2. ASSUME NEW s \in T, NEW l \in S PROVE Append(s, l) \in T
  <2>1. s \in Seq(S) /\ Append(s, l) \in Seq(S) /\ NonEmpty(a \o s) = NonEmpty(a) \o NonEmpty(s)
    OBVIOUS
  <2>2. a \o s \in Seq(S) /\ a \o Append(s, l) = Append(a \o s, l)
    BY <2>1, ConcatProperties, AppendConcat
  <2>3. NonEmpty(Append(a \o s, l)) = IF l = NoBytes THEN NonEmpty(a \o s) ELSE Append(NonEmpty(a \o s), l)
    BY <2>2, NonEmptyAppend
  <2>4. NonEmpty(Append(s, l)) = IF l = NoBytes THEN NonEmpty(s) ELSE Append(NonEmpty(s), l)
    BY <2>1, NonEmptyAppend
  <2>5. NonEmpty(s) \in Seq(S)
    BY <2>1, NonEmptyType
  <2>6. NonEmpty(a) \o Append(NonEmpty(s), l) = Append(NonEmpty(a) \o NonEmpty(s), l)
    BY <1>0, <2>5, AppendConcat
  <2> QED
    BY <2>1, <2>2, <2>3, <2>4, <2>6
<1>3. T \in SUBSET Seq(S)
  OBVIOUS
<1> HIDE DEF T
<1>4. T = Seq(S)
  BY <1>1, <1>2, <1>3, SeqInduction
<1> QED
  BY <1>4 DEF T

\* The lines of an earlier page come after those of a later one.
LEMMA ReverseConcat ==
    ASSUME NEW S, NEW a \in Seq(S), NEW b \in Seq(S)
    PROVE  /\ Reverse(a) \in Seq(S) /\ Len(Reverse(a)) = Len(a)
           /\ Reverse(a \o b) = Reverse(b) \o Reverse(a)
<1>1. ASSUME NEW s \in Seq(S)
      PROVE  /\ Reverse(s) \in Seq(S) /\ Len(Reverse(s)) = Len(s)
             /\ \A i \in 1 .. Len(s) : Reverse(s)[i] = s[(Len(s) - i) + 1]
  <2>1. Len(s) \in Nat /\ \A i \in 1 .. Len(s) : s[(Len(s) - i) + 1] \in S
    OBVIOUS
  <2> QED
    BY <2>1 DEF Reverse
<1>2. a \o b \in Seq(S) /\ Len(a \o b) = Len(a) + Len(b) /\ Len(a) \in Nat /\ Len(b) \in Nat
  BY ConcatProperties
<1> DEFINE left == Reverse(a \o b)
           ra == Reverse(a)
           rb == Reverse(b)
           right == rb \o ra
<1>3. /\ ra \in Seq(S) /\ Len(ra) = Len(a) /\ rb \in Seq(S) /\ Len(rb) = Len(b)
      /\ \A i \in 1 .. Len(a) : ra[i] = a[(Len(a) - i) + 1]
      /\ \A i \in 1 .. Len(b) : rb[i] = b[(Len(b) - i) + 1]
  BY <1>1
<1>4. /\ left \in Seq(S) /\ Len(left) = Len(a) + Len(b)
      /\ \A i \in 1 .. Len(a) + Len(b) : left[i] = (a \o b)[((Len(a) + Len(b)) - i) + 1]
  <2>1. /\ left \in Seq(S) /\ Len(left) = Len(a \o b)
        /\ \A i \in 1 .. Len(a \o b) : left[i] = (a \o b)[(Len(a \o b) - i) + 1]
    BY <1>1, <1>2
  <2> QED
    BY <1>2, <2>1
<1> HIDE DEF ra, rb, left
<1>5. /\ right \in Seq(S) /\ Len(right) = Len(b) + Len(a)
      /\ \A i \in 1 .. Len(b) + Len(a) : right[i] = IF i <= Len(b) THEN rb[i] ELSE ra[i - Len(b)]
  <2>1. /\ right \in Seq(S) /\ Len(right) = Len(rb) + Len(ra)
        /\ \A i \in 1 .. Len(rb) + Len(ra) : right[i] = IF i <= Len(rb) THEN rb[i] ELSE ra[i - Len(rb)]
    <3>1. ra \in Seq(S) /\ rb \in Seq(S)
      BY <1>3
    <3> QED
      BY <3>1, ConcatProperties
  <2> QED
    BY <1>3, <2>1
<1> HIDE DEF right
<1>6. ASSUME NEW i \in 1 .. Len(left) PROVE left[i] = right[i]
  <2> DEFINE j == ((Len(a) + Len(b)) - i) + 1
  <2>1. i \in 1 .. Len(a) + Len(b) /\ j \in 1 .. Len(a) + Len(b) /\ i \in 1 .. Len(b) + Len(a)
    BY <1>2, <1>4
  <2>2. (a \o b)[j] = IF j <= Len(a) THEN a[j] ELSE b[j - Len(a)]
    BY <2>1, ConcatProperties
  <2>3. CASE i <= Len(b)
    <3>1. ~(j <= Len(a)) /\ j - Len(a) = (Len(b) - i) + 1 /\ i \in 1 .. Len(b)
      BY <1>2, <2>1, <2>3
    <3> QED
      BY <1>3, <1>4, <1>5, <2>1, <2>2, <2>3, <3>1
  <2>4. CASE ~(i <= Len(b))
    <3>1. j <= Len(a) /\ j = (Len(a) - (i - Len(b))) + 1 /\ i - Len(b) \in 1 .. Len(a)
      BY <1>2, <2>1, <2>4
    <3> QED
      BY <1>3, <1>4, <1>5, <2>1, <2>2, <2>4, <3>1
  <2> QED
    BY <2>3, <2>4
<1>7. Len(left) = Len(right)
  BY <1>2, <1>4, <1>5
<1>8. left = right
  BY <1>4, <1>5, <1>6, <1>7, SeqEqual
<1> QED
  BY <1>3, <1>8 DEF left, right, ra, rb

\* What is received stays in front.
LEMMA PrefixConcat ==
    ASSUME NEW S, NEW a \in Seq(S), NEW b \in Seq(S)
    PROVE  IsPrefix(a, a \o b)
<1>1. a \o b \in Seq(S) /\ Len(a \o b) = Len(a) + Len(b) /\ Len(a) \in Nat /\ Len(b) \in Nat
  BY ConcatProperties
<1>2. Len(a) <= Len(a \o b)
  BY <1>1
<1>3. SubSeq(a, 1, Len(a)) = SubSeq(a \o b, 1, Len(a))
  <2>1. CASE Len(a) = 0
    BY <2>1, SubSeqEmpty
  <2>2. CASE Len(a) # 0
    <3>1. 1 \in 1 .. Len(a) /\ Len(a) \in 1 .. Len(a)
      BY <1>1, <2>2
    <3> QED
      BY <3>1, SubSeqOfConcat1
  <2> QED
    BY <2>1, <2>2
<1> QED
  BY <1>2, <1>3 DEF IsPrefix

\* A longer file has no fewer lines.
LEMMA MoreLines ==
    ASSUME NEW p \in Seq(Nat), NEW r \in Seq(Nat)
    PROVE  Len(NonEmpty(Split(p))) <= Len(NonEmpty(Split(p \o r)))
<1> DEFINE N(s) == Len(NonEmpty(Split(p \o s)))
           T == {s \in Seq(Nat) : Len(NonEmpty(Split(p))) <= N(s)}
<1>0. ASSUME NEW s \in Seq(Nat) PROVE Len(NonEmpty(Split(s))) \in Nat
  <2>1. Split(s) \in Seq(Seq(Nat))
    BY SplitType DEF Lines
  <2>2. NonEmpty(Split(s)) \in Seq(Seq(Nat))
    BY <2>1, NonEmptyType
  <2> QED
    BY <2>2
<1>1. <<>> \in T
  <2>1. p \o <<>> = p
    BY ConcatEmptySeq
  <2>2. Len(NonEmpty(Split(p))) \in Nat
    BY <1>0
  <2>3. <<>> \in Seq(Nat)
    OBVIOUS
  <2> QED
    BY <2>1, <2>2, <2>3
<1>2. ASSUME NEW s \in T, NEW b \in Nat PROVE Append(s, b) \in T
  <2> DEFINE ps == p \o s
             L == Split(ps)
  <2>1. s \in Seq(Nat) /\ Append(s, b) \in Seq(Nat) /\ Len(NonEmpty(Split(p))) <= Len(NonEmpty(L))
    OBVIOUS
  <2>2. ps \in Seq(Nat) /\ p \o Append(s, b) = Append(ps, b)
    BY <2>1, ConcatProperties, AppendConcat
  <2>3. Split(Append(ps, b)) = SplitStep[<<L, b>>]
    BY <2>2, SplitAppend
  <2>4. L \in Lines
    BY <2>2, SplitType
  <2> HIDE DEF ps, L
  <2>5. PICK f \in Seq(Seq(Nat)), l \in Seq(Nat) : L = Append(f, l)
    BY <2>4, SequenceEmptyOrAppend DEF Lines
  <2> DEFINE u == <<l>>
  <2>6. u \in Lines /\ Append(f, l) = f \o u
    <3>1. u \in Seq(Seq(Nat)) /\ u # <<>>
      OBVIOUS
    <3> QED
      BY <3>1, AppendIsConcat DEF Lines
  <2>7. SplitStep[<<L, b>>] = f \o SplitStep[<<u, b>>]
    <3> HIDE DEF u
    <3> QED
      BY <2>5, <2>6, StepLast
  <2>8. NonEmpty(f) \in Seq(Seq(Nat)) /\ Len(NonEmpty(f)) \in Nat
    BY NonEmptyType
  <2>9. NonEmpty(L) = IF l = NoBytes THEN NonEmpty(f) ELSE Append(NonEmpty(f), l)
    BY <2>5, NonEmptyAppend
  <2>10. Len(NonEmpty(L)) <= Len(NonEmpty(SplitStep[<<L, b>>]))
    <3>1. CASE b = 0
      <4>1. SplitStep[<<L, b>>] = Append(L, NoBytes)
        BY <2>4, <3>1, SplitStepType
      <4>2. L \in Seq(Seq(Nat)) /\ NoBytes \in Seq(Nat)
        BY <2>4 DEF Lines, NoBytes
      <4>3. NonEmpty(SplitStep[<<L, b>>]) = NonEmpty(L)
        BY <4>1, <4>2, NonEmptyAppend
      <4>4. NonEmpty(L) \in Seq(Seq(Nat))
        BY <4>2, NonEmptyType
      <4>5. Len(NonEmpty(L)) \in Nat
        BY <4>4
      <4> QED
        BY <4>3, <4>5
    <3>2. CASE b # 0
      <4> DEFINE lb == Append(l, b)
      <4>1. SplitStep[<<u, b>>] = <<lb>>
        <5>1. SplitStep[<<u, b>>] = [u EXCEPT ![Len(u)] = Append(@, b)]
          BY <2>6, <3>2, SplitStepType
        <5>2. Len(u) = 1 /\ u[1] = l
          OBVIOUS
        <5> QED
          BY <5>1, <5>2
      <4>2. lb \in Seq(Nat) /\ lb # NoBytes
        <5>1. lb \in Seq(Nat) /\ lb # <<>>
          <6>1. lb \in Seq(Nat) /\ Len(lb) = Len(l) + 1 /\ Len(l) \in Nat
            OBVIOUS
          <6> HIDE DEF lb
          <6> QED
            BY <6>1
        <5> QED
          BY <5>1 DEF NoBytes
      <4> HIDE DEF lb
      <4>3. SplitStep[<<L, b>>] = Append(f, lb)
        BY <2>7, <4>1, <4>2, AppendIsConcat
      <4>4. NonEmpty(SplitStep[<<L, b>>]) = Append(NonEmpty(f), lb)
        BY <4>2, <4>3, NonEmptyAppend
      <4>5. Len(Append(NonEmpty(f), lb)) = Len(NonEmpty(f)) + 1
        BY <2>8, <4>2
      <4>6. Len(Append(NonEmpty(f), l)) = Len(NonEmpty(f)) + 1
        BY <2>8
      <4> QED
        BY <2>8, <2>9, <4>4, <4>5, <4>6
    <3> QED
      BY <3>1, <3>2
  <2>11. /\ Len(NonEmpty(Split(p))) \in Nat /\ Len(NonEmpty(L)) \in Nat
         /\ Len(NonEmpty(Split(Append(ps, b)))) \in Nat
    <3>1. Append(ps, b) \in Seq(Nat)
      BY <2>2
    <3> QED
      BY <1>0, <2>2, <3>1 DEF L
  <2>12. N(Append(s, b)) = Len(NonEmpty(SplitStep[<<L, b>>]))
    BY <2>2, <2>3
  <2>13. Len(NonEmpty(Split(p))) <= N(Append(s, b))
    BY <2>1, <2>2, <2>3, <2>10, <2>11
  <2> QED
    BY <2>1, <2>13
<1>3. T \in SUBSET Seq(Nat)
  OBVIOUS
<1> HIDE DEF T
<1>4. T = Seq(Nat)
  BY <1>1, <1>2, <1>3, SeqInduction
<1> QED
  BY <1>4 DEF T

\* A size is a number of whole pages and a remainder.
LEMMA Pages ==
    ASSUME NEW n \in Nat, NEW P \in Nat \ {0}
    PROVE  \E q \in Nat : n = q * P + (n % P)
<1>1. n = (n \div P) * P + (n % P)
  OBVIOUS
<1>2. n \div P \in Nat
  OBVIOUS
<1> QED
  BY <1>1, <1>2

\* q whole pages and r bytes more.
LEMMA PageRemainder ==
    ASSUME NEW q \in Nat, NEW r \in 0 .. PageSize - 1
    PROVE  (q * PageSize + r) % PageSize = r
<1> DEFINE a == q * PageSize + r
           d == a \div PageSize
<1>1. PageSize \in Nat \ {0} /\ q * PageSize \in Nat
  BY TailAssumption
<1>2. a \in Nat
  BY <1>1
<1> QED
  BY <1>1, <1>2

-----------------------------------------------------------------------------
(* Parts of a file. *)

\* A part of a file is a file.
LEMMA SubSeqType ==
    ASSUME NEW S, NEW s \in Seq(S), NEW m \in Int, NEW n \in Int, 1 <= m, n <= Len(s)
    PROVE  SubSeq(s, m, n) \in Seq(S) /\ Len(SubSeq(s, m, n)) = IF m <= n THEN n - m + 1 ELSE 0
<1>1. \A i \in m .. n : s[i] \in S
  OBVIOUS
<1> QED
  BY <1>1, SubSeqProperties

\* A part of what was seen is that part of the file.
LEMMA SubSeqPrefix ==
    ASSUME NEW S, NEW s \in Seq(S), NEW e \in 0 .. Len(s), NEW m \in Int, NEW n \in Int, 1 <= m, n <= e
    PROVE  SubSeq(SubSeq(s, 1, e), m, n) = SubSeq(s, m, n)
<1>1. CASE n < m
  BY <1>1, SubSeqEmpty
<1>2. CASE ~(n < m)
  <2>0. Len(s) \in Nat
    OBVIOUS
  <2>1. 1 \in 1 .. Len(s) /\ e \in 1 .. Len(s) /\ m \in 1 .. e - 1 + 1 /\ n \in 1 .. e - 1 + 1
    BY <1>2, <2>0
  <2>2. SubSeq(SubSeq(s, 1, e), m, n) = SubSeq(s, 1 + m - 1, 1 + n - 1)
    BY <2>1, SubSeqOfSubSeq
  <2>3. 1 + m - 1 = m /\ 1 + n - 1 = n
    OBVIOUS
  <2> QED
    BY <2>2, <2>3
<1> QED
  BY <1>1, <1>2

\* The job leaves what is there as it is.
LEMMA SubSeqAppend ==
    ASSUME NEW S, NEW s \in Seq(S), NEW e \in S, NEW n \in 0 .. Len(s)
    PROVE  SubSeq(Append(s, e), 1, n) = SubSeq(s, 1, n)
<1>1. CASE n = 0
  BY <1>1, SubSeqEmpty
<1>2. CASE n # 0
  <2> DEFINE u == <<e>>
  <2>1. u \in Seq(S) /\ Append(s, e) = s \o u
    BY AppendIsConcat
  <2> HIDE DEF u
  <2>2. 1 \in 1 .. Len(s) /\ n \in 1 .. Len(s)
    BY <1>2
  <2> QED
    BY <2>1, <2>2, SubSeqOfConcat1
<1> QED
  BY <1>1, <1>2

\* A number of pages that is not zero is at least one.
LEMMA OnePage ==
    ASSUME NEW k \in Nat
    PROVE  /\ k * PageSize \in Nat /\ (k + 1) * PageSize = k * PageSize + PageSize
           /\ k * PageSize > 0 => k * PageSize >= PageSize
<1>1. PageSize \in Nat \ {0}
  BY TailAssumption
<1>2. k * PageSize \in Nat /\ (k + 1) * PageSize = k * PageSize + PageSize
  BY <1>1
<1>3. ASSUME k # 0 PROVE k * PageSize >= PageSize
  <2>1. k - 1 \in Nat
    BY <1>3
  <2>2. (k - 1) * PageSize \in Nat /\ k * PageSize = (k - 1) * PageSize + PageSize
    BY <1>1, <2>1
  <2> QED
    BY <1>1, <2>2
<1>4. k = 0 => k * PageSize = 0
  BY <1>1
<1> QED
  BY <1>1, <1>2, <1>3, <1>4

-----------------------------------------------------------------------------
(* The invariant. *)

ReqSteps == {"open", "stat", "seek", "receive"} \cup Ended
GorSteps == {"idle", "read", "send", "last", "failed", "eof", "ended", "broken"}

TailTypeOK ==
    /\ file \in Seq(Nat) /\ appended \in Nat /\ tail \in Int
    /\ req \in ReqSteps /\ gor \in GorSteps /\ closed \in BOOLEAN
    /\ remainder \in Nat /\ start \in Nat /\ offset \in Int /\ size \in Nat
    /\ leftover \in Seq(Nat) /\ chunk \in Seq(Seq(Nat)) /\ tailLog \in Seq(Seq(Nat)) /\ seen \in Seq(Nat)

\* The file only grows, so what was seen of it is still there.
SeenInv == Len(seen) <= Len(file) /\ seen = SubSeq(file, 1, Len(seen))

\* The request and the goroutine.
StepsInv ==
    /\ req \in {"open", "stat", "seek"} => gor = "idle"
    /\ req \in {"receive", "lines"} => gor # "idle"
    /\ req = "seek" => remainder = size % PageSize /\ size <= Len(file)
    /\ req = "lines" => Len(tailLog) >= tail \/ closed
    /\ closed => gor \in {"ended", "broken"}
    /\ gor = "read" => chunk = <<>>
    /\ gor = "idle" => /\ start = 0 /\ offset = 0 /\ seen = <<>> /\ leftover = NoBytes
                       /\ chunk = <<>> /\ tailLog = <<>>

\* The pages end where the reader began, and the first of them was read to its
\* end or to an end of the file that is no earlier than at Stat.
PagesInv ==
    /\ \E k \in Nat : start = offset + k * PageSize
    /\ offset >= -PageSize
    /\ offset = start => seen = <<>>
    /\ offset < start =>
          start <= Len(seen) /\ (start + PageSize <= Len(seen) \/ size <= Len(seen))
    /\ gor \in {"last", "eof", "ended"} => offset < 0
    /\ gor # "idle" => remainder = size % PageSize /\ size <= Len(file) /\ start <= Len(file)
    /\ gor # "idle" => size <= start + remainder

\* What has been read so far, and the lines of it that are not received yet:
\* the first of them may go on in the page before.
Rest    == SubSeq(seen, offset + PageSize + 1, Len(seen))
Pending == CASE gor = "last"             -> chunk
             [] gor \in {"eof", "ended"} -> <<>>
             [] OTHER                    -> <<leftover>> \o chunk

LinesInv ==
    \E received \in Seq(Seq(Nat)) :
        Split(Rest) = Pending \o received /\ tailLog = Reverse(NonEmpty(received))

TailInv == TailTypeOK /\ SeenInv /\ StepsInv /\ PagesInv /\ LinesInv

\* The reader is where it began or at least a page before.
LEMMA PageBounds ==
    ASSUME TailTypeOK, PagesInv
    PROVE  /\ PageSize \in Nat \ {0} /\ offset <= start
           /\ offset < start => offset + PageSize <= start
<1>1. PageSize \in Nat \ {0} /\ start \in Nat /\ offset \in Int
  BY TailAssumption DEF TailTypeOK
<1>2. PICK k \in Nat : start = offset + k * PageSize
  BY DEF PagesInv
<1> QED
  BY <1>1, <1>2, OnePage

\* Where the page ends that is read next.
PageEnd == IF offset + PageSize < Len(file) THEN offset + PageSize ELSE Len(file)

\* A page is a part of the file and ends with it or is full.
LEMMA PageFacts ==
    ASSUME TailTypeOK, PagesInv, gor = "read", offset >= 0
    PROVE  /\ PageEnd \in offset .. Len(file) /\ Page = SubSeq(file, offset + 1, PageEnd)
           /\ Page \in Seq(Nat)
           /\ offset + PageSize <= PageEnd \/ PageEnd = Len(file)
<1>1. /\ file \in Seq(Nat) /\ Len(file) \in Nat /\ offset \in Int /\ start \in Nat
      /\ start <= Len(file)
  BY DEF TailTypeOK, PagesInv
<1>2. PageSize \in Nat \ {0} /\ offset <= start
  BY PageBounds
<1>3. PageEnd \in offset .. Len(file) /\ (offset + PageSize <= PageEnd \/ PageEnd = Len(file))
  BY <1>1, <1>2 DEF PageEnd
<1>4. Page = SubSeq(file, offset + 1, PageEnd)
  BY DEF Page, PageEnd
<1>5. Page \in Seq(Nat)
  <2>1. PageEnd \in Int /\ offset + 1 \in Int /\ 1 <= offset + 1 /\ PageEnd <= Len(file)
    BY <1>1, <1>3
  <2> QED
    BY <1>1, <1>4, <2>1, SubSeqType
<1> QED
  BY <1>3, <1>4, <1>5

\* The invariant holds at first.
LEMMA TailInitInv == TailInit => TailInv
<1> SUFFICES ASSUME TailInit PROVE TailInv
  OBVIOUS
<1>0. PageSize \in Nat \ {0} /\ MaxSize \in Nat
  BY TailAssumption
<1>1. file \in Seq(Nat)
  <2>1. PICK n \in 0 .. MaxSize : file \in [1 .. n -> 0 .. n]
    BY DEF TailInit, Files
  <2>2. n \in Nat /\ \A i \in 1 .. n : file[i] \in Nat
    BY <1>0, <2>1
  <2>3. file \in [1 .. n -> Nat]
    BY <2>1, <2>2
  <2> QED
    BY <2>2, <2>3
<1>2. TailTypeOK
  <2>1. tail \in Int
    BY TailAssumption DEF TailInit
  <2>2. <<>> \in Seq(Nat) /\ <<>> \in Seq(Seq(Nat))
    OBVIOUS
  <2>3. req \in ReqSteps /\ gor \in GorSteps /\ closed \in BOOLEAN
    BY DEF TailInit, ReqSteps, GorSteps, Ended
  <2> QED
    BY <1>1, <2>1, <2>2, <2>3 DEF TailInit, TailTypeOK, NoBytes
<1>3. SeenInv
  <2>1. seen = <<>> /\ Len(seen) = 0 /\ Len(file) \in Nat
    BY <1>1 DEF TailInit
  <2>2. SubSeq(file, 1, 0) = <<>>
    BY SubSeqEmpty
  <2> QED
    BY <2>1, <2>2 DEF SeenInv
<1>4. StepsInv
  BY DEF TailInit, StepsInv
<1>5. PagesInv
  <2>1. start = offset + 0 * PageSize /\ 0 \in Nat
    BY <1>0 DEF TailInit
  <2>2. \E k \in Nat : start = offset + k * PageSize
    BY <2>1
  <2> QED
    BY <1>0, <2>2 DEF TailInit, PagesInv
<1>6. LinesInv
  <2>1. Rest = <<>>
    <3>1. seen = <<>> /\ Len(seen) = 0 /\ offset = 0
      BY DEF TailInit
    <3> QED
      BY <1>0, <3>1, SubSeqEmpty DEF Rest
  <2>2. Pending = <<NoBytes>>
    BY DEF TailInit, Pending
  <2> DEFINE e == <<NoBytes>>
  <2>3. e \in Seq(Seq(Nat))
    BY SplitStepType DEF Lines
  <2> HIDE DEF e
  <2>4. Split(Rest) = Pending \o <<>>
    <3>1. Split(Rest) = e /\ Pending = e
      BY <2>1, <2>2, SplitEmpty DEF e
    <3> QED
      BY <2>3, <3>1, ConcatEmptySeq
  <2>5. tailLog = Reverse(NonEmpty(<<>>))
    <3>1. Reverse(<<>>) = <<>>
      BY DEF Reverse
    <3> QED
      BY <3>1, NonEmptyEmpty DEF TailInit
  <2>6. <<>> \in Seq(Seq(Nat))
    OBVIOUS
  <2> QED
    BY <2>4, <2>5, <2>6 DEF LinesInv
<1> QED
  BY <1>2, <1>3, <1>4, <1>5, <1>6 DEF TailInv

-----------------------------------------------------------------------------
(* Every step keeps the invariant. *)

\* Read: what is read goes in front of what has been read.
LEMMA ReadRest ==
    ASSUME TailInv, Read
    PROVE  /\ seen' \in Seq(Nat) /\ SeenInv' /\ Rest' = Page \o Rest
           /\ start <= Len(seen') /\ (start + PageSize <= Len(seen') \/ size <= Len(seen'))
<1>1. /\ gor = "read" /\ offset >= 0 /\ offset' = offset - PageSize /\ file' = file
      /\ seen' = IF seen = <<>> /\ offset = start THEN SubSeq(file, 1, offset) \o Page ELSE seen
  BY DEF Read, fileVars
<1>2. TailTypeOK /\ SeenInv /\ PagesInv
  BY DEF TailInv
<1>3. /\ file \in Seq(Nat) /\ Len(file) \in Nat /\ offset \in Int /\ start \in Nat /\ size \in Nat
      /\ seen \in Seq(Nat) /\ Len(seen) \in Nat
  BY <1>2 DEF TailTypeOK
<1>4. PageSize \in Nat \ {0} /\ offset <= start /\ (offset < start => offset + PageSize <= start)
  BY <1>2, PageBounds
<1>5. /\ PageEnd \in offset .. Len(file) /\ Page = SubSeq(file, offset + 1, PageEnd)
      /\ Page \in Seq(Nat)
      /\ offset + PageSize <= PageEnd \/ PageEnd = Len(file)
  BY <1>1, <1>2, PageFacts
<1>6. size <= Len(file) /\ start <= Len(file)
  BY <1>1, <1>2 DEF PagesInv
<1>20. offset >= 0 /\ file' = file
  BY <1>1
<1>7. Rest' = SubSeq(seen', offset + 1, Len(seen'))
  <2>1. offset' + PageSize + 1 = offset + 1
    BY <1>1, <1>3, <1>4
  <2> QED
    BY <2>1 DEF Rest
<1>8. CASE offset = start
  <2>1. seen = <<>> /\ Len(seen) = 0
    BY <1>2, <1>8 DEF PagesInv
  <2>2. Rest = <<>>
    <3>1. Len(seen) < offset + PageSize + 1 /\ offset + PageSize + 1 \in Int
      BY <1>1, <1>3, <1>4, <2>1
    <3> QED
      BY <1>3, <3>1, SubSeqEmpty DEF Rest
  <2>3. seen' = SubSeq(file, 1, PageEnd)
    <3>1. 1 \in 1 .. Len(file) + 1 /\ offset \in 1 - 1 .. Len(file) /\ PageEnd \in offset .. Len(file)
      BY <1>20, <1>3, <1>5
    <3>2. SubSeq(file, 1, offset) \o SubSeq(file, offset + 1, PageEnd) = SubSeq(file, 1, PageEnd)
      BY <1>3, <3>1, ConcatAdjacentSubSeq
    <3> QED
      BY <1>1, <1>5, <1>8, <2>1, <3>2
  <2>4. PageEnd \in 0 .. Len(file) /\ PageEnd \in Int
    BY <1>20, <1>3, <1>5
  <2>5. seen' \in Seq(Nat) /\ Len(seen') = PageEnd
    <3>1. /\ SubSeq(file, 1, PageEnd) \in Seq(Nat)
          /\ Len(SubSeq(file, 1, PageEnd)) = IF 1 <= PageEnd THEN PageEnd - 1 + 1 ELSE 0
      BY <1>3, <2>4, SubSeqType
    <3> QED
      BY <2>3, <2>4, <3>1
  <2>6. SeenInv'
    <3>1. Len(seen') <= Len(file) /\ seen' = SubSeq(file, 1, Len(seen'))
      BY <1>3, <2>3, <2>4, <2>5
    <3> QED
      BY <1>20, <3>1 DEF SeenInv
  <2>7. Rest' = Page
    <3>1. 1 <= offset + 1 /\ offset + 1 \in Int
      BY <1>1, <1>3
    <3>2. SubSeq(SubSeq(file, 1, PageEnd), offset + 1, PageEnd) = SubSeq(file, offset + 1, PageEnd)
      BY <1>3, <2>4, <3>1, SubSeqPrefix
    <3> QED
      BY <1>5, <1>7, <2>3, <2>5, <3>2
  <2>8. Page \o Rest = Page
    BY <1>5, <2>2, ConcatEmptySeq
  <2> QED
    <3>1. start <= PageEnd /\ (start + PageSize <= PageEnd \/ size <= PageEnd)
      BY <1>3, <1>4, <1>5, <1>6, <1>8, <2>4
    <3> QED
      BY <2>5, <2>6, <2>7, <2>8, <3>1
<1>9. CASE offset # start
  <2>1. seen' = seen /\ offset < start /\ offset + PageSize <= start
    BY <1>1, <1>3, <1>4, <1>9
  <2>2. start <= Len(seen) /\ (start + PageSize <= Len(seen) \/ size <= Len(seen))
    BY <1>2, <2>1 DEF PagesInv
  <2>3. SeenInv' /\ Len(seen) <= Len(file) /\ seen = SubSeq(file, 1, Len(seen))
    BY <1>1, <1>2, <2>1 DEF SeenInv
  <2>4. PageEnd = offset + PageSize
    BY <1>3, <1>4, <2>1, <2>2, <2>3 DEF PageEnd
  <2>5. Page = SubSeq(seen, offset + 1, offset + PageSize)
    <3>1. /\ Len(seen) \in 0 .. Len(file) /\ offset + 1 \in Int /\ offset + PageSize \in Int
          /\ 1 <= offset + 1 /\ offset + PageSize <= Len(seen)
      BY <1>20, <1>3, <1>4, <2>1, <2>2, <2>3
    <3>2. SubSeq(SubSeq(file, 1, Len(seen)), offset + 1, offset + PageSize)
            = SubSeq(file, offset + 1, offset + PageSize)
      BY <1>3, <3>1, SubSeqPrefix
    <3> QED
      BY <1>5, <2>3, <2>4, <3>2
  <2>6. Page \o Rest = SubSeq(seen, offset + 1, Len(seen))
    <3> DEFINE m == offset + 1
               k == offset + PageSize
               n == Len(seen)
    <3>1. m \in 1 .. Len(seen) + 1 /\ k \in m - 1 .. Len(seen) /\ n \in k .. Len(seen)
      BY <1>1, <1>3, <1>4, <2>1, <2>2
    <3>2. Rest = SubSeq(seen, k + 1, n)
      BY DEF Rest
    <3>3. Page = SubSeq(seen, m, k)
      BY <2>5
    <3> HIDE DEF m, k, n
    <3>4. SubSeq(seen, m, k) \o SubSeq(seen, k + 1, n) = SubSeq(seen, m, n)
      BY <1>3, <3>1, ConcatAdjacentSubSeq
    <3> QED
      BY <3>2, <3>3, <3>4 DEF m, n
  <2>7. Rest' = SubSeq(seen, offset + 1, Len(seen))
    BY <1>7, <2>1
  <2> QED
    BY <1>3, <2>1, <2>2, <2>3, <2>6, <2>7
<1> QED
  BY <1>8, <1>9

\* Read: the lines of the page are pending.
LEMMA ReadInv == TailInv /\ Read => TailInv'
<1> SUFFICES ASSUME TailInv, Read PROVE TailInv'
  OBVIOUS
<1> DEFINE line == Split(Page \o leftover)
<1>1. /\ gor = "read" /\ offset >= 0 /\ offset' = offset - PageSize
      /\ leftover' = Head(line) /\ chunk' = Tail(line)
      /\ gor' = IF Len(line) > 1 THEN "send" ELSE "read"
      /\ UNCHANGED <<file, appended, tail, req, handle, remainder, start, closed, tailLog, size>>
  BY DEF Read, fileVars
<1>2. TailTypeOK /\ SeenInv /\ StepsInv /\ PagesInv /\ LinesInv
  BY DEF TailInv
<1>3. /\ seen' \in Seq(Nat) /\ SeenInv' /\ Rest' = Page \o Rest
      /\ start <= Len(seen') /\ (start + PageSize <= Len(seen') \/ size <= Len(seen'))
  BY ReadRest
<1>4. Page \in Seq(Nat) /\ leftover \in Seq(Nat)
  BY <1>1, <1>2, PageFacts DEF TailTypeOK
<1>5. /\ line \in Lines /\ Head(line) \in Seq(Nat) /\ Tail(line) \in Seq(Seq(Nat))
      /\ line = <<Head(line)>> \o Tail(line)
  <2>1. Page \o leftover \in Seq(Nat)
    BY <1>4, ConcatProperties
  <2>2. line \in Lines
    BY <2>1, SplitType
  <2> HIDE DEF line
  <2> QED
    BY <2>2, LinesCons
<1>6. TailTypeOK'
  <2>1. gor' \in GorSteps
    BY <1>1 DEF GorSteps
  <2>2. leftover' \in Seq(Nat) /\ chunk' \in Seq(Seq(Nat))
    BY <1>1, <1>5
  <2>3. offset' \in Int
    BY <1>1, <1>2, TailAssumption DEF TailTypeOK
  <2> HIDE DEF line
  <2> QED
    BY <1>1, <1>2, <1>3, <2>1, <2>2, <2>3 DEF TailTypeOK
<1>7. StepsInv'
  <2>1. gor' = "read" => chunk' = <<>>
    <3>1. line \in Seq(Seq(Nat)) /\ line # <<>> /\ Len(line) \in Nat
      BY <1>5 DEF Lines
    <3> HIDE DEF line
    <3>2. Len(Tail(line)) = Len(line) - 1 /\ Tail(line) \in Seq(Seq(Nat))
      BY <3>1, HeadTailProperties
    <3>3. gor' = "read" => ~(Len(line) > 1)
      BY <1>1
    <3>4. ~(Len(line) > 1) => Len(Tail(line)) = 0
      BY <3>1, <3>2
    <3> QED
      BY <1>1, <3>2, <3>3, <3>4, EmptySeq
  <2>2. gor' \in {"read", "send"}
    BY <1>1
  <2> HIDE DEF line
  <2> QED
    BY <1>1, <1>2, <2>1, <2>2 DEF StepsInv
<1>8. PagesInv'
  <2>0. PageSize \in Nat \ {0} /\ offset \in Int /\ start \in Nat
    BY <1>2, TailAssumption DEF TailTypeOK
  <2>1. \E k \in Nat : start' = offset' + k * PageSize
    <3>1. PICK k \in Nat : start = offset + k * PageSize
      BY <1>2 DEF PagesInv
    <3>2. k + 1 \in Nat /\ k * PageSize \in Nat /\ (k + 1) * PageSize = k * PageSize + PageSize
      BY OnePage
    <3>3. start' = offset' + (k + 1) * PageSize
      BY <1>1, <2>0, <3>1, <3>2
    <3> QED
      BY <3>2, <3>3
  <2>2. offset' >= -PageSize /\ offset' < start'
    <3>1. offset <= start
      BY <1>2, PageBounds
    <3> QED
      BY <1>1, <2>0, <3>1
  <2>3. gor' \notin {"last", "eof", "ended"} /\ gor # "idle"
    BY <1>1
  <2>4. offset' # start'
    BY <1>1, <2>0, <2>2
  <2> HIDE DEF line
  <2> QED
    BY <1>1, <1>2, <1>3, <2>1, <2>2, <2>3, <2>4 DEF PagesInv
<1>9. LinesInv'
  <2>1. PICK received \in Seq(Seq(Nat)) :
          Split(Rest) = Pending \o received /\ tailLog = Reverse(NonEmpty(received))
    BY <1>2 DEF LinesInv
  <2>2. Split(Rest) = <<leftover>> \o received
    <3> DEFINE u == <<leftover>>
    <3>1. chunk = <<>> /\ Pending = u \o chunk
      BY <1>1, <1>2 DEF StepsInv, Pending
    <3>2. u \in Seq(Seq(Nat))
      BY <1>4
    <3> HIDE DEF u
    <3>3. Pending = u
      BY <3>1, <3>2, ConcatEmptySeq
    <3> QED
      BY <2>1, <3>3 DEF u
  <2>3. Head(Split(Rest)) = leftover /\ Tail(Split(Rest)) = received
    BY <1>4, <2>2, ConsHead
  <2>4. Rest \in Seq(Nat)
    <3>1. /\ offset \in Int /\ PageSize \in Nat /\ seen \in Seq(Nat) /\ Len(seen) \in Nat
          /\ Len(seen) <= Len(seen)
      BY <1>2, TailAssumption DEF TailTypeOK
    <3>2. offset + PageSize + 1 \in Int /\ 1 <= offset + PageSize + 1 /\ Len(seen) \in Int
      BY <1>1, <3>1
    <3> QED
      BY <3>1, <3>2, SubSeqType DEF Rest
  <2>5. Split(Rest') = line \o received
    BY <1>3, <1>4, <2>3, <2>4, SplitConcat
  <2>6. Pending' = line
    <3>1. gor' \in {"read", "send"}
      BY <1>1
    <3>2. Pending' = <<leftover'>> \o chunk'
      BY <3>1 DEF Pending
    <3> HIDE DEF line
    <3> QED
      BY <1>1, <1>5, <3>2
  <2> HIDE DEF line
  <2>7. Split(Rest)' = Pending' \o received /\ tailLog' = Reverse(NonEmpty(received))
    BY <1>1, <2>1, <2>5, <2>6
  <2> QED
    BY <2>7 DEF LinesInv
<1> QED
  BY <1>3, <1>6, <1>7, <1>8, <1>9 DEF TailInv

\* LinesInv of a step that reads and sends nothing.
LEMMA LinesKept ==
    ASSUME LinesInv, Rest' = Rest, Pending' = Pending, tailLog' = tailLog
    PROVE  LinesInv'
<1>1. PICK received \in Seq(Seq(Nat)) :
        Split(Rest) = Pending \o received /\ tailLog = Reverse(NonEmpty(received))
  BY DEF LinesInv
<1>2. Split(Rest)' = Split(Rest')
  OBVIOUS
<1>3. Split(Rest)' = Pending' \o received /\ tailLog' = Reverse(NonEmpty(received))
  BY <1>1, <1>2
<1> QED
  BY <1>3 DEF LinesInv

\* JobAppends: no part of the file changes.
LEMMA JobAppendsInv == TailInv /\ JobAppends => TailInv'
<1> SUFFICES ASSUME TailInv, JobAppends PROVE TailInv'
  OBVIOUS
<1>1. /\ UNCHANGED <<tail, req, handle, gor, remainder, start, offset, leftover, chunk,
                  closed, size, seen, tailLog>>
      /\ appended' = appended + 1
  BY DEF JobAppends, readVars
<1>2. TailTypeOK /\ SeenInv /\ StepsInv /\ PagesInv /\ LinesInv
  BY DEF TailInv
<1>3. /\ file \in Seq(Nat) /\ Len(file) \in Nat /\ size \in Nat /\ start \in Nat
      /\ Len(seen) \in Nat /\ appended \in Nat
  BY <1>2 DEF TailTypeOK
<1>4. PICK b \in {0, Len(file) + 1} : file' = Append(file, b)
  BY DEF JobAppends
<1>5. b \in Nat
  BY <1>3
<1>6. file' \in Seq(Nat) /\ Len(file') = Len(file) + 1
  BY <1>3, <1>4, <1>5
<1>7. TailTypeOK'
  <2>1. appended' \in Nat
    BY <1>1, <1>3
  <2> QED
    BY <1>1, <1>2, <1>6, <2>1 DEF TailTypeOK
<1>8. SeenInv'
  <2>1. Len(seen) \in 0 .. Len(file) /\ seen = SubSeq(file, 1, Len(seen))
    BY <1>2, <1>3 DEF SeenInv
  <2>2. SubSeq(Append(file, b), 1, Len(seen)) = SubSeq(file, 1, Len(seen))
    BY <1>3, <1>5, <2>1, SubSeqAppend
  <2>3. Len(seen) <= Len(file')
    BY <1>3, <1>6, <2>1
  <2> QED
    BY <1>1, <1>4, <2>1, <2>2, <2>3 DEF SeenInv
<1>9. size <= Len(file) => size <= Len(file')
  BY <1>3, <1>6
<1>10. start <= Len(file) => start <= Len(file')
  BY <1>3, <1>6
<1>11. StepsInv'
  BY <1>1, <1>2, <1>9 DEF StepsInv
<1>12. PagesInv'
  BY <1>1, <1>2, <1>9, <1>10 DEF PagesInv
<1>13. LinesInv'
  BY <1>1, <1>2, LinesKept DEF Rest, Pending
<1> QED
  BY <1>7, <1>8, <1>11, <1>12, <1>13 DEF TailInv

\* A step of the request alone.
LEMMA RequestStepInv ==
    ASSUME TailInv, UNCHANGED <<fileVars, tail, readVars, tailLog>>, req' \in ReqSteps,
           req' \in {"open", "stat", "seek"} => gor = "idle",
           req' \in {"receive", "lines"} => gor # "idle",
           req' # "seek",
           req' = "lines" => Len(tailLog) >= tail \/ closed
    PROVE  TailInv'
<1>1. UNCHANGED <<file, appended, tail, gor, remainder, start, offset, leftover, chunk,
                  closed, size, seen, tailLog>>
  BY DEF fileVars, readVars
<1>2. TailTypeOK /\ SeenInv /\ StepsInv /\ PagesInv /\ LinesInv
  BY DEF TailInv
<1>3. TailTypeOK'
  BY <1>1, <1>2 DEF TailTypeOK
<1>4. SeenInv'
  BY <1>1, <1>2 DEF SeenInv
<1>5. StepsInv'
  BY <1>1, <1>2 DEF StepsInv
<1>6. PagesInv'
  BY <1>1, <1>2 DEF PagesInv
<1>7. LinesInv'
  BY <1>1, <1>2, LinesKept DEF Rest, Pending
<1> QED
  BY <1>3, <1>4, <1>5, <1>6, <1>7 DEF TailInv

\* Stat: the size is the file's.
LEMMA StatInv == TailInv /\ Stat => TailInv'
<1> SUFFICES ASSUME TailInv, Stat PROVE TailInv'
  OBVIOUS
<1>1. /\ req = "stat" /\ req' = "seek" /\ remainder' = Len(file) % PageSize /\ size' = Len(file)
      /\ UNCHANGED <<file, appended, tail, gor, start, offset, leftover, chunk, closed, seen, tailLog>>
  BY DEF Stat, fileVars
<1>2. TailTypeOK /\ SeenInv /\ StepsInv /\ PagesInv /\ LinesInv
  BY DEF TailInv
<1>3. gor = "idle"
  BY <1>1, <1>2 DEF StepsInv
<1>4. Len(file) \in Nat /\ Len(file) % PageSize \in Nat
  BY <1>2, TailAssumption DEF TailTypeOK
<1>5. TailTypeOK'
  <2>1. req' \in ReqSteps
    BY <1>1 DEF ReqSteps
  <2> QED
    BY <1>1, <1>2, <1>4, <2>1 DEF TailTypeOK
<1>6. SeenInv'
  BY <1>1, <1>2 DEF SeenInv
<1>7. StepsInv'
  <2>1. size' <= Len(file') /\ remainder' = size' % PageSize
    BY <1>1, <1>4
  <2> QED
    BY <1>1, <1>2, <1>3, <2>1 DEF StepsInv
<1>8. PagesInv'
  <2>1. offset = 0 /\ start = 0
    BY <1>2, <1>3 DEF StepsInv
  <2>2. ~(offset < start)
    BY <2>1
  <2> QED
    BY <1>1, <1>2, <1>3, <2>2 DEF PagesInv
<1>9. LinesInv'
  BY <1>1, <1>2, LinesKept DEF Rest, Pending
<1> QED
  BY <1>5, <1>6, <1>7, <1>8, <1>9 DEF TailInv

\* Seek: nothing is read yet, wherever the reader begins.
LEMMA SeekInv == TailInv /\ Seek => TailInv'
<1> SUFFICES ASSUME TailInv, Seek PROVE TailInv'
  OBVIOUS
<1>1. /\ req = "seek" /\ req' = "receive" /\ gor' = "read"
      /\ start' = (IF Len(file) - remainder < 0 THEN 0 ELSE Len(file) - remainder) /\ offset' = start'
      /\ UNCHANGED <<file, appended, tail, remainder, leftover, chunk, closed, tailLog, size, seen>>
  BY DEF Seek, fileVars
<1>2. TailTypeOK /\ SeenInv /\ StepsInv /\ PagesInv /\ LinesInv
  BY DEF TailInv
<1>3. /\ gor = "idle" /\ seen = <<>> /\ chunk = <<>> /\ ~(gor \in {"ended", "broken"})
      /\ remainder = size % PageSize /\ size <= Len(file) /\ offset = 0
  BY <1>1, <1>2 DEF StepsInv
<1>4. Len(file) \in Nat /\ remainder \in Nat /\ size \in Nat /\ PageSize \in Nat \ {0}
  BY <1>2, TailAssumption DEF TailTypeOK
<1>5. PICK o \in Nat : start' = o /\ offset' = o /\ o <= Len(file)
  <2>1. start' \in Nat /\ start' <= Len(file)
    BY <1>1, <1>4
  <2> QED
    BY <1>1, <2>1
<1>6. TailTypeOK'
  <2>1. req' \in ReqSteps /\ gor' \in GorSteps
    BY <1>1 DEF ReqSteps, GorSteps
  <2>2. start' \in Nat /\ offset' \in Int
    BY <1>5
  <2> QED
    BY <1>1, <1>2, <2>1, <2>2 DEF TailTypeOK
<1>7. SeenInv'
  BY <1>1, <1>2 DEF SeenInv
<1>8. StepsInv'
  <2>1. ~closed
    BY <1>2, <1>3 DEF StepsInv
  <2> QED
    BY <1>1, <1>3, <2>1 DEF StepsInv
<1>9. PagesInv'
  <2>1. start' = offset' + 0 * PageSize /\ 0 \in Nat
    <3>1. o = o + 0 * PageSize
      BY <1>4
    <3> QED
      BY <1>5, <3>1
  <2>2. \E k \in Nat : start' = offset' + k * PageSize
    BY <2>1
  <2>3. offset' >= -PageSize /\ ~(offset' < start')
    BY <1>4, <1>5
  <2>4. start' <= Len(file')
    BY <1>1, <1>5
  <2>5. size' <= start' + remainder'
    <3>1. o >= Len(file) - remainder
      BY <1>1, <1>4, <1>5
    <3>2. size <= o + remainder
      BY <1>3, <1>4, <3>1
    <3> QED
      BY <1>1, <1>5, <3>2
  <2> QED
    BY <1>1, <1>3, <2>2, <2>3, <2>4, <2>5 DEF PagesInv
<1>10. LinesInv'
  <2>1. Rest = <<>> /\ Rest' = <<>>
    <3>1. Len(seen) = 0 /\ Len(seen) < offset + PageSize + 1 /\ offset + PageSize + 1 \in Int
      BY <1>3, <1>4
    <3>2. Len(seen) < offset' + PageSize + 1 /\ offset' + PageSize + 1 \in Int
      <4>1. 0 < o + PageSize + 1 /\ o + PageSize + 1 \in Int
        BY <1>4
      <4> QED
        BY <1>5, <3>1, <4>1
    <3>3. SubSeq(seen, offset + PageSize + 1, Len(seen)) = <<>>
      BY <3>1, SubSeqEmpty
    <3>4. SubSeq(seen, offset' + PageSize + 1, Len(seen)) = <<>>
      BY <3>1, <3>2, SubSeqEmpty
    <3> QED
      BY <1>1, <3>3, <3>4 DEF Rest
  <2>2. Pending' = Pending
    BY <1>1, <1>3 DEF Pending
  <2> QED
    BY <1>1, <1>2, <2>1, <2>2, LinesKept
<1> QED
  BY <1>6, <1>7, <1>8, <1>9, <1>10 DEF TailInv

\* A step of the goroutine that changes neither the lines nor the pages.
LEMMA GoroutineStepInv ==
    ASSUME TailInv,
           UNCHANGED <<file, appended, tail, req, remainder, start, offset, leftover, tailLog, size, seen>>,
           gor # "idle", gor' \in GorSteps \ {"idle", "read"}, chunk' \in Seq(Seq(Nat)), closed' \in BOOLEAN,
           closed => closed', closed' => gor' \in {"ended", "broken"},
           gor' \in {"last", "eof", "ended"} => offset < 0,
           Pending' = Pending
    PROVE  TailInv'
<1>2. TailTypeOK /\ SeenInv /\ StepsInv /\ PagesInv /\ LinesInv
  BY DEF TailInv
<1>3. TailTypeOK'
  BY <1>2 DEF TailTypeOK
<1>4. SeenInv'
  BY <1>2 DEF SeenInv
<1>5. StepsInv'
  BY <1>2 DEF StepsInv
<1>6. PagesInv'
  BY <1>2 DEF PagesInv
<1>7. LinesInv'
  BY <1>2, LinesKept DEF Rest
<1> QED
  BY <1>3, <1>4, <1>5, <1>6, <1>7 DEF TailInv

\* Send: pending lines are received.
LEMMA SendInv == TailInv /\ Send => TailInv'
<1> SUFFICES ASSUME TailInv, Send PROVE TailInv'
  OBVIOUS
<1>1. /\ gor \in {"send", "last"} /\ req = "receive" /\ tailLog' = tailLog \o Reverse(NonEmpty(chunk))
      /\ req' = (IF Len(tailLog') >= tail THEN "lines" ELSE "receive")
      /\ gor' = (IF gor = "send" THEN "read" ELSE "eof") /\ chunk' = <<>>
      /\ UNCHANGED <<file, appended, tail, remainder, start, offset, leftover, closed, size, seen>>
  BY DEF Send, fileVars
<1>2. TailTypeOK /\ SeenInv /\ StepsInv /\ PagesInv /\ LinesInv
  BY DEF TailInv
<1>3. chunk \in Seq(Seq(Nat)) /\ tailLog \in Seq(Seq(Nat)) /\ leftover \in Seq(Nat)
  BY <1>2 DEF TailTypeOK
<1>4. NonEmpty(chunk) \in Seq(Seq(Nat))
  BY <1>3, NonEmptyType
<1>5. Reverse(NonEmpty(chunk)) \in Seq(Seq(Nat))
  BY <1>4, ReverseConcat
<1>6. TailTypeOK'
  <2>1. tailLog' \in Seq(Seq(Nat))
    BY <1>1, <1>3, <1>5, ConcatProperties
  <2>2. req' \in ReqSteps /\ gor' \in GorSteps
    BY <1>1 DEF ReqSteps, GorSteps, Ended
  <2>3. <<>> \in Seq(Seq(Nat))
    OBVIOUS
  <2> QED
    BY <1>1, <1>2, <2>1, <2>2, <2>3 DEF TailTypeOK
<1>7. SeenInv'
  BY <1>1, <1>2 DEF SeenInv
<1>8. StepsInv'
  <2>1. ~closed /\ gor' \notin {"idle", "ended", "broken"} /\ req' \in {"receive", "lines"}
    BY <1>1, <1>2 DEF StepsInv
  <2>2. req' = "lines" => Len(tailLog') >= tail'
    BY <1>1
  <2> QED
    BY <1>1, <2>1, <2>2 DEF StepsInv
<1>9. PagesInv'
  <2>1. gor' \in {"last", "eof", "ended"} => gor = "last"
    BY <1>1
  <2>2. gor # "idle"
    BY <1>1
  <2> QED
    BY <1>1, <1>2, <2>1, <2>2 DEF PagesInv
<1>10. LinesInv'
  <2>1. PICK received \in Seq(Seq(Nat)) :
          Split(Rest) = Pending \o received /\ tailLog = Reverse(NonEmpty(received))
    BY <1>2 DEF LinesInv
  <2> DEFINE more == chunk \o received
  <2>2. more \in Seq(Seq(Nat))
    BY <1>3, <2>1, ConcatProperties
  <2>3. tailLog' = Reverse(NonEmpty(more))
    <3>1. NonEmpty(more) = NonEmpty(chunk) \o NonEmpty(received)
      BY <1>3, <2>1, NonEmptyConcat
    <3>2. NonEmpty(received) \in Seq(Seq(Nat))
      BY <2>1, NonEmptyType
    <3>3. Reverse(NonEmpty(chunk) \o NonEmpty(received))
            = Reverse(NonEmpty(received)) \o Reverse(NonEmpty(chunk))
      BY <1>4, <3>2, ReverseConcat
    <3> QED
      BY <1>1, <2>1, <3>1, <3>3
  <2>4. Split(Rest) = Pending' \o more
    <3>1. CASE gor = "send"
      <4> DEFINE u == <<leftover>>
      <4>1. u \in Seq(Seq(Nat)) /\ Pending = u \o chunk /\ Pending' = u \o <<>>
        BY <1>1, <1>3, <3>1 DEF Pending
      <4> HIDE DEF u
      <4>2. Pending' = u
        BY <4>1, ConcatEmptySeq
      <4>3. (u \o chunk) \o received = u \o (chunk \o received)
        <5>1. chunk \in Seq(Seq(Nat)) /\ received \in Seq(Seq(Nat)) /\ u \in Seq(Seq(Nat))
          BY <1>3, <2>1, <4>1
        <5> QED
          BY <5>1, ConcatAssociative
      <4> QED
        BY <2>1, <4>1, <4>2, <4>3
    <3>2. CASE gor = "last"
      <4>1. Pending = chunk /\ Pending' = <<>>
        BY <1>1, <3>2 DEF Pending
      <4>2. <<>> \o more = more
        BY <2>2, ConcatEmptySeq
      <4> QED
        BY <2>1, <4>1, <4>2
    <3> QED
      BY <1>1, <3>1, <3>2
  <2>5. Rest' = Rest
    BY <1>1 DEF Rest
  <2> HIDE DEF more
  <2>6. Split(Rest)' = Pending' \o more
    BY <2>4, <2>5
  <2> QED
    BY <2>2, <2>3, <2>6 DEF LinesInv
<1> QED
  BY <1>6, <1>7, <1>8, <1>9, <1>10 DEF TailInv

\* Every step.
LEMMA TailStepInv == TailInv /\ [TailNext]_tailVars => TailInv'
<1> SUFFICES ASSUME TailInv, [TailNext]_tailVars PROVE TailInv'
  OBVIOUS
<1>0. TailTypeOK /\ StepsInv /\ PagesInv
  BY DEF TailInv
<1>1. CASE JobAppends
  BY <1>1, JobAppendsInv
<1>2. CASE GetContainerLogs
  <2>1. req = "open" /\ UNCHANGED <<fileVars, tail, readVars, tailLog>>
    BY <1>2 DEF GetContainerLogs
  <2>2. req' \in {"all", "none", "stat", "error"}
    BY <1>0, <1>2 DEF GetContainerLogs, TailTypeOK
  <2>3. req' \in ReqSteps /\ req' \notin {"receive", "lines", "seek"}
    BY <2>2 DEF ReqSteps, Ended
  <2>4. gor = "idle"
    BY <1>0, <2>1 DEF StepsInv
  <2> QED
    BY <2>1, <2>3, <2>4, RequestStepInv
<1>3. CASE OpenFails
  <2>1. req' = "error" /\ UNCHANGED <<fileVars, tail, readVars, tailLog>>
    BY <1>3 DEF OpenFails
  <2> QED
    BY <2>1, RequestStepInv DEF ReqSteps, Ended
<1>4. CASE Stat
  BY <1>4, StatInv
<1>5. CASE Seek
  BY <1>5, SeekInv
<1>6. CASE NewReverseReaderFails
  <2>1. req' = "error" /\ UNCHANGED <<fileVars, tail, readVars, tailLog>>
    BY <1>6 DEF NewReverseReaderFails
  <2> QED
    BY <2>1, RequestStepInv DEF ReqSteps, Ended
<1>7. CASE RangeEnds
  <2>1. req = "receive" /\ closed /\ req' = "lines" /\ UNCHANGED <<fileVars, tail, readVars, tailLog>>
    BY <1>7 DEF RangeEnds
  <2>2. gor # "idle"
    BY <1>0, <2>1 DEF StepsInv
  <2> QED
    BY <2>1, <2>2, RequestStepInv DEF ReqSteps, Ended
<1>8. CASE Read
  BY <1>8, ReadInv
<1>9. CASE ReadEOF
  <2>1. /\ gor = "read" /\ offset < 0 /\ chunk' = <<leftover>> /\ gor' = "last" /\ closed' = closed
        /\ UNCHANGED <<file, appended, tail, req, remainder, start, offset, leftover, tailLog, size, seen>>
    BY <1>9 DEF ReadEOF, fileVars
  <2>2. chunk = <<>> /\ leftover \in Seq(Nat) /\ closed' \in BOOLEAN /\ ~closed
    BY <1>0, <2>1 DEF StepsInv, TailTypeOK
  <2> DEFINE u == <<leftover>>
  <2>3. u \in Seq(Seq(Nat))
    BY <2>2
  <2>4. Pending = u \o <<>> /\ Pending' = u
    BY <2>1, <2>2 DEF Pending
  <2>5. chunk' = u
    BY <2>1
  <2> HIDE DEF u
  <2>6. Pending' = Pending
    BY <2>3, <2>4, ConcatEmptySeq
  <2>7. gor' \in GorSteps \ {"idle", "read"} /\ gor # "idle" /\ ~closed'
    BY <2>1, <2>2 DEF GorSteps
  <2> QED
    BY <2>1, <2>2, <2>3, <2>5, <2>6, <2>7, GoroutineStepInv
<1>10. CASE ReadFails
  <2>1. /\ gor = "read" /\ gor' = "failed" /\ chunk' = chunk /\ closed' = closed
        /\ UNCHANGED <<file, appended, tail, req, remainder, start, offset, leftover, tailLog, size, seen>>
    BY <1>10 DEF ReadFails, fileVars
  <2>2. chunk' \in Seq(Seq(Nat)) /\ closed' \in BOOLEAN /\ ~closed'
    BY <1>0, <2>1 DEF StepsInv, TailTypeOK
  <2>3. Pending' = Pending
    BY <2>1 DEF Pending
  <2>4. gor' \in GorSteps \ {"idle", "read"} /\ gor # "idle" /\ gor' \notin {"last", "eof", "ended"}
    BY <2>1 DEF GorSteps
  <2> QED
    BY <2>1, <2>2, <2>3, <2>4, GoroutineStepInv
<1>11. CASE Send
  BY <1>11, SendInv
<1>12. CASE CloseAll
  <2>1. /\ gor \in {"eof", "failed"} /\ gor' = (IF gor = "eof" THEN "ended" ELSE "broken")
        /\ chunk' = chunk /\ closed' = TRUE
        /\ UNCHANGED <<file, appended, tail, req, remainder, start, offset, leftover, tailLog, size, seen>>
    BY <1>12 DEF CloseAll, fileVars
  <2>2. chunk' \in Seq(Seq(Nat)) /\ closed' \in BOOLEAN
    BY <1>0, <2>1 DEF TailTypeOK
  <2>3. Pending' = Pending
    BY <2>1 DEF Pending
  <2>4. /\ gor' \in GorSteps \ {"idle", "read"} /\ gor # "idle" /\ gor' \in {"ended", "broken"}
        /\ gor' \in {"last", "eof", "ended"} => gor = "eof"
    BY <2>1 DEF GorSteps
  <2>5. gor = "eof" => offset < 0
    BY <1>0 DEF PagesInv
  <2> QED
    BY <2>1, <2>2, <2>3, <2>4, <2>5, GoroutineStepInv
<1>13. CASE UNCHANGED tailVars
  <2>1. req' = req /\ UNCHANGED <<fileVars, tail, readVars, tailLog>>
    BY <1>13 DEF tailVars
  <2>2. UNCHANGED <<file, appended, tail, gor, remainder, start, offset, leftover, chunk,
                  closed, size, seen, tailLog>>
    BY <2>1 DEF fileVars, readVars
  <2>3. TailTypeOK' /\ SeenInv' /\ StepsInv' /\ PagesInv'
    BY <2>1, <2>2 DEF TailInv, TailTypeOK, SeenInv, StepsInv, PagesInv
  <2>4. LinesInv'
    BY <2>2, LinesKept DEF TailInv, Rest, Pending
  <2> QED
    BY <2>3, <2>4 DEF TailInv
<1> QED
  BY <1>1, <1>2, <1>3, <1>4, <1>5, <1>6, <1>7, <1>8, <1>9, <1>10, <1>11, <1>12, <1>13
     DEF TailNext, Request, Goroutine

-----------------------------------------------------------------------------
(* What the invariant shows. *)

\* No page covers the first Lost bytes, and the last page read ends the rest.
LEMMA LostBytes ==
    ASSUME TailTypeOK, PagesInv
    PROVE  /\ Lost \in 0 .. PageSize - 1 /\ Lost <= offset + PageSize
           /\ offset < 0 => Lost = offset + PageSize
<1>1. PageSize \in Nat \ {0} /\ start \in Nat /\ offset \in Int /\ offset >= -PageSize
  BY TailAssumption DEF TailTypeOK, PagesInv
<1>2. Lost \in 0 .. PageSize - 1
  BY <1>1 DEF Lost
<1>3. ASSUME offset < 0 PROVE Lost = offset + PageSize
  <2>1. PICK k \in Nat : start = offset + k * PageSize
    BY DEF PagesInv
  <2>2. k # 0
    <3>1. 0 * PageSize = 0
      BY <1>1
    <3>2. k * PageSize \in Nat /\ k * PageSize > 0
      BY <1>1, <1>3, <2>1, OnePage
    <3> QED
      BY <3>1, <3>2
  <2>3. k - 1 \in Nat
    BY <2>2
  <2>4. (k - 1) * PageSize \in Nat /\ k * PageSize = (k - 1) * PageSize + PageSize
    <3>1. (k - 1) * PageSize \in Nat /\ ((k - 1) + 1) * PageSize = (k - 1) * PageSize + PageSize
      BY <2>3, OnePage
    <3>2. (k - 1) + 1 = k
      OBVIOUS
    <3> QED
      BY <3>1, <3>2
  <2> DEFINE r == offset + PageSize
  <2>5. r \in 0 .. PageSize - 1 /\ start = (k - 1) * PageSize + r
    BY <1>1, <1>3, <2>1, <2>4
  <2> HIDE DEF r
  <2>6. ((k - 1) * PageSize + r) % PageSize = r
    BY <2>3, <2>5, PageRemainder
  <2> QED
    BY <2>5, <2>6 DEF Lost, r
<1> QED
  BY <1>1, <1>2, <1>3

\* The lines received are the last ones of all that pages cover, and all of
\* them once the beginning has been sent.
LEMMA ReceivedLines ==
    ASSUME TailInv
    PROVE  \E older, received \in Seq(Seq(Nat)) :
             /\ Split(SubSeq(seen, Lost + 1, Len(seen))) = older \o received
             /\ tailLog = Reverse(NonEmpty(received))
             /\ gor \in {"eof", "ended"} => older = <<>>
<1>1. TailTypeOK /\ SeenInv /\ StepsInv /\ PagesInv /\ LinesInv
  BY DEF TailInv
<1>2. /\ seen \in Seq(Nat) /\ Len(seen) \in Nat /\ offset \in Int /\ start \in Nat
      /\ leftover \in Seq(Nat) /\ chunk \in Seq(Seq(Nat))
  BY <1>1 DEF TailTypeOK
<1>3. /\ PageSize \in Nat \ {0} /\ offset <= start /\ (offset < start => offset + PageSize <= start)
      /\ Lost \in 0 .. PageSize - 1 /\ Lost <= offset + PageSize
      /\ offset < 0 => Lost = offset + PageSize
  BY <1>1, PageBounds, LostBytes
<1>4. PICK received \in Seq(Seq(Nat)) :
        Split(Rest) = Pending \o received /\ tailLog = Reverse(NonEmpty(received))
  BY <1>1 DEF LinesInv
<1> DEFINE All == SubSeq(seen, Lost + 1, Len(seen))
<1>5. CASE gor \in {"last", "eof", "ended"}
  <2>1. offset < 0
    BY <1>1, <1>5 DEF PagesInv
  <2>2. Rest = All
    BY <1>3, <2>1 DEF Rest
  <2>3. Pending \in Seq(Seq(Nat)) /\ (gor \in {"eof", "ended"} => Pending = <<>>)
    <3>1. <<>> \in Seq(Seq(Nat))
      OBVIOUS
    <3> QED
      BY <1>2, <1>5, <3>1 DEF Pending
  <2> HIDE DEF All
  <2>4. Split(All) = Pending \o received
    BY <1>4, <2>2
  <2> QED
    BY <1>4, <2>3, <2>4 DEF All
<1>6. CASE gor \notin {"last", "eof", "ended"}
  <2>1. Rest \in Seq(Nat)
    <3>1. /\ offset + PageSize + 1 \in Int /\ 1 <= offset + PageSize + 1
          /\ Len(seen) \in Int /\ Len(seen) <= Len(seen)
      BY <1>2, <1>3
    <3> QED
      BY <1>2, <3>1, SubSeqType DEF Rest
  <2>2. \E q \in Seq(Nat) : All = q \o Rest
    <3>1. CASE offset = start
      <4>1. seen = <<>> /\ Len(seen) = 0
        BY <1>1, <3>1 DEF PagesInv
      <4>2. Len(seen) < Lost + 1 /\ Len(seen) < offset + PageSize + 1
        BY <1>2, <1>3, <4>1
      <4>3. All = <<>> /\ Rest = <<>>
        <5>1. Lost + 1 \in Int /\ offset + PageSize + 1 \in Int
          BY <1>2, <1>3
        <5> QED
          BY <1>2, <4>2, <5>1, SubSeqEmpty DEF Rest
      <4>4. <<>> \in Seq(Nat) /\ <<>> = <<>> \o <<>>
        BY ConcatEmptySeq
      <4> QED
        BY <4>3, <4>4
    <3>2. CASE offset # start
      <4>1. offset < start /\ start <= Len(seen) /\ offset + PageSize <= Len(seen)
        <5>1. offset < start
          BY <1>2, <1>3, <3>2
        <5>2. start <= Len(seen)
          BY <1>1, <5>1 DEF PagesInv
        <5> QED
          BY <1>2, <1>3, <5>1, <5>2
      <4> DEFINE m == Lost + 1
                 k == offset + PageSize
                 n == Len(seen)
      <4>2. m \in 1 .. Len(seen) + 1 /\ k \in m - 1 .. Len(seen) /\ n \in k .. Len(seen)
        BY <1>2, <1>3, <4>1
      <4>3. Rest = SubSeq(seen, k + 1, n) /\ All = SubSeq(seen, m, n)
        BY DEF Rest
      <4>4. m \in Int /\ k \in Int /\ 1 <= m /\ k <= Len(seen)
        BY <1>2, <1>3, <4>1
      <4> HIDE DEF m, k, n, All
      <4>5. SubSeq(seen, m, k) \o SubSeq(seen, k + 1, n) = SubSeq(seen, m, n)
        BY <1>2, <4>2, ConcatAdjacentSubSeq
      <4>6. SubSeq(seen, m, k) \in Seq(Nat)
        BY <1>2, <4>4, SubSeqType
      <4> QED
        BY <4>3, <4>5, <4>6
    <3> QED
      BY <3>1, <3>2
  <2>3. PICK q \in Seq(Nat) : All = q \o Rest
    BY <2>2
  <2> HIDE DEF All
  <2> DEFINE h == Head(Split(Rest))
             older == Split(q \o h) \o chunk
  <2>4. Split(Rest) = <<leftover>> \o (chunk \o received)
    <3> DEFINE u == <<leftover>>
    <3>1. Pending = u \o chunk /\ u \in Seq(Seq(Nat))
      BY <1>2, <1>6 DEF Pending
    <3> HIDE DEF u
    <3>2. u \in Seq(Seq(Nat)) /\ chunk \in Seq(Seq(Nat)) /\ received \in Seq(Seq(Nat))
      BY <1>2, <1>4, <3>1
    <3>3. (u \o chunk) \o received = u \o (chunk \o received)
      BY <3>2, ConcatAssociative
    <3> QED
      BY <1>4, <3>1, <3>3 DEF u
  <2>5. chunk \o received \in Seq(Seq(Nat))
    BY <1>2, <1>4, ConcatProperties
  <2>6. h = leftover /\ Tail(Split(Rest)) = chunk \o received
    BY <1>2, <2>4, <2>5, ConsHead
  <2>7. Split(All) = Split(q \o h) \o (chunk \o received)
    BY <2>1, <2>3, <2>6, SplitConcat
  <2> DEFINE v == Split(q \o h)
  <2>8. v \in Seq(Seq(Nat))
    <3>1. q \o h \in Seq(Nat)
      BY <1>2, <2>6, ConcatProperties
    <3> QED
      BY <3>1, SplitType DEF Lines
  <2> HIDE DEF h
  <2>9. Split(All) = v \o (chunk \o received) /\ older = v \o chunk
    BY <2>7
  <2> HIDE DEF v, older
  <2>10. v \in Seq(Seq(Nat)) /\ chunk \in Seq(Seq(Nat)) /\ received \in Seq(Seq(Nat))
    BY <1>2, <1>4, <2>8
  <2>11. (v \o chunk) \o received = v \o (chunk \o received)
    BY <2>10, ConcatAssociative
  <2>12. older \in Seq(Seq(Nat)) /\ Split(All) = older \o received
    BY <2>9, <2>10, <2>11, ConcatProperties
  <2> QED
    BY <1>4, <1>6, <2>12 DEF All
<1> QED
  BY <1>5, <1>6

\* The lines received are the newest of all that pages cover.
LEMMA InvSound == TailInv => TailSound
<1> SUFFICES ASSUME TailInv PROVE TailSound
  OBVIOUS
<1> DEFINE All == SubSeq(seen, Lost + 1, Len(seen))
<1>1. PICK older, received \in Seq(Seq(Nat)) :
        Split(All) = older \o received /\ tailLog = Reverse(NonEmpty(received))
  BY ReceivedLines
<1> HIDE DEF All
<1> DEFINE a == NonEmpty(older)
           b == NonEmpty(received)
<1>2. a \in Seq(Seq(Nat)) /\ b \in Seq(Seq(Nat))
  BY <1>1, NonEmptyType
<1>3. NonEmpty(Split(All)) = a \o b
  BY <1>1, NonEmptyConcat
<1> HIDE DEF a, b
<1>4. Reverse(a \o b) = Reverse(b) \o Reverse(a)
  BY <1>2, ReverseConcat
<1>5. Reverse(a) \in Seq(Seq(Nat)) /\ Reverse(b) \in Seq(Seq(Nat))
  BY <1>2, ReverseConcat
<1>6. IsPrefix(Reverse(b), Reverse(b) \o Reverse(a))
  BY <1>5, PrefixConcat
<1>7. tailLog = Reverse(b) /\ Newest(All) = Reverse(b) \o Reverse(a)
  BY <1>1, <1>3, <1>4 DEF Newest, b
<1> QED
  BY <1>6, <1>7 DEF TailSound, All

\* Without growth the pages cover the file.
LEMMA NothingLost ==
    ASSUME TailInv, gor # "idle", ~Grew
    PROVE  Lost = 0
<1>1. /\ PageSize \in Nat \ {0} /\ start \in Nat /\ size \in Nat /\ remainder = size % PageSize
      /\ start + remainder = size
  BY TailAssumption DEF TailInv, TailTypeOK, PagesInv, Grew
<1>2. PICK q \in Nat : size = q * PageSize + (size % PageSize)
  BY <1>1, Pages
<1>3. q * PageSize \in Nat
  BY OnePage
<1>4. start = q * PageSize + 0 /\ 0 \in 0 .. PageSize - 1
  BY <1>1, <1>2, <1>3
<1>5. (q * PageSize + 0) % PageSize = 0
  BY <1>4, PageRemainder
<1> QED
  BY <1>4, <1>5 DEF Lost

\* The pages cover the rest of what was there at Stat, and a longer file has
\* no fewer lines.
LEMMA InvComplete == TailInv => TailComplete
<1> SUFFICES ASSUME TailInv, req = "lines", gor # "broken"
             PROVE  /\ ~Grew => Lost = 0
                    /\ \/ Len(tailLog) >= tail
                       \/ Len(tailLog) >= Len(Newest(SubSeq(file, Lost + 1, size)))
  BY DEF TailComplete
<1>1. TailTypeOK /\ SeenInv /\ StepsInv /\ PagesInv
  BY DEF TailInv
<1>2. ~Grew => Lost = 0
  <2>1. gor # "idle"
    BY <1>1 DEF StepsInv
  <2> QED
    BY <2>1, NothingLost
<1> SUFFICES ASSUME ~(Len(tailLog) >= tail)
             PROVE  Len(tailLog) >= Len(Newest(SubSeq(file, Lost + 1, size)))
  BY <1>2
<1>3. gor = "ended"
  BY <1>1 DEF StepsInv
<1>4. offset < 0 /\ remainder = size % PageSize /\ size <= Len(file) /\ size <= start + remainder
  BY <1>1, <1>3 DEF PagesInv
<1>5. /\ PageSize \in Nat \ {0} /\ start \in Nat /\ size \in Nat /\ remainder \in Nat /\ offset \in Int
      /\ seen \in Seq(Nat) /\ Len(seen) \in Nat /\ file \in Seq(Nat) /\ Len(file) \in Nat
      /\ tailLog \in Seq(Seq(Nat))
  BY <1>1, TailAssumption DEF TailTypeOK
<1>6. remainder \in 0 .. PageSize - 1
  BY <1>4, <1>5
<1>7. size <= Len(seen)
  <2>1. offset < start
    BY <1>4, <1>5
  <2>2. start + PageSize <= Len(seen) \/ size <= Len(seen)
    BY <1>1, <2>1 DEF PagesInv
  <2> QED
    BY <1>4, <1>5, <1>6, <2>2
<1> DEFINE l == Lost
           All == SubSeq(seen, l + 1, Len(seen))
           before == SubSeq(file, l + 1, size)
<1>8. l \in Nat
  BY <1>1, <1>5, LostBytes
<1>9. tailLog = Reverse(NonEmpty(Split(All)))
  <2>1. PICK older, received \in Seq(Seq(Nat)) :
          /\ Split(All) = older \o received /\ tailLog = Reverse(NonEmpty(received))
          /\ gor \in {"eof", "ended"} => older = <<>>
    BY ReceivedLines
  <2> HIDE DEF All
  <2>2. older = <<>> /\ <<>> \o received = received
    BY <1>3, <2>1, ConcatEmptySeq
  <2> QED
    BY <2>1, <2>2
<1> HIDE DEF l
<1>10. All \in Seq(Nat)
  <2>1. l + 1 \in Int /\ Len(seen) \in Int /\ 1 <= l + 1 /\ Len(seen) <= Len(seen)
    BY <1>5, <1>8
  <2> QED
    BY <1>5, <2>1, SubSeqType
<1>11. PICK after \in Seq(Nat) : before \in Seq(Nat) /\ All = before \o after
  <2>1. CASE l <= size
    <3>1. Len(seen) \in 0 .. Len(file) /\ seen = SubSeq(file, 1, Len(seen))
      BY <1>1, <1>5 DEF SeenInv
    <3>2. l + 1 \in Int /\ size \in Int /\ 1 <= l + 1 /\ size <= Len(seen) /\ size <= Len(file)
      BY <1>4, <1>5, <1>7, <1>8
    <3>3. before = SubSeq(seen, l + 1, size)
      <4>1. SubSeq(SubSeq(file, 1, Len(seen)), l + 1, size) = SubSeq(file, l + 1, size)
        BY <1>5, <3>1, <3>2, SubSeqPrefix
      <4> QED
        BY <3>1, <4>1
    <3>4. before \in Seq(Nat)
      BY <1>5, <3>2, SubSeqType
    <3> DEFINE n == Len(seen)
               rest == SubSeq(seen, size + 1, n)
    <3>5. rest \in Seq(Nat)
      <4>1. size + 1 \in Int /\ n \in Int /\ 1 <= size + 1 /\ n <= Len(seen)
        BY <1>5
      <4> QED
        BY <1>5, <4>1, SubSeqType
    <3>6. SubSeq(seen, l + 1, size) \o rest = SubSeq(seen, l + 1, n)
      <4>1. l + 1 \in 1 .. Len(seen) + 1 /\ size \in (l + 1) - 1 .. Len(seen) /\ n \in size .. Len(seen)
        BY <1>5, <1>7, <1>8, <2>1
      <4> HIDE DEF n
      <4> QED
        BY <1>5, <4>1, ConcatAdjacentSubSeq
    <3> HIDE DEF before, rest
    <3> QED
      BY <3>3, <3>4, <3>5, <3>6
  <2>2. CASE ~(l <= size)
    <3>1. before = <<>>
      <4>1. size < l + 1 /\ size \in Int /\ l + 1 \in Int
        BY <1>5, <1>8, <2>2
      <4> QED
        BY <4>1, SubSeqEmpty
    <3>2. <<>> \in Seq(Nat)
      OBVIOUS
    <3> HIDE DEF All, before
    <3>3. <<>> \o All = All
      BY <1>10, ConcatEmptySeq
    <3> QED
      BY <1>10, <3>1, <3>2, <3>3
  <2> QED
    BY <2>1, <2>2
<1> HIDE DEF All, before
<1>12. Len(NonEmpty(Split(before))) <= Len(NonEmpty(Split(All)))
  BY <1>11, MoreLines
<1>13. NonEmpty(Split(All)) \in Seq(Seq(Nat)) /\ NonEmpty(Split(before)) \in Seq(Seq(Nat))
  <2>1. Split(before) \in Seq(Seq(Nat)) /\ Split(All) \in Seq(Seq(Nat))
    BY <1>10, <1>11, SplitType DEF Lines
  <2> QED
    BY <2>1, NonEmptyType
<1> DEFINE x == NonEmpty(Split(All))
           y == NonEmpty(Split(before))
<1>14. Newest(before) = Reverse(y) /\ tailLog = Reverse(x) /\ Len(y) <= Len(x)
  BY <1>9, <1>12 DEF Newest
<1> HIDE DEF x, y
<1>15. Len(Reverse(x)) = Len(x) /\ Len(Reverse(y)) = Len(y)
  BY <1>13, ReverseConcat DEF x, y
<1>16. Len(x) \in Nat /\ Len(y) \in Nat
  BY <1>13 DEF x, y
<1>17. Len(tailLog) >= Len(Newest(before))
  BY <1>14, <1>15, <1>16
<1> QED
  BY <1>17 DEF before, l

(* The invariant: what the goroutine holds and what the request has         *)
(* received are the lines of what was read, at every step of GetTailLog.    *)
THEOREM TailInvariant == TailSpec => []TailInv
<1> QED
  BY TailInitInv, TailStepInv, PTL DEF TailSpec

(* For a file, a page and growth of any size, the lines received are the    *)
(* last non-empty lines of the file as the first Read saw it, newest first  *)
(* and none left out (GetTailLog and ReverseReader.Read).                   *)
THEOREM TailIsSound == TailSpec => []TailSound
<1> QED
  BY TailInvariant, InvSound, PTL

(* For any file and number of lines: a request that ends without an error   *)
(* has at least as many lines as it asked for or all there were when it     *)
(* arrived, but for the bytes lost if the file grew between Stat and Seek,  *)
(* and none are lost if it did not (NewReverseReader).                      *)
THEOREM TailIsComplete == TailSpec => []TailComplete
<1> QED
  BY TailInvariant, InvComplete, PTL

-----------------------------------------------------------------------------
(* How many lines a page can hold. *)

\* Bytes that do not end a line.
Inner == Nat \ {0}

\* A byte goes to the last line or begins another.
LEMMA StepLine ==
    ASSUME NEW r \in Seq(Seq(Nat)), NEW e \in Seq(Nat), NEW b \in Nat
    PROVE  SplitStep[<<Append(r, e), b>>]
             = IF b = 0 THEN Append(Append(r, e), NoBytes) ELSE Append(r, Append(e, b))
<1> DEFINE l == Append(r, e)
<1>1. l \in Seq(Seq(Nat)) /\ Len(l) = Len(r) + 1 /\ Len(r) \in Nat
  BY AppendProperties
<1>2. l # <<>>
  BY AppendProperties
<1>3. l \in Lines
  BY <1>1, <1>2 DEF Lines
<1>4. SplitStep[<<l, b>>] = IF b = 0 THEN Append(l, NoBytes) ELSE [l EXCEPT ![Len(l)] = Append(@, b)]
  BY <1>3, SplitStepType
<1>5. [l EXCEPT ![Len(l)] = Append(@, b)] = Append(r, Append(e, b))
  <2> DEFINE f == Append(e, b)
  <2>1. f \in Seq(Nat) /\ l[Len(l)] = e /\ Len(l) \in 1 .. Len(l)
    BY <1>1, AppendProperties
  <2>2. [l EXCEPT ![Len(l)] = Append(@, b)] = [l EXCEPT ![Len(l)] = f]
    BY <2>1
  <2> HIDE DEF f
  <2>3. /\ [l EXCEPT ![Len(l)] = f] \in Seq(Seq(Nat)) /\ Len([l EXCEPT ![Len(l)] = f]) = Len(l)
        /\ \A j \in 1 .. Len(l) : [l EXCEPT ![Len(l)] = f][j] = IF j = Len(l) THEN f ELSE l[j]
    <3> HIDE DEF l
    <3> QED
      BY <1>1, <2>1, ExceptSeq
  <2>4. /\ Append(r, f) \in Seq(Seq(Nat)) /\ Len(Append(r, f)) = Len(r) + 1
        /\ \A j \in 1 .. Len(r) : Append(r, f)[j] = r[j]
        /\ Append(r, f)[Len(r) + 1] = f
    BY <2>1, AppendProperties
  <2>5. \A j \in 1 .. Len(r) : l[j] = r[j]
    BY AppendProperties
  <2> DEFINE u == [l EXCEPT ![Len(l)] = f]
             v == Append(r, f)
  <2> HIDE DEF u, v
  <2>6. u \in Seq(Seq(Nat)) /\ v \in Seq(Seq(Nat)) /\ Len(u) = Len(v)
    BY <1>1, <2>3, <2>4 DEF u, v
  <2>7. ASSUME NEW j \in 1 .. Len(u) PROVE u[j] = v[j]
    <3>1. j \in 1 .. Len(l)
      BY <2>3 DEF u
    <3>2. u[j] = IF j = Len(l) THEN f ELSE l[j]
      BY <2>3, <3>1 DEF u
    <3>3. CASE j = Len(r) + 1
      BY <1>1, <2>4, <3>2, <3>3 DEF v
    <3>4. CASE j # Len(r) + 1
      <4>1. j \in 1 .. Len(r) /\ j # Len(l)
        BY <1>1, <3>1, <3>4
      <4> QED
        BY <2>4, <2>5, <3>2, <4>1 DEF v
    <3> QED
      BY <3>3, <3>4
  <2>8. u = v
    BY <2>6, <2>7, SeqEqual
  <2> QED
    BY <2>2, <2>8 DEF u, v, f
<1> QED
  BY <1>4, <1>5

\* All lines but the first.
LEMMA TailAppend ==
    ASSUME NEW r \in Seq(Seq(Nat)), NEW e \in Seq(Nat)
    PROVE  IF r = <<>> THEN Tail(Append(r, e)) = <<>>
           ELSE Tail(r) \in Seq(Seq(Nat)) /\ Tail(Append(r, e)) = Append(Tail(r), e)
<1>1. CASE r = <<>>
  <2>1. Append(r, e) = <<e>>
    BY <1>1
  <2>2. Tail(<<e>>) = <<>>
    OBVIOUS
  <2> QED
    BY <1>1, <2>1, <2>2
<1>2. CASE r # <<>>
  <2>1. Head(r) \in Seq(Nat) /\ Tail(r) \in Seq(Seq(Nat)) /\ r = <<Head(r)>> \o Tail(r)
    BY <1>2, LinesCons DEF Lines
  <2> DEFINE h == Head(r)
             t == Tail(r)
             u == <<h>>
  <2>2. u \in Seq(Seq(Nat)) /\ h \in Seq(Nat) /\ t \in Seq(Seq(Nat)) /\ r = u \o t
    BY <2>1
  <2>3. Append(t, e) \in Seq(Seq(Nat))
    BY <2>2
  <2>4. Tail(<<h>> \o Append(t, e)) = Append(t, e)
    BY <2>2, <2>3, ConsHead
  <2> HIDE DEF t
  <2>5. Append(r, e) = u \o Append(t, e)
    <3> DEFINE S == Seq(Nat)
    <3>1. u \in Seq(S) /\ t \in Seq(S) /\ e \in S /\ r = u \o t
      BY <2>2
    <3> HIDE DEF u, S
    <3>2. u \o Append(t, e) = Append(u \o t, e)
      BY <3>1, AppendConcat
    <3> QED
      BY <3>1, <3>2
  <2> QED
    BY <1>2, <2>2, <2>4, <2>5 DEF t
<1> QED
  BY <1>1, <1>2

\* One more line is one more at most.
LEMMA KeptAppend ==
    ASSUME NEW t \in Seq(Seq(Nat)), NEW e \in Seq(Nat)
    PROVE  /\ Len(NonEmpty(t)) \in Nat
           /\ Len(NonEmpty(Append(t, e))) = Len(NonEmpty(t)) + IF e = NoBytes THEN 0 ELSE 1
<1> DEFINE k == NonEmpty(t)
<1>1. k \in Seq(Seq(Nat))
  BY NonEmptyType
<1>2. NonEmpty(Append(t, e)) = IF e = NoBytes THEN k ELSE Append(k, e)
  BY NonEmptyAppend
<1> HIDE DEF k
<1>3. Len(k) \in Nat /\ Len(Append(k, e)) = Len(k) + 1
  BY <1>1
<1>4. CASE e = NoBytes
  BY <1>2, <1>3, <1>4 DEF k
<1>5. CASE e # NoBytes
  BY <1>2, <1>3, <1>5 DEF k
<1> QED
  BY <1>4, <1>5

\* The lines of s are r and the last one, e.  Every line of r but the first
\* has taken two bytes, its end and what it holds, and e the end before it.
IsLines(s, r, e) ==
    /\ Split(s) = Append(r, e)
    /\ \/ r = <<>>
       \/ 2 * Len(NonEmpty(Tail(r))) + (IF e = NoBytes THEN 1 ELSE 2) <= Len(s)

LEMMA LinesOf ==
    \A s \in Seq(Nat) : \E r \in Seq(Seq(Inner)), e \in Seq(Inner) : IsLines(s, r, e)
<1> DEFINE T == {s \in Seq(Nat) : \E r \in Seq(Seq(Inner)), e \in Seq(Inner) : IsLines(s, r, e)}
<1>0. Seq(Inner) \subseteq Seq(Nat) /\ Seq(Seq(Inner)) \subseteq Seq(Seq(Nat)) /\ NoBytes \in Seq(Inner)
  <2>1. Seq(Inner) \subseteq Seq(Nat) /\ NoBytes \in Seq(Inner)
    BY DEF Inner, NoBytes
  <2> QED
    BY <2>1
<1>1. <<>> \in T
  <2> DEFINE e == NoBytes
  <2>1. Split(<<>>) = <<e>>
    BY SplitEmpty
  <2>2. e \in Seq(Inner)
    BY <1>0
  <2> HIDE DEF e
  <2>3. <<e>> = Append(<<>>, e) /\ <<>> \in Seq(Seq(Inner)) /\ <<>> \in Seq(Nat)
    OBVIOUS
  <2>4. IsLines(<<>>, <<>>, e)
    BY <2>1, <2>3 DEF IsLines
  <2> QED
    BY <2>2, <2>3, <2>4
<1>2. ASSUME NEW s \in T, NEW b \in Nat PROVE Append(s, b) \in T
  <2>1. s \in Seq(Nat) /\ Append(s, b) \in Seq(Nat) /\ Len(Append(s, b)) = Len(s) + 1 /\ Len(s) \in Nat
    OBVIOUS
  <2>2. PICK r \in Seq(Seq(Inner)), e \in Seq(Inner) : IsLines(s, r, e)
    OBVIOUS
  <2> HIDE DEF T
  <2>3. r \in Seq(Seq(Nat)) /\ e \in Seq(Nat)
    BY <1>0
  <2>4. Split(Append(s, b)) = IF b = 0 THEN Append(Append(r, e), NoBytes) ELSE Append(r, Append(e, b))
    <3>1. Split(Append(s, b)) = SplitStep[<<Split(s), b>>]
      BY <2>1, SplitAppend
    <3>2. Split(s) = Append(r, e)
      BY <2>2 DEF IsLines
    <3> QED
      BY <2>3, <3>1, <3>2, StepLine
  <2>5. CASE b = 0
    <3> DEFINE q == Append(r, e)
    <3>1. q \in Seq(Seq(Inner))
      OBVIOUS
    <3>2. 2 * Len(NonEmpty(Tail(q))) + 1 <= Len(s) + 1
      <4>1. CASE r = <<>>
        <5>1. Tail(q) = <<>>
          BY <2>3, <4>1, TailAppend
        <5>2. Len(NonEmpty(Tail(q))) = 0
          <6>1. NonEmpty(Tail(q)) = <<>> /\ Len(<<>>) = 0
            BY <5>1, NonEmptyEmpty, EmptySeq
          <6> QED
            BY <6>1
        <5> QED
          BY <2>1, <5>2
      <4>2. CASE r # <<>>
        <5>1. Tail(r) \in Seq(Seq(Nat)) /\ Tail(q) = Append(Tail(r), e)
          BY <2>3, <4>2, TailAppend
        <5>2. /\ Len(NonEmpty(Tail(r))) \in Nat
              /\ Len(NonEmpty(Tail(q))) = Len(NonEmpty(Tail(r))) + IF e = NoBytes THEN 0 ELSE 1
          BY <2>3, <5>1, KeptAppend
        <5>3. 2 * Len(NonEmpty(Tail(r))) + (IF e = NoBytes THEN 1 ELSE 2) <= Len(s)
          BY <2>2, <4>2 DEF IsLines
        <5> DEFINE n == Len(NonEmpty(Tail(r)))
                   m == Len(NonEmpty(Tail(q)))
        <5> HIDE DEF n, m
        <5>4. CASE e = NoBytes
          <6>1. n \in Nat /\ m = n /\ 2 * n + 1 <= Len(s)
            BY <5>2, <5>3, <5>4 DEF n, m
          <6>2. 2 * m + 1 <= Len(s) + 1
            BY <2>1, <6>1
          <6> QED
            BY <6>2 DEF m
        <5>5. CASE e # NoBytes
          <6>1. n \in Nat /\ m = n + 1 /\ 2 * n + 2 <= Len(s)
            BY <5>2, <5>3, <5>5 DEF n, m
          <6>2. 2 * m + 1 <= Len(s) + 1
            BY <2>1, <6>1
          <6> QED
            BY <6>2 DEF m
        <5> QED
          BY <5>4, <5>5
      <4> QED
        BY <4>1, <4>2
    <3>3. IsLines(Append(s, b), q, NoBytes)
      BY <2>1, <2>4, <2>5, <3>2 DEF IsLines
    <3> HIDE DEF q
    <3> QED
      BY <1>0, <2>1, <3>1, <3>3 DEF T
  <2>6. CASE b # 0
    <3> DEFINE f == Append(e, b)
    <3>1. f \in Seq(Inner) /\ f # NoBytes
      <4>1. b \in Inner
        BY <2>6 DEF Inner
      <4>2. f \in Seq(Inner) /\ f # <<>>
        BY <4>1, AppendProperties
      <4> QED
        BY <4>2 DEF NoBytes
    <3>2. CASE r = <<>>
      <4>1. IsLines(Append(s, b), r, f)
        BY <2>4, <2>6, <3>2 DEF IsLines
      <4> HIDE DEF f
      <4> QED
        BY <2>1, <3>1, <4>1 DEF T
    <3>3. CASE r # <<>>
      <4>1. Tail(r) \in Seq(Seq(Nat))
        BY <2>3, <3>3, TailAppend
      <4> DEFINE n == Len(NonEmpty(Tail(r)))
      <4>2. n \in Nat
        BY <2>3, <4>1, KeptAppend
      <4>3. 2 * n + (IF e = NoBytes THEN 1 ELSE 2) <= Len(s)
        BY <2>2, <3>3 DEF IsLines
      <4> HIDE DEF n
      <4>4. 2 * n + 1 <= Len(s)
        BY <2>1, <4>2, <4>3
      <4>5. 2 * n + 2 <= Len(Append(s, b))
        BY <2>1, <4>2, <4>4
      <4>6. IsLines(Append(s, b), r, f)
        BY <2>4, <2>6, <3>1, <4>5 DEF IsLines, n
      <4> HIDE DEF f
      <4> QED
        BY <2>1, <3>1, <4>6 DEF T
    <3> QED
      BY <3>2, <3>3
  <2> QED
    BY <2>5, <2>6
<1>3. T \in SUBSET Seq(Nat)
  OBVIOUS
<1> HIDE DEF T
<1>4. T = Seq(Nat)
  BY <1>1, <1>2, <1>3, SeqInduction
<1> QED
  BY <1>4 DEF T

\* The rest of a line lengthens the last line of the page before it.
LEMMA LineContinues ==
    ASSUME NEW p \in Seq(Nat), NEW h \in Seq(Inner), NEW r \in Seq(Seq(Nat)), NEW e \in Seq(Nat),
           Split(p) = Append(r, e)
    PROVE  \E f \in Seq(Nat) : Split(p \o h) = Append(r, f)
<1> DEFINE T == {s \in Seq(Inner) : \E f \in Seq(Nat) : Split(p \o s) = Append(r, f)}
<1>0. \A s \in Seq(Nat), b \in Nat : p \o Append(s, b) = Append(p \o s, b)
  BY AppendConcat
<1>1. <<>> \in T
  <2>1. p \o <<>> = p /\ <<>> \in Seq(Inner)
    BY ConcatEmptySeq
  <2> QED
    BY <2>1
<1>2. ASSUME NEW s \in T, NEW b \in Inner PROVE Append(s, b) \in T
  <2>1. s \in Seq(Inner) /\ Append(s, b) \in Seq(Inner)
    OBVIOUS
  <2>2. PICK f \in Seq(Nat) : Split(p \o s) = Append(r, f)
    OBVIOUS
  <2> HIDE DEF T
  <2>3. s \in Seq(Nat) /\ b \in Nat /\ b # 0
    BY <2>1 DEF Inner
  <2>4. p \o s \in Seq(Nat) /\ p \o Append(s, b) = Append(p \o s, b)
    <3>1. p \o s \in Seq(Nat)
      BY <2>3, ConcatProperties
    <3>2. p \o Append(s, b) = Append(p \o s, b)
      BY <1>0, <2>3
    <3> QED
      BY <3>1, <3>2
  <2>5. Split(p \o Append(s, b)) = SplitStep[<<Append(r, f), b>>]
    BY <2>2, <2>3, <2>4, SplitAppend
  <2>6. SplitStep[<<Append(r, f), b>>] = Append(r, Append(f, b))
    BY <2>3, StepLine
  <2> DEFINE g == Append(f, b)
  <2>7. g \in Seq(Nat)
    BY <2>3
  <2> HIDE DEF g
  <2>8. Split(p \o Append(s, b)) = Append(r, g)
    BY <2>5, <2>6 DEF g
  <2> QED
    BY <2>1, <2>7, <2>8 DEF T
<1>3. T \in SUBSET Seq(Inner)
  OBVIOUS
<1> HIDE DEF T
<1>4. T = Seq(Inner)
  BY <1>1, <1>2, <1>3, SeqInduction
<1> QED
  BY <1>4 DEF T

\* A page and the rest of a line are the beginning of a line and at most one
\* line for every two bytes of the page, and one more.
LEMMA PageLines ==
    ASSUME NEW p \in Seq(Nat), NEW h \in Seq(Inner)
    PROVE  /\ Head(Split(p \o h)) \in Seq(Inner)
           /\ Len(NonEmpty(Tail(Split(p \o h)))) \in Nat
           /\ 2 * Len(NonEmpty(Tail(Split(p \o h)))) <= Len(p) + 1
<1>0. Seq(Inner) \subseteq Seq(Nat) /\ Seq(Seq(Inner)) \subseteq Seq(Seq(Nat))
  <2>1. Seq(Inner) \subseteq Seq(Nat)
    BY DEF Inner
  <2> QED
    BY <2>1
<1>1. p \o h \in Seq(Nat)
  BY <1>0, ConcatProperties
<1>2. Head(Split(p \o h)) \in Seq(Inner)
  <2>1. PICK r \in Seq(Seq(Inner)), e \in Seq(Inner) : Split(p \o h) = Append(r, e)
    BY <1>1, LinesOf DEF IsLines
  <2> DEFINE S == Seq(Inner)
  <2>2. r \in Seq(S) /\ e \in S
    BY <2>1
  <2> HIDE DEF S
  <2>3. Append(r, e) \in Seq(S) /\ Append(r, e) # <<>>
    BY <2>2, AppendProperties
  <2>4. Head(Append(r, e)) \in S
    BY <2>3, HeadTailProperties
  <2> QED
    BY <2>1, <2>4 DEF S
<1>3. PICK r \in Seq(Seq(Inner)), e \in Seq(Inner) : IsLines(p, r, e)
  BY LinesOf
<1>4. r \in Seq(Seq(Nat)) /\ e \in Seq(Nat)
  BY <1>0
<1>5. PICK f \in Seq(Nat) : Split(p \o h) = Append(r, f)
  BY <1>3, <1>4, LineContinues DEF IsLines
<1>6. Len(p) \in Nat
  OBVIOUS
<1>7. CASE r = <<>>
  <2>1. Tail(Append(r, f)) = <<>>
    BY <1>4, <1>7, TailAppend
  <2>2. Len(NonEmpty(Tail(Append(r, f)))) = 0
    <3>1. NonEmpty(Tail(Append(r, f))) = <<>> /\ Len(<<>>) = 0
      BY <2>1, NonEmptyEmpty, EmptySeq
    <3> QED
      BY <3>1
  <2> QED
    BY <1>2, <1>5, <1>6, <2>2
<1>8. CASE r # <<>>
  <2>1. Tail(r) \in Seq(Seq(Nat)) /\ Tail(Append(r, f)) = Append(Tail(r), f)
    BY <1>4, <1>8, TailAppend
  <2> DEFINE n == Len(NonEmpty(Tail(r)))
             m == Len(NonEmpty(Tail(Append(r, f))))
  <2>2. n \in Nat /\ m = n + IF f = NoBytes THEN 0 ELSE 1
    BY <2>1, KeptAppend
  <2>3. 2 * n + (IF e = NoBytes THEN 1 ELSE 2) <= Len(p)
    BY <1>3, <1>8 DEF IsLines
  <2> HIDE DEF n, m
  <2>4. m \in Nat /\ m <= n + 1 /\ 2 * n + 1 <= Len(p)
    BY <1>6, <2>2, <2>3
  <2>5. 2 * m <= Len(p) + 1
    BY <1>6, <2>2, <2>4
  <2> QED
    BY <1>2, <1>5, <2>4, <2>5 DEF m
<1> QED
  BY <1>7, <1>8

-----------------------------------------------------------------------------
(* The bound on what a request gets. *)

\* What is held holds at most a page's worth of lines, and the request goes on
\* only while it has too few.
BoundInv ==
    /\ leftover \in Seq(Inner)
    /\ 2 * Len(NonEmpty(chunk)) <= PageSize + 1
    /\ req \in {"stat", "seek", "receive"} => Len(tailLog) < tail
    /\ TailBounded

\* BoundInv of a step that neither reads nor sends.
LEMMA BoundKept ==
    ASSUME BoundInv, UNCHANGED <<tail, leftover, tailLog>>,
           chunk' = chunk \/ 2 * Len(NonEmpty(chunk')) <= PageSize + 1,
           req' \in {"stat", "seek", "receive"} => Len(tailLog) < tail
    PROVE  BoundInv'
<1>1. TailBounded'
  BY DEF BoundInv, TailBounded
<1>2. 2 * Len(NonEmpty(chunk')) <= PageSize + 1
  BY DEF BoundInv
<1>3. (2 * Len(NonEmpty(chunk)) <= PageSize + 1)'
  BY <1>2
<1> QED
  BY <1>1, <1>3 DEF BoundInv

LEMMA BoundInit == TailInit => BoundInv
<1> SUFFICES ASSUME TailInit PROVE BoundInv
  OBVIOUS
<1>1. PageSize \in Nat \ {0} /\ tail \in Int
  BY TailAssumption DEF TailInit
<1>2. leftover \in Seq(Inner)
  BY DEF TailInit, NoBytes
<1>3. Len(NonEmpty(chunk)) = 0
  BY NonEmptyEmpty DEF TailInit
<1>4. TailBounded
  <2>1. Len(tailLog) = 0
    BY DEF TailInit
  <2> QED
    BY <1>1, <2>1 DEF TailBounded
<1>5. req = "open"
  BY DEF TailInit
<1> QED
  BY <1>1, <1>2, <1>3, <1>4, <1>5 DEF BoundInv

\* Read: the lines of one page.
LEMMA BoundRead == TailInv /\ BoundInv /\ Read => BoundInv'
<1> SUFFICES ASSUME TailInv, BoundInv, Read PROVE BoundInv'
  OBVIOUS
<1> DEFINE line == Split(Page \o leftover)
<1>1. /\ gor = "read" /\ offset >= 0 /\ leftover' = Head(line) /\ chunk' = Tail(line)
      /\ UNCHANGED <<tail, req, tailLog>>
  BY DEF Read
<1>2. TailTypeOK /\ PagesInv
  BY DEF TailInv
<1>3. /\ PageEnd \in offset .. Len(file) /\ Page = SubSeq(file, offset + 1, PageEnd)
      /\ Page \in Seq(Nat)
  BY <1>1, <1>2, PageFacts
<1>4. PageSize \in Nat \ {0} /\ offset \in Int /\ file \in Seq(Nat) /\ Len(file) \in Nat
  BY <1>2, TailAssumption DEF TailTypeOK
<1>5. Len(Page) <= PageSize
  <2> DEFINE m == offset + 1
             n == PageEnd
  <2>1. m \in Int /\ n \in Int /\ 1 <= m /\ n <= Len(file) /\ n <= offset + PageSize
    BY <1>1, <1>3, <1>4 DEF PageEnd
  <2>2. Len(SubSeq(file, m, n)) = IF m <= n THEN n - m + 1 ELSE 0
    <3> HIDE DEF m, n
    <3> QED
      BY <1>4, <2>1, SubSeqType
  <2>3. (IF m <= n THEN n - m + 1 ELSE 0) <= PageSize
    <3> HIDE DEF n
    <3> QED
      BY <1>4, <2>1
  <2> QED
    BY <1>3, <2>2, <2>3
<1>6. leftover \in Seq(Inner)
  BY DEF BoundInv
<1>7. Head(line) \in Seq(Inner) /\ Len(NonEmpty(Tail(line))) \in Nat
      /\ 2 * Len(NonEmpty(Tail(line))) <= Len(Page) + 1
  BY <1>3, <1>6, PageLines
<1> DEFINE n == Len(NonEmpty(Tail(line)))
           k == Len(Page)
<1>8. 2 * n <= PageSize + 1
  <2>1. n \in Nat /\ k \in Nat /\ 2 * n <= k + 1 /\ k <= PageSize
    BY <1>3, <1>5, <1>7
  <2> HIDE DEF n, k
  <2> QED
    BY <1>4, <2>1
<1> HIDE DEF line
<1>9. (2 * Len(NonEmpty(chunk)) <= PageSize + 1)'
  BY <1>1, <1>8
<1>10. TailBounded'
  BY <1>1 DEF BoundInv, TailBounded
<1> QED
  BY <1>1, <1>7, <1>9, <1>10 DEF BoundInv

\* Send: the lines of one page more.
LEMMA BoundSend == TailInv /\ BoundInv /\ Send => BoundInv'
<1> SUFFICES ASSUME TailInv, BoundInv, Send PROVE BoundInv'
  OBVIOUS
<1>1. /\ req = "receive" /\ tailLog' = tailLog \o Reverse(NonEmpty(chunk))
      /\ req' = (IF Len(tailLog') >= tail THEN "lines" ELSE "receive")
      /\ chunk' = <<>> /\ UNCHANGED <<tail, leftover>>
  BY DEF Send
<1>2. chunk \in Seq(Seq(Nat)) /\ tailLog \in Seq(Seq(Nat)) /\ tail \in Int
  BY DEF TailInv, TailTypeOK
<1> DEFINE k == NonEmpty(chunk)
<1>3. k \in Seq(Seq(Nat))
  BY <1>2, NonEmptyType
<1>4. Reverse(k) \in Seq(Seq(Nat)) /\ Len(Reverse(k)) = Len(k)
  BY <1>3, ReverseConcat
<1>5. 2 * Len(k) <= PageSize + 1 /\ Len(tailLog) < tail
  BY <1>1 DEF BoundInv
<1> HIDE DEF k
<1>6. Len(tailLog \o Reverse(k)) = Len(tailLog) + Len(Reverse(k))
  BY <1>2, <1>4, ConcatProperties
<1>7. PICK n \in Nat : Len(tailLog') = n /\ 2 * (n - tail) < PageSize
  <2>1. Len(tailLog) \in Nat /\ Len(k) \in Nat /\ PageSize \in Nat
    BY <1>2, <1>3, TailAssumption
  <2> DEFINE n == Len(tailLog) + Len(k)
  <2>2. n \in Nat /\ Len(tailLog') = n
    BY <1>1, <1>4, <1>6, <2>1 DEF k
  <2>3. 2 * (n - tail) < PageSize
    BY <1>2, <1>5, <2>1
  <2> QED
    BY <2>2, <2>3
<1>8. TailBounded'
  <2>1. (2 * (Len(tailLog) - tail) < PageSize)'
    BY <1>1, <1>7
  <2> QED
    BY <2>1 DEF TailBounded
<1>9. req' \in {"stat", "seek", "receive"} => Len(tailLog') < tail'
  <2>1. ~(n >= tail) => n < tail
    BY <1>2
  <2> QED
    BY <1>1, <1>7, <2>1
<1>10. (2 * Len(NonEmpty(chunk)) <= PageSize + 1)'
  <2>1. Len(NonEmpty(<<>>)) = 0
    BY NonEmptyEmpty
  <2>2. 2 * 0 <= PageSize + 1
    BY TailAssumption
  <2> QED
    BY <1>1, <2>1, <2>2
<1> QED
  BY <1>1, <1>8, <1>9, <1>10 DEF BoundInv

\* Every step.
LEMMA BoundStep == TailInv /\ BoundInv /\ [TailNext]_tailVars => BoundInv'
<1> SUFFICES ASSUME TailInv, BoundInv, [TailNext]_tailVars PROVE BoundInv'
  OBVIOUS
<1>0. TailTypeOK /\ StepsInv /\ (req \in {"stat", "seek", "receive"} => Len(tailLog) < tail)
  BY DEF TailInv, BoundInv
<1>1. CASE JobAppends
  BY <1>0, <1>1, BoundKept DEF JobAppends, readVars
<1>2. CASE GetContainerLogs
  <2>1. req = "open" /\ UNCHANGED <<tail, leftover, tailLog, chunk>>
    BY <1>2 DEF GetContainerLogs, readVars
  <2>2. tail \in Int /\ Len(tailLog) = 0
    BY <1>0, <2>1 DEF StepsInv, TailTypeOK
  <2>3. req' \in {"stat", "seek", "receive"} => tail > 0
    BY <1>2, <2>2 DEF GetContainerLogs
  <2>4. tail > 0 => Len(tailLog) < tail
    BY <2>2
  <2> QED
    BY <2>1, <2>3, <2>4, BoundKept
<1>3. CASE OpenFails
  BY <1>3, BoundKept DEF OpenFails, readVars
<1>4. CASE Stat
  BY <1>0, <1>4, BoundKept DEF Stat
<1>5. CASE Seek
  BY <1>0, <1>5, BoundKept DEF Seek
<1>6. CASE NewReverseReaderFails
  BY <1>6, BoundKept DEF NewReverseReaderFails, readVars
<1>7. CASE RangeEnds
  BY <1>7, BoundKept DEF RangeEnds, readVars
<1>8. CASE Read
  BY <1>8, BoundRead
<1>9. CASE ReadEOF
  <2>1. chunk' = <<leftover>> /\ UNCHANGED <<tail, leftover, tailLog, req>>
    BY <1>9 DEF ReadEOF
  <2>2. leftover \in Seq(Nat) /\ <<>> \in Seq(Seq(Nat)) /\ <<leftover>> = Append(<<>>, leftover)
    BY <1>0 DEF TailTypeOK
  <2>3. Len(NonEmpty(<<>>)) = 0
    BY NonEmptyEmpty
  <2>4. Len(NonEmpty(Append(<<>>, leftover))) = Len(NonEmpty(<<>>)) + IF leftover = NoBytes THEN 0 ELSE 1
    BY <2>2, KeptAppend
  <2>5. Len(NonEmpty(<<leftover>>)) \in {0, 1}
    BY <2>2, <2>3, <2>4
  <2>6. 2 * Len(NonEmpty(<<leftover>>)) <= PageSize + 1
    <3> DEFINE n == Len(NonEmpty(<<leftover>>))
    <3>1. n \in {0, 1} /\ PageSize \in Nat \ {0}
      BY <2>5, TailAssumption
    <3> HIDE DEF n
    <3>2. 2 * n <= PageSize + 1
      BY <3>1
    <3> QED
      BY <3>2 DEF n
  <2> QED
    BY <1>0, <2>1, <2>6, BoundKept
<1>10. CASE ReadFails
  BY <1>0, <1>10, BoundKept DEF ReadFails
<1>11. CASE Send
  BY <1>11, BoundSend
<1>12. CASE CloseAll
  BY <1>0, <1>12, BoundKept DEF CloseAll
<1>13. CASE UNCHANGED tailVars
  BY <1>0, <1>13, BoundKept DEF tailVars, readVars
<1> QED
  BY <1>1, <1>2, <1>3, <1>4, <1>5, <1>6, <1>7, <1>8, <1>9, <1>10, <1>11, <1>12, <1>13
     DEF TailNext, Request, Goroutine

(* For any file and any number of lines asked for: GetTailLog, which keeps  *)
(* every line of the last page it reads, returns more than it was asked for *)
(* by less than PageSize / 2 lines.                                         *)
THEOREM TailIsBounded == TailSpec => []TailBounded
<1>1. BoundInv => TailBounded
  BY DEF BoundInv
<1> QED
  BY <1>1, TailInvariant, BoundInit, BoundStep, PTL DEF TailSpec

-----------------------------------------------------------------------------
(* Split is strings.Split. *)

\* Cuts at the line ends of s, and at its beginning and end, leave the lines.
Cuts(s, lines, cut) ==
    /\ cut[0] = 0 /\ cut[Len(lines)] = Len(s) + 1
    /\ \A i \in 1 .. Len(lines) - 1 : cut[i] \in 1 .. Len(s) /\ s[cut[i]] = 0
    /\ \A i \in 1 .. Len(lines) :
          /\ cut[i - 1] < cut[i] /\ lines[i] = SubSeq(s, cut[i - 1] + 1, cut[i] - 1)
          /\ \A j \in cut[i - 1] + 1 .. cut[i] - 1 : s[j] # 0

IsSplit(s, lines) == \E cut \in [0 .. Len(lines) -> 0 .. Len(s) + 1] : Cuts(s, lines, cut)

\* A part of a file that does not reach its last byte.
LEMMA SubSeqFront ==
    ASSUME NEW s \in Seq(Nat), NEW b \in Nat, NEW m \in Nat, NEW n \in Int, 1 <= m, n <= Len(s)
    PROVE  SubSeq(Append(s, b), m, n) = SubSeq(s, m, n)
<1> DEFINE sb == Append(s, b)
<1>1. Len(s) \in Nat /\ sb \in Seq(Nat) /\ Len(sb) = Len(s) + 1
  OBVIOUS
<1>2. CASE n < m
  BY <1>2, SubSeqEmpty
<1>3. CASE ~(n < m)
  <2>1. Len(s) \in 0 .. Len(sb) /\ m \in Int /\ Len(s) \in 0 .. Len(s)
    BY <1>1
  <2>2. SubSeq(sb, 1, Len(s)) = SubSeq(s, 1, Len(s))
    BY <2>1, SubSeqAppend
  <2>3. SubSeq(s, 1, Len(s)) = s
    BY SubSeqFull
  <2> HIDE DEF sb
  <2>4. SubSeq(SubSeq(sb, 1, Len(s)), m, n) = SubSeq(sb, m, n)
    BY <1>1, <2>1, SubSeqPrefix
  <2> QED
    BY <2>2, <2>3, <2>4 DEF sb
<1> QED
  BY <1>2, <1>3

(* Split of the model is strings.Split, which GetTailLog calls: its lines   *)
(* are what is between the line ends, and hold none.                       *)
THEOREM SplitCuts == \A s \in Seq(Nat) : IsSplit(s, Split(s))
<1> DEFINE T == {s \in Seq(Nat) : IsSplit(s, Split(s))}
<1>1. <<>> \in T
  <2> DEFINE e == <<>>
             L == <<NoBytes>>
             cut == [i \in 0 .. 1 |-> i]
  <2>1. e \in Seq(Nat) /\ Len(e) = 0 /\ Len(L) = 1 /\ L[1] = <<>>
    BY DEF NoBytes
  <2>2. SubSeq(e, 1, 0) = <<>>
    BY SubSeqEmpty
  <2>3. cut \in [0 .. 1 -> 0 .. 1] /\ cut[0] = 0 /\ cut[1] = 1
    OBVIOUS
  <2> HIDE DEF L, cut, e
  <2>4. Cuts(e, L, cut)
    <3>1. 1 .. Len(L) - 1 = {} /\ 1 .. Len(L) = {1}
      BY <2>1
    <3>2. 0 + 1 .. 1 - 1 = {}
      OBVIOUS
    <3>3. ASSUME NEW i \in 1 .. Len(L)
          PROVE  /\ cut[i - 1] < cut[i] /\ L[i] = SubSeq(e, cut[i - 1] + 1, cut[i] - 1)
                 /\ \A j \in cut[i - 1] + 1 .. cut[i] - 1 : e[j] # 0
      <4>1. i = 1 /\ cut[i - 1] = 0 /\ cut[i] = 1
        BY <2>3, <3>1
      <4>2. cut[i - 1] + 1 = 1 /\ cut[i] - 1 = 0 /\ cut[i - 1] < cut[i]
        BY <4>1
      <4>3. L[i] = <<>> /\ SubSeq(e, cut[i - 1] + 1, cut[i] - 1) = <<>>
        BY <2>1, <2>2, <4>1, <4>2
      <4>4. cut[i - 1] + 1 .. cut[i] - 1 = {}
        BY <4>2
      <4> QED
        BY <4>2, <4>3, <4>4
    <3> QED
      BY <2>1, <2>3, <3>1, <3>3 DEF Cuts
  <2>5. IsSplit(e, L)
    BY <2>1, <2>3, <2>4 DEF IsSplit
  <2> QED
    BY <2>1, <2>5, SplitEmpty DEF L, e
<1>2. ASSUME NEW s \in T, NEW b \in Nat PROVE Append(s, b) \in T
  <2> DEFINE L == Split(s)
             n == Len(L)
             sb == Append(s, b)
             Lb == Split(sb)
  <2>1. s \in Seq(Nat) /\ sb \in Seq(Nat) /\ IsSplit(s, L)
    OBVIOUS
  <2>2. /\ Len(s) \in Nat /\ Len(sb) = Len(s) + 1 /\ sb[Len(s) + 1] = b
        /\ \A j \in 1 .. Len(s) : sb[j] = s[j]
    BY <2>1
  <2>3. L \in Lines /\ Lb = SplitStep[<<L, b>>]
    BY <2>1, SplitType, SplitAppend
  <2> HIDE DEF L, Lb, sb
  <2>4. L \in Seq(Seq(Nat)) /\ n \in Nat \ {0}
    BY <2>3, EmptySeq DEF Lines
  <2>5. PICK cut \in [0 .. n -> 0 .. Len(s) + 1] : Cuts(s, L, cut)
    BY <2>1 DEF IsSplit
  <2>6. /\ cut[0] = 0 /\ cut[n] = Len(s) + 1
        /\ \A i \in 1 .. n - 1 : cut[i] \in 1 .. Len(s) /\ s[cut[i]] = 0
        /\ \A i \in 1 .. n :
              /\ cut[i - 1] < cut[i] /\ L[i] = SubSeq(s, cut[i - 1] + 1, cut[i] - 1)
              /\ \A j \in cut[i - 1] + 1 .. cut[i] - 1 : s[j] # 0
    BY <2>5 DEF Cuts
  <2> HIDE DEF n
  <2>7. ASSUME NEW i \in 1 .. n
        PROVE  /\ cut[i - 1] \in 0 .. Len(s) /\ cut[i] \in 1 .. Len(s) + 1
               /\ SubSeq(sb, cut[i - 1] + 1, cut[i] - 1) = SubSeq(s, cut[i - 1] + 1, cut[i] - 1)
               /\ \A j \in cut[i - 1] + 1 .. cut[i] - 1 : sb[j] # 0
    <3>1. i - 1 \in 0 .. n /\ i \in 0 .. n
      BY <2>4
    <3>2. cut[i - 1] \in 0 .. Len(s) + 1 /\ cut[i] \in 0 .. Len(s) + 1 /\ cut[i - 1] < cut[i]
      BY <2>5, <2>6, <3>1
    <3>3. cut[i - 1] \in 0 .. Len(s) /\ cut[i] \in 1 .. Len(s) + 1
      BY <2>2, <3>2
    <3> DEFINE m == cut[i - 1] + 1
               k == cut[i] - 1
    <3>4. m \in Nat /\ k \in Int /\ 1 <= m /\ k <= Len(s)
      BY <2>2, <3>3
    <3>5. \A j \in m .. k : s[j] # 0
      BY <2>6
    <3> HIDE DEF m, k
    <3>6. SubSeq(sb, m, k) = SubSeq(s, m, k)
      BY <2>1, <3>4, SubSeqFront DEF sb
    <3>7. \A j \in m .. k : j \in 1 .. Len(s)
      BY <2>2, <3>4
    <3>8. \A j \in m .. k : sb[j] # 0
      BY <2>2, <3>5, <3>7
    <3> QED
      BY <3>3, <3>6, <3>8 DEF m, k
  <2>8. CASE b = 0
    <3> DEFINE new == [i \in 0 .. n + 1 |-> IF i = n + 1 THEN Len(s) + 2 ELSE cut[i]]
    <3>1. /\ Lb = Append(L, NoBytes) /\ Len(Lb) = n + 1 /\ Lb[n + 1] = <<>>
          /\ \A i \in 1 .. n : Lb[i] = L[i]
      <4> DEFINE e == NoBytes
      <4>1. Lb = Append(L, e)
        BY <2>3, <2>8, SplitStepType
      <4>2. e \in Seq(Nat)
        BY DEF NoBytes
      <4> HIDE DEF e
      <4>3. Len(Lb) = n + 1 /\ Lb[n + 1] = e /\ \A i \in 1 .. n : Lb[i] = L[i]
        BY <2>4, <4>1, <4>2 DEF n
      <4> QED
        BY <4>1, <4>3 DEF e, NoBytes
    <3>2. /\ new \in [0 .. n + 1 -> 0 .. Len(s) + 2] /\ new[n + 1] = Len(s) + 2
          /\ \A i \in 0 .. n : new[i] = cut[i]
      BY <2>2, <2>4, <2>5
    <3> HIDE DEF new
    <3>3. ASSUME NEW i \in 1 .. n + 1
          PROVE  /\ new[i - 1] < new[i] /\ Lb[i] = SubSeq(sb, new[i - 1] + 1, new[i] - 1)
                 /\ \A j \in new[i - 1] + 1 .. new[i] - 1 : sb[j] # 0
      <4>1. CASE i = n + 1
        <5>1. new[i - 1] = Len(s) + 1 /\ new[i] = Len(s) + 2
          BY <2>4, <2>6, <3>2, <4>1
        <5>2. Len(s) + 1 < Len(s) + 2 /\ Len(s) + 1 + 1 \in Int /\ Len(s) + 2 - 1 \in Int
              /\ Len(s) + 2 - 1 < Len(s) + 1 + 1
          BY <2>2
        <5>3. SubSeq(sb, Len(s) + 1 + 1, Len(s) + 2 - 1) = <<>>
          BY <5>2, SubSeqEmpty
        <5>4. Len(s) + 1 + 1 .. Len(s) + 2 - 1 = {}
          BY <5>2
        <5>5. Lb[i] = SubSeq(sb, new[i - 1] + 1, new[i] - 1)
          <6>1. Lb[i] = <<>>
            BY <3>1, <4>1
          <6>2. SubSeq(sb, new[i - 1] + 1, new[i] - 1) = <<>>
            BY <5>1, <5>3
          <6> QED
            BY <6>1, <6>2
        <5>6. new[i - 1] + 1 .. new[i] - 1 = {}
          BY <5>1, <5>4
        <5>7. new[i - 1] < new[i]
          BY <5>1, <5>2
        <5> QED
          BY <5>5, <5>6, <5>7
      <4>2. CASE i # n + 1
        <5>1. i \in 1 .. n /\ i - 1 \in 0 .. n /\ i \in 0 .. n
          BY <2>4, <4>2
        <5>2. new[i - 1] = cut[i - 1] /\ new[i] = cut[i] /\ Lb[i] = L[i]
          BY <3>1, <3>2, <5>1
        <5> QED
          BY <2>6, <2>7, <5>1, <5>2
      <4> QED
        BY <4>1, <4>2
    <3>4. ASSUME NEW i \in 1 .. n PROVE new[i] \in 1 .. Len(s) + 1 /\ sb[new[i]] = 0
      <4>1. i \in 0 .. n /\ new[i] = cut[i]
        BY <2>4, <3>2
      <4>2. CASE i = n
        BY <2>2, <2>6, <2>8, <4>1, <4>2
      <4>3. CASE i # n
        <5>1. i \in 1 .. n - 1
          BY <2>4, <4>3
        <5>2. cut[i] \in 1 .. Len(s) /\ s[cut[i]] = 0
          BY <2>6, <5>1
        <5> QED
          BY <2>2, <4>1, <5>2
      <4> QED
        BY <4>2, <4>3
    <3>5. new[0] = 0
      BY <2>4, <2>6, <3>2
    <3>6. Cuts(sb, Lb, new)
      <4>1. Len(Lb) - 1 = n /\ Len(sb) + 1 = Len(s) + 2
        BY <2>2, <2>4, <3>1
      <4> QED
        BY <2>2, <3>1, <3>2, <3>3, <3>4, <3>5, <4>1 DEF Cuts
    <3>7. new \in [0 .. Len(Lb) -> 0 .. Len(sb) + 1]
      <4>1. Len(Lb) = n + 1 /\ Len(sb) + 1 = Len(s) + 2
        BY <2>2, <3>1
      <4> QED
        BY <3>2, <4>1
    <3>8. IsSplit(sb, Lb)
      BY <3>6, <3>7 DEF IsSplit
    <3> QED
      BY <2>1, <3>8 DEF Lb, sb
  <2>9. CASE b # 0
    <3> DEFINE new == [cut EXCEPT ![n] = Len(s) + 2]
               e == Append(L[n], b)
    <3>1. /\ Len(Lb) = n /\ Lb[n] = e
          /\ \A i \in 1 .. n - 1 : Lb[i] = L[i]
      <4>1. L[n] \in Seq(Nat) /\ n \in 1 .. n /\ n = Len(L)
        BY <2>4 DEF n
      <4>2. e \in Seq(Nat)
        BY <4>1
      <4>3. Lb = [L EXCEPT ![n] = e]
        BY <2>3, <2>9, <4>1, SplitStepType
      <4> HIDE DEF e
      <4>4. /\ Len(Lb) = Len(L)
            /\ \A j \in 1 .. Len(L) : Lb[j] = IF j = n THEN e ELSE L[j]
        BY <2>4, <4>1, <4>2, <4>3, ExceptSeq
      <4>5. Len(Lb) = n /\ n \in 1 .. Len(L)
        BY <4>1, <4>4
      <4>6. Lb[n] = e
        BY <4>4, <4>5
      <4>7. ASSUME NEW i \in 1 .. n - 1 PROVE Lb[i] = L[i]
        <5>1. i \in 1 .. Len(L) /\ i # n
          BY <2>4, <4>1
        <5> QED
          BY <4>4, <5>1
      <4> QED
        BY <4>5, <4>6, <4>7
    <3>2. /\ new \in [0 .. n -> 0 .. Len(s) + 2] /\ new[n] = Len(s) + 2
          /\ \A i \in 0 .. n - 1 : new[i] = cut[i]
      BY <2>2, <2>4, <2>5
    <3> HIDE DEF new
    <3>3. ASSUME NEW i \in 1 .. n
          PROVE  /\ new[i - 1] < new[i] /\ Lb[i] = SubSeq(sb, new[i - 1] + 1, new[i] - 1)
                 /\ \A j \in new[i - 1] + 1 .. new[i] - 1 : sb[j] # 0
      <4>0. i - 1 \in 0 .. n - 1 /\ new[i - 1] = cut[i - 1]
        BY <2>4, <3>2
      <4>1. CASE i = n
        <5> DEFINE m == cut[n - 1] + 1
        <5>1. cut[n - 1] \in 0 .. Len(s) /\ cut[n] = Len(s) + 1 /\ n \in 1 .. n
          BY <2>4, <2>6, <2>7
        <5>2. /\ L[n] = SubSeq(s, m, cut[n] - 1) /\ \A j \in m .. cut[n] - 1 : sb[j] # 0
              /\ SubSeq(sb, m, cut[n] - 1) = SubSeq(s, m, cut[n] - 1)
          BY <2>6, <2>7, <5>1
        <5>3. cut[n] - 1 = Len(s) /\ m \in 1 .. Len(s) + 1 /\ new[n] - 1 = Len(s) + 1
          BY <2>2, <3>2, <5>1
        <5>4. L[n] = SubSeq(sb, m, Len(s)) /\ \A j \in m .. Len(s) : sb[j] # 0
          BY <5>2, <5>3
        <5>5. new[n - 1] + 1 = m /\ new[n - 1] < new[n]
          BY <2>2, <3>2, <4>0, <4>1, <5>1
        <5> HIDE DEF m
        <5>6. SubSeq(sb, m, Len(s) + 1) = e
          <6> DEFINE k == Len(s) + 1
          <6>1. m \in 1 .. Len(sb) /\ k \in m .. Len(sb) /\ k - 1 = Len(s)
            BY <2>2, <5>3
          <6>2. sb[k] = b
            BY <2>2
          <6> HIDE DEF k
          <6>3. SubSeq(sb, m, k) = SubSeq(sb, m, k - 1) \o <<sb[k]>>
            BY <2>1, <6>1, SubSeqRecursiveSecond
          <6>4. L[n] \in Seq(Nat)
            BY <2>4, <5>1 DEF n
          <6>5. Append(L[n], b) = L[n] \o <<b>>
            BY <6>4, AppendIsConcat
          <6> QED
            BY <5>4, <6>1, <6>2, <6>3, <6>5 DEF k
        <5>7. \A j \in m .. Len(s) + 1 : j \in m .. Len(s) \/ j = Len(s) + 1
          BY <2>2, <5>3
        <5>8. \A j \in m .. Len(s) + 1 : sb[j] # 0
          BY <2>2, <2>9, <5>4, <5>7
        <5> HIDE DEF e
        <5> QED
          BY <3>1, <4>1, <5>3, <5>5, <5>6, <5>8
      <4>2. CASE i # n
        <5>1. i \in 1 .. n - 1 /\ i \in 0 .. n - 1
          BY <2>4, <4>2
        <5>2. new[i] = cut[i] /\ Lb[i] = L[i]
          BY <3>1, <3>2, <5>1
        <5> QED
          BY <2>6, <2>7, <4>0, <5>1, <5>2
      <4> QED
        BY <4>1, <4>2
    <3>4. ASSUME NEW i \in 1 .. n - 1 PROVE new[i] \in 1 .. Len(s) + 1 /\ sb[new[i]] = 0
      <4>1. i \in 0 .. n - 1
        BY <2>4
      <4>2. new[i] = cut[i] /\ cut[i] \in 1 .. Len(s) /\ s[cut[i]] = 0
        BY <2>6, <3>2, <4>1
      <4> QED
        BY <2>2, <4>2
    <3>5. new[0] = 0
      BY <2>4, <2>6, <3>2
    <3>6. Cuts(sb, Lb, new)
      <4>1. Len(Lb) = n /\ Len(sb) + 1 = Len(s) + 2
        BY <2>2, <3>1
      <4> QED
        BY <2>2, <3>2, <3>3, <3>4, <3>5, <4>1 DEF Cuts
    <3>7. new \in [0 .. Len(Lb) -> 0 .. Len(sb) + 1]
      <4>1. Len(Lb) = n /\ Len(sb) + 1 = Len(s) + 2
        BY <2>2, <3>1
      <4> QED
        BY <3>2, <4>1
    <3>8. IsSplit(sb, Lb)
      BY <3>6, <3>7 DEF IsSplit
    <3> QED
      BY <2>1, <3>8 DEF Lb, sb
  <2> QED
    BY <2>8, <2>9
<1>3. T \in SUBSET Seq(Nat)
  OBVIOUS
<1> HIDE DEF T
<1>4. T = Seq(Nat)
  BY <1>1, <1>2, <1>3, SeqInduction
<1> QED
  BY <1>4 DEF T
=============================================================================
