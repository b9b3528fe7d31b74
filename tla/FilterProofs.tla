----------------------------- MODULE FilterProofs -----------------------------
(***************************************************************************)
(* What Filter returns, for every sequence.  The induction over the length *)
(* of the sequence rests on LeastNatural, which is proved here from the    *)
(* well-foundedness of the subset order on finite sets.                    *)
(***************************************************************************)
EXTENDS Filter, Integers, FiniteSets, Sequences, FiniteSetTheorems, SequenceTheorems,
        WellFoundedInduction, TLAPS

\* A set of naturals has a least element: the shortest of the intervals 1 .. x.
LEMMA LeastNatural ==
  ASSUME NEW T, T \subseteq Nat, T # {}
  PROVE  \E x \in T : \A y \in T : x <= y
<1> DEFINE Shorter == StrictSubsetOrdering(Nat)
           Prefixes == {1 .. x : x \in T}
<1>1. IsWellFoundedOn(Shorter, FiniteSubsetsOf(Nat))
  BY FS_StrictSubsetOrderingWellFounded
<1>2. Prefixes \subseteq FiniteSubsetsOf(Nat)
  <2> SUFFICES ASSUME NEW x \in T PROVE 1 .. x \in FiniteSubsetsOf(Nat)
    OBVIOUS
  <2>1. x \in Int
    OBVIOUS
  <2>2. IsFiniteSet(1 .. x)
    BY <2>1, FS_Interval
  <2>3. 1 .. x \subseteq Nat
    BY <2>1
  <2> QED BY <2>2, <2>3 DEF FiniteSubsetsOf
<1>3. Prefixes # {}
  OBVIOUS
<1>4. \A x, y \in T : y < x => <<1 .. y, 1 .. x>> \in Shorter
  <2> SUFFICES ASSUME NEW x \in T, NEW y \in T, y < x
               PROVE <<1 .. y, 1 .. x>> \in Shorter
    OBVIOUS
  <2>1. x \in Nat /\ y \in Nat
    OBVIOUS
  <2>2. 1 .. y \subseteq 1 .. x /\ x \in 1 .. x /\ x \notin 1 .. y
    BY <2>1
  <2>3. 1 .. y \subseteq Nat /\ 1 .. x \subseteq Nat
    BY <2>1
  <2> QED BY <2>2, <2>3 DEF StrictSubsetOrdering
<1> HIDE DEF Shorter
<1>5. PICK U \in Prefixes : \A V \in Prefixes : ~ (<<V, U>> \in Shorter)
  <2> HIDE DEF Prefixes
  <2> QED BY <1>1, <1>2, <1>3, WFMin
<1>6. PICK x \in T : U = 1 .. x
  BY <1>5
<1>7. \A y \in T : ~ (<<1 .. y, 1 .. x>> \in Shorter)
  BY <1>5, <1>6
<1>8. \A y \in T : x <= y
  <2> SUFFICES ASSUME NEW y \in T PROVE x <= y
    OBVIOUS
  <2>1. ~ (y < x)
    BY <1>4, <1>7
  <2> QED BY <2>1
<1> QED BY <1>8

LEMMA Induction ==
  ASSUME NEW P, 0 \in P, \A n \in Nat : n \in P => n + 1 \in P
  PROVE  Nat \subseteq P
<1> SUFFICES ASSUME Nat \ P # {} PROVE FALSE
  OBVIOUS
<1>1. PICK m \in Nat \ P : \A n \in Nat \ P : m <= n
  BY LeastNatural
<1>2. m # 0 /\ m - 1 \in Nat /\ ~ (m <= m - 1) /\ (m - 1) + 1 = m
  OBVIOUS
<1>3. m - 1 \in P
  BY <1>1, <1>2
<1> QED BY <1>2, <1>3

-----------------------------------------------------------------------------
(* The positions that Filter keeps of the first n elements of a sequence. *)

\* kept is the sequence of the elements of s that are in S, up to position n: pos says where
\* in s each of them stands.
Embeds(kept, s, S, n) ==
  \E pos \in [1 .. Len(kept) -> 1 .. n] :
    /\ \A i, j \in 1 .. Len(kept) : i < j => pos[i] < pos[j]
    /\ \A i \in 1 .. Len(kept) : kept[i] = s[pos[i]] /\ s[pos[i]] \in S
    /\ \A k \in 1 .. n : s[k] \in S => \E i \in 1 .. Len(kept) : pos[i] = k

Loop(s, S, kept, m) ==
  kept = [n \in 0 .. m |-> IF n = 0 THEN <<>>
                           ELSE IF s[n] \in S THEN Append(kept[n - 1], s[n]) ELSE kept[n - 1]]

\* The recursive function that Filter chooses exists.
LEMMA LoopExists ==
  ASSUME NEW s, NEW S, NEW m \in Nat
  PROVE  \E kept : Loop(s, S, kept, m)
<1> DEFINE P == {n \in Nat : \E kept : Loop(s, S, kept, n)}
<1>1. 0 \in P
  <2> DEFINE g == [n \in 0 .. 0 |-> <<>>]
  <2>1. Loop(s, S, g, 0)
    BY DEF Loop
  <2> QED BY <2>1
<1>2. ASSUME NEW n \in Nat, n \in P PROVE n + 1 \in P
  <2>1. PICK f : Loop(s, S, f, n)
    BY <1>2
  <2> DEFINE g == [k \in 0 .. n + 1 |->
                     IF k <= n THEN f[k] ELSE IF s[n + 1] \in S THEN Append(f[n], s[n + 1]) ELSE f[n]]
  <2>2. ASSUME NEW k \in 0 .. n + 1
        PROVE  g[k] = IF k = 0 THEN <<>>
                      ELSE IF s[k] \in S THEN Append(g[k - 1], s[k]) ELSE g[k - 1]
    <3>1. CASE k = n + 1
      <4>1. g[k] = (IF s[n + 1] \in S THEN Append(f[n], s[n + 1]) ELSE f[n]) /\ g[k - 1] = f[n]
        BY <3>1
      <4> QED BY <3>1, <4>1
    <3>2. CASE k # n + 1
      <4>1. k \in 0 .. n /\ g[k] = f[k]
        BY <3>2
      <4>2. f[k] = IF k = 0 THEN <<>>
                   ELSE IF s[k] \in S THEN Append(f[k - 1], s[k]) ELSE f[k - 1]
        BY <2>1, <4>1 DEF Loop
      <4>3. k # 0 => g[k - 1] = f[k - 1]
        BY <4>1
      <4> QED BY <4>1, <4>2, <4>3
    <3> QED BY <3>1, <3>2
  <2>3. Loop(s, S, g, n + 1)
    <3>1. g = [k \in 0 .. n + 1 |-> g[k]]
      OBVIOUS
    <3> HIDE DEF g
    <3>2. [k \in 0 .. n + 1 |-> g[k]] =
          [k \in 0 .. n + 1 |-> IF k = 0 THEN <<>>
                                ELSE IF s[k] \in S THEN Append(g[k - 1], s[k]) ELSE g[k - 1]]
      BY <2>2
    <3> QED BY <3>1, <3>2 DEF Loop
  <2> QED BY <2>3
<1>3. m \in P
  <2> HIDE DEF P
  <2> QED BY <1>1, <1>2, Induction
<1> QED BY <1>3

\* What the loop has kept after n elements stands in s at increasing positions.
LEMMA LoopEmbeds ==
  ASSUME NEW T, NEW s \in Seq(T), NEW S, NEW kept, Loop(s, S, kept, Len(s))
  PROVE  kept[Len(s)] \in Seq(T) /\ Embeds(kept[Len(s)], s, S, Len(s))
<1> DEFINE P == {n \in Nat : n <= Len(s) => kept[n] \in Seq(T) /\ Embeds(kept[n], s, S, n)}
<1>1. Len(s) \in Nat
  OBVIOUS
<1>2. ASSUME NEW n \in 0 .. Len(s)
      PROVE  kept[n] = IF n = 0 THEN <<>>
                       ELSE IF s[n] \in S THEN Append(kept[n - 1], s[n]) ELSE kept[n - 1]
  BY DEF Loop
<1>3. 0 \in P
  <2>1. kept[0] = <<>> /\ Len(<<>>) = 0
    BY <1>1, <1>2
  <2>2. 1 .. 0 = {}
    OBVIOUS
  <2>3. Embeds(<<>>, s, S, 0)
    <3> DEFINE pos == [i \in 1 .. 0 |-> i]
    <3>1. pos \in [1 .. Len(<<>>) -> 1 .. 0]
      BY <2>1
    <3> QED BY <2>1, <2>2, <3>1 DEF Embeds
  <2>4. kept[0] \in Seq(T)
    BY <2>1, EmptySeq
  <2> QED BY <2>1, <2>3, <2>4
<1>4. ASSUME NEW n \in Nat, n \in P PROVE n + 1 \in P
  <2> SUFFICES ASSUME n + 1 <= Len(s)
               PROVE  kept[n + 1] \in Seq(T) /\ Embeds(kept[n + 1], s, S, n + 1)
    OBVIOUS
  <2>1. kept[n] \in Seq(T) /\ Embeds(kept[n], s, S, n)
    BY <1>1, <1>4
  <2>2. /\ n + 1 \in 1 .. Len(s) /\ (n + 1) - 1 = n /\ n + 1 # 0 /\ s[n + 1] \in T
        /\ Len(kept[n]) \in Nat
    BY <1>1, <2>1
  <2>3. PICK pos \in [1 .. Len(kept[n]) -> 1 .. n] :
          /\ \A i, j \in 1 .. Len(kept[n]) : i < j => pos[i] < pos[j]
          /\ \A i \in 1 .. Len(kept[n]) : kept[n][i] = s[pos[i]] /\ s[pos[i]] \in S
          /\ \A k \in 1 .. n : s[k] \in S => \E i \in 1 .. Len(kept[n]) : pos[i] = k
    BY <2>1 DEF Embeds
  <2>4. CASE s[n + 1] \notin S
    <3>1. kept[n + 1] = kept[n]
      BY <1>1, <1>2, <2>2, <2>4
    <3>2. pos \in [1 .. Len(kept[n]) -> 1 .. n + 1]
      BY <2>3
    <3>3. \A k \in 1 .. n + 1 : s[k] \in S => \E i \in 1 .. Len(kept[n]) : pos[i] = k
      BY <2>3, <2>4
    <3>4. Embeds(kept[n], s, S, n + 1)
      BY <2>3, <3>2, <3>3 DEF Embeds
    <3> QED BY <2>1, <3>1, <3>4
  <2>5. CASE s[n + 1] \in S
    <3> DEFINE m == Len(kept[n])
               more == Append(kept[n], s[n + 1])
               to == [i \in 1 .. m + 1 |-> IF i = m + 1 THEN n + 1 ELSE pos[i]]
    <3>1. kept[n + 1] = more
      <4>1. n + 1 \in 0 .. Len(s)
        BY <2>2
      <4>2. kept[n + 1] = IF n + 1 = 0 THEN <<>>
                          ELSE IF s[n + 1] \in S THEN Append(kept[(n + 1) - 1], s[n + 1])
                               ELSE kept[(n + 1) - 1]
        BY <1>2, <4>1
      <4> QED BY <2>2, <2>5, <4>2
    <3>2. /\ more \in Seq(T) /\ Len(more) = m + 1 /\ more[m + 1] = s[n + 1]
          /\ \A i \in 1 .. m : more[i] = kept[n][i]
      BY <2>1, <2>2, AppendProperties
    <3>3. m \in Nat
      BY <2>2
    <3> HIDE DEF m, more
    <3>4. \A i \in 1 .. m + 1 : i \in 1 .. m \/ i = m + 1
      BY <3>3
    <3>5. /\ \A i \in 1 .. m : to[i] = pos[i] /\ pos[i] \in 1 .. n
          /\ to[m + 1] = n + 1
      BY <2>3, <3>3 DEF m
    <3>6. to \in [1 .. m + 1 -> 1 .. n + 1]
      <4>1. ASSUME NEW i \in 1 .. m + 1 PROVE to[i] \in 1 .. n + 1
        <5> HIDE DEF to
        <5>1. CASE i \in 1 .. m
          BY <3>5, <5>1
        <5>2. CASE i = m + 1
          BY <3>5, <5>2
        <5> QED BY <3>4, <5>1, <5>2
      <4>2. to = [i \in 1 .. m + 1 |-> to[i]]
        OBVIOUS
      <4> HIDE DEF to
      <4> QED BY <4>1, <4>2
    <3> HIDE DEF to
    <3>7. ASSUME NEW i \in 1 .. m + 1, NEW j \in 1 .. m + 1, i < j PROVE to[i] < to[j]
      <4>1. i \in 1 .. m
        BY <3>3, <3>7
      <4>2. CASE j = m + 1
        BY <3>5, <4>1, <4>2
      <4>3. CASE j \in 1 .. m
        BY <2>3, <3>5, <3>7, <4>1, <4>3 DEF m
      <4> QED BY <3>4, <4>2, <4>3
    <3>8. ASSUME NEW i \in 1 .. m + 1 PROVE more[i] = s[to[i]] /\ s[to[i]] \in S
      <4>1. CASE i = m + 1
        BY <2>5, <3>2, <3>5, <4>1
      <4>2. CASE i \in 1 .. m
        BY <2>3, <3>2, <3>5, <4>2 DEF m
      <4> QED BY <3>4, <4>1, <4>2
    <3>9. ASSUME NEW k \in 1 .. n + 1, s[k] \in S PROVE \E i \in 1 .. m + 1 : to[i] = k
      <4>1. CASE k = n + 1
        <5>1. m + 1 \in 1 .. m + 1
          BY <3>3
        <5> QED BY <3>5, <4>1, <5>1
      <4>2. CASE k # n + 1
        <5>1. k \in 1 .. n
          BY <4>2
        <5>2. PICK i \in 1 .. m : pos[i] = k
          BY <2>3, <3>9, <5>1 DEF m
        <5>3. i \in 1 .. m + 1
          BY <3>3
        <5> QED BY <3>5, <5>2, <5>3
      <4> QED BY <4>1, <4>2
    <3>10. Embeds(more, s, S, n + 1)
      <4>1. Len(more) = m + 1
        BY <3>2
      <4>2. to \in [1 .. Len(more) -> 1 .. n + 1]
        BY <3>6, <4>1
      <4>3. \A i, j \in 1 .. Len(more) : i < j => to[i] < to[j]
        BY <3>7, <4>1
      <4>4. \A i \in 1 .. Len(more) : more[i] = s[to[i]] /\ s[to[i]] \in S
        BY <3>8, <4>1
      <4>5. \A k \in 1 .. n + 1 : s[k] \in S => \E i \in 1 .. Len(more) : to[i] = k
        BY <3>9, <4>1
      <4> QED BY <4>2, <4>3, <4>4, <4>5 DEF Embeds
    <3> QED BY <3>1, <3>2, <3>10
  <2> QED BY <2>4, <2>5
<1>5. Len(s) \in P
  <2> HIDE DEF P
  <2>1. Nat \subseteq P
    BY <1>3, <1>4, Induction
  <2> QED BY <1>1, <2>1
<1> QED BY <1>1, <1>5

\* Filter returns the elements of s that are in S, in the order they have there.
THEOREM FilterKeepsOrder ==
  ASSUME NEW T, NEW s \in Seq(T), NEW S
  PROVE  Filter(s, S) \in Seq(T) /\ Embeds(Filter(s, S), s, S, Len(s))
<1> DEFINE kept == CHOOSE kept : Loop(s, S, kept, Len(s))
<1>1. Loop(s, S, kept, Len(s))
  <2>1. Len(s) \in Nat
    OBVIOUS
  <2>2. \E g : Loop(s, S, g, Len(s))
    BY <2>1, LoopExists
  <2> QED BY <2>2
<1>2. Filter(s, S) = kept[Len(s)]
  BY DEF Filter, Loop
<1> HIDE DEF kept
<1> QED BY <1>1, <1>2, LoopEmbeds

\* In particular nothing else is in it, nothing that belongs there is missing, and what stood
\* in s once stands there once.
THEOREM FilterSelects ==
  ASSUME NEW T, NEW s \in Seq(T), NEW S
  PROVE  /\ Filter(s, S) \in Seq(T) /\ Len(Filter(s, S)) \in Nat
         /\ \A i \in 1 .. Len(Filter(s, S)) :
               Filter(s, S)[i] \in S /\ \E k \in 1 .. Len(s) : s[k] = Filter(s, S)[i]
         /\ \A k \in 1 .. Len(s) :
               s[k] \in S => \E i \in 1 .. Len(Filter(s, S)) : Filter(s, S)[i] = s[k]
         /\ (\A k, l \in 1 .. Len(s) : k < l => s[k] # s[l])
              => \A i, j \in 1 .. Len(Filter(s, S)) : i < j => Filter(s, S)[i] # Filter(s, S)[j]
<1> DEFINE f == Filter(s, S)
<1>1. f \in Seq(T) /\ Embeds(f, s, S, Len(s))
  BY FilterKeepsOrder
<1> HIDE DEF f
<1>2. PICK pos \in [1 .. Len(f) -> 1 .. Len(s)] :
        /\ \A i, j \in 1 .. Len(f) : i < j => pos[i] < pos[j]
        /\ \A i \in 1 .. Len(f) : f[i] = s[pos[i]] /\ s[pos[i]] \in S
        /\ \A k \in 1 .. Len(s) : s[k] \in S => \E i \in 1 .. Len(f) : pos[i] = k
  BY <1>1 DEF Embeds
<1>3. \A i \in 1 .. Len(f) : f[i] \in S /\ \E k \in 1 .. Len(s) : s[k] = f[i]
  BY <1>2
<1>4. \A k \in 1 .. Len(s) : s[k] \in S => \E i \in 1 .. Len(f) : f[i] = s[k]
  BY <1>2
<1>5. ASSUME \A k, l \in 1 .. Len(s) : k < l => s[k] # s[l],
             NEW i \in 1 .. Len(f), NEW j \in 1 .. Len(f), i < j
      PROVE  f[i] # f[j]
  <2>1. pos[i] \in 1 .. Len(s) /\ pos[j] \in 1 .. Len(s) /\ pos[i] < pos[j]
    BY <1>2, <1>5
  <2> QED BY <1>2, <1>5, <2>1
<1>6. Len(f) \in Nat
  BY <1>1
<1> QED BY <1>1, <1>3, <1>4, <1>5, <1>6 DEF f
===============================================================================
