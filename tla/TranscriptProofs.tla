-------------------------- MODULE TranscriptProofs --------------------------
(***************************************************************************)
(* What Transcript promises of a reply, for every value of the constants.  *)
(***************************************************************************)
EXTENDS Transcript, TLAPS, FiniteSetTheorems, WellFoundedInduction

-----------------------------------------------------------------------------
(* Induction over numbers and sequences, for one set at a time.            *)

(* A set of naturals that is not empty has a least element.                *)
LEMMA LeastNatural ==
    ASSUME NEW S \in SUBSET Nat, S # {}
    PROVE  \E x \in S : \A y \in S : x <= y
<1>1. IsWellFoundedOn(OpToRel(<, Nat), Nat)
  BY NatLessThanWellFounded
<1>2. PICK x \in S : \A y \in S : ~(<<y, x>> \in OpToRel(<, Nat))
  BY <1>1, WFMin, Zenon
<1>3. ASSUME NEW y \in S PROVE x <= y
  <2>1. ~(<<y, x>> \in OpToRel(<, Nat))
    BY <1>2
  <2>2. y < x => <<y, x>> \in OpToRel(<, Nat)
    BY DEF OpToRel
  <2>3. ~(y < x)
    BY <2>1, <2>2, Zenon
  <2>4. x \in Nat /\ y \in Nat
    OBVIOUS
  <2> HIDE <2>1, <2>2
  <2> QED BY ONLY <2>3, <2>4
<1> QED BY <1>3

(* A set with 0 and the successor of each of its elements has them all.    *)
LEMMA EveryNatural ==
    ASSUME NEW G, 0 \in G, \A n \in Nat : n \in G => n + 1 \in G
    PROVE  \A n \in Nat : n \in G
<1> DEFINE Bad == {n \in Nat : n \notin G}
<1> SUFFICES ASSUME Bad # {} PROVE FALSE
  OBVIOUS
<1>1. Bad \in SUBSET Nat
  OBVIOUS
<1>2. PICK n \in Bad : \A m \in Bad : n <= m
  <2> HIDE DEF Bad
  <2> QED BY <1>1, LeastNatural
<1>3. n \in Nat /\ n \notin G /\ n # 0
  BY <1>2
<1>4. n - 1 \in Nat /\ ~(n <= n - 1) /\ (n - 1) + 1 = n
  BY <1>3
<1>5. n - 1 \in G
  BY <1>2, <1>4
<1> QED BY <1>3, <1>4, <1>5

(* A set with <<>> and every extension of its elements has all sequences.  *)
LEMMA EverySequence ==
    ASSUME NEW T, NEW G, <<>> \in G,
           \A s \in Seq(T) : \A x \in T : s \in G => Append(s, x) \in G
    PROVE  \A s \in Seq(T) : s \in G
<1> DEFINE H == {n \in Nat : \A s \in Seq(T) : Len(s) = n => s \in G}
<1>1. 0 \in H
  <2>1. \A s \in Seq(T) : Len(s) = 0 => s = <<>>
    OBVIOUS
  <2> QED BY <2>1
<1>2. ASSUME NEW n \in Nat, n \in H PROVE n + 1 \in H
  <2>1. ASSUME NEW s \in Seq(T), Len(s) = n + 1 PROVE s \in G
    <3> DEFINE front == SubSeq(s, 1, n)
    <3>1. front \in Seq(T) /\ Len(front) = n /\ s[n + 1] \in T
      BY <2>1
    <3>2. s = Append(front, s[n + 1])
      BY <2>1
    <3>3. front \in G
      BY <3>1, <1>2
    <3> HIDE DEF front
    <3> QED BY <3>1, <3>2, <3>3
  <2> QED BY <2>1
<1>3. \A n \in Nat : n \in H
  <2> HIDE DEF H
  <2> QED BY <1>1, <1>2, EveryNatural
<1> QED BY <1>3

-----------------------------------------------------------------------------
(* The folds of the model, by their first and last steps.                  *)

(* Two recursions with the same start and the same steps agree.            *)
LEMMA RecursionsAgree ==
    ASSUME NEW m \in Nat, NEW f, NEW g, f[0] = g[0],
           \A i \in 1..m : f[i - 1] = g[i - 1] => f[i] = g[i]
    PROVE  f[m] = g[m]
<1> DEFINE G == {n \in Nat : n <= m => f[n] = g[n]}
<1>1. 0 \in G
  OBVIOUS
<1>2. ASSUME NEW n \in Nat, n \in G PROVE n + 1 \in G
  <2> SUFFICES ASSUME n + 1 <= m PROVE f[n + 1] = g[n + 1]
    OBVIOUS
  <2>1. n + 1 \in 1..m /\ (n + 1) - 1 = n /\ f[n] = g[n]
    BY <1>2
  <2> QED BY <2>1
<1>3. \A n \in Nat : n \in G
  <2> HIDE DEF G
  <2> QED BY <1>1, <1>2, EveryNatural
<1> QED BY <1>3

(* A function that folds a sequence, as Rebuild's own does.                *)
Rebuilds(f, s, m) ==
    f = [n \in 0..m |-> IF n = 0 THEN NothingRebuilt
                        ELSE ApplyEvent(f[n - 1], s[n])]

LEMMA RebuildsExist ==
    ASSUME NEW s, NEW m \in Nat
    PROVE  \E f : Rebuilds(f, s, m)
<1> DEFINE G == {n \in Nat : \E f : Rebuilds(f, s, n)}
<1>1. 0 \in G
  <2> DEFINE f == [n \in 0..0 |-> NothingRebuilt]
  <2>1. Rebuilds(f, s, 0)
    BY DEF Rebuilds
  <2> HIDE DEF f
  <2> QED BY <2>1
<1>2. ASSUME NEW n \in Nat, n \in G PROVE n + 1 \in G
  <2>1. PICK f : Rebuilds(f, s, n)
    BY <1>2
  <2> DEFINE g == [i \in 0..(n + 1) |-> IF i = n + 1 THEN ApplyEvent(f[n], s[n + 1])
                                        ELSE f[i]]
  <2>2. \A i \in 0..n : g[i] = f[i]
    OBVIOUS
  <2>3. ASSUME NEW i \in 0..(n + 1)
        PROVE  g[i] = IF i = 0 THEN NothingRebuilt ELSE ApplyEvent(g[i - 1], s[i])
    <3>1. CASE i = n + 1
      <4>1. g[i] = ApplyEvent(f[n], s[n + 1]) /\ i # 0 /\ i - 1 = n
        BY <3>1
      <4>2. g[n] = f[n]
        BY <2>2
      <4> HIDE DEF g
      <4> QED BY <4>1, <4>2, <3>1
    <3>2. CASE i \in 0..n
      <4>1. f[i] = IF i = 0 THEN NothingRebuilt ELSE ApplyEvent(f[i - 1], s[i])
        BY <2>1, <3>2 DEF Rebuilds
      <4>2. i = 0 \/ i - 1 \in 0..n
        BY <3>2
      <4>3. g[i] = f[i] /\ (i # 0 => g[i - 1] = f[i - 1])
        BY <2>2, <3>2, <4>2
      <4> HIDE DEF g
      <4> QED BY <4>1, <4>3
    <3> QED BY <3>1, <3>2
  <2>4. g = [i \in 0..(n + 1) |-> IF i = 0 THEN NothingRebuilt
                                  ELSE ApplyEvent(g[i - 1], s[i])]
    <3> DEFINE h == [i \in 0..(n + 1) |-> IF i = 0 THEN NothingRebuilt
                                          ELSE ApplyEvent(g[i - 1], s[i])]
    <3>1. DOMAIN g = 0..(n + 1) /\ DOMAIN h = 0..(n + 1)
      OBVIOUS
    <3>2. \A i \in 0..(n + 1) : g[i] = h[i]
      <4> HIDE DEF g
      <4> QED BY <2>3
    <3>3. g = [i \in DOMAIN g |-> g[i]] /\ h = [i \in DOMAIN h |-> h[i]]
      OBVIOUS
    <3> HIDE DEF g, h
    <3>4. g = h
      BY <3>1, <3>2, <3>3
    <3> QED BY <3>4 DEF h
  <2>5. Rebuilds(g, s, n + 1)
    <3> HIDE DEF g
    <3> QED BY <2>4 DEF Rebuilds
  <2> HIDE DEF g
  <2> QED BY <2>5
<1>3. \A n \in Nat : n \in G
  <2> HIDE DEF G
  <2> QED BY <1>1, <1>2, EveryNatural
<1> QED BY <1>3

(* Two of them agree as far as their sequences do.                         *)
LEMMA RebuildsAgree ==
    ASSUME NEW s, NEW t, NEW m \in Nat, NEW k \in Nat, NEW f, NEW g,
           Rebuilds(f, s, m), Rebuilds(g, t, k), m <= k,
           \A i \in 1..m : s[i] = t[i]
    PROVE  f[m] = g[m]
<1>1. f[0] = g[0]
  BY DEF Rebuilds
<1>2. ASSUME NEW i \in 1..m, f[i - 1] = g[i - 1] PROVE f[i] = g[i]
  BY <1>2 DEF Rebuilds
<1> QED BY <1>1, <1>2, RecursionsAgree

LEMMA RebuildIsLast ==
    ASSUME NEW T, NEW s \in Seq(T)
    PROVE  \E f : Rebuilds(f, s, Len(s)) /\ Rebuild(s) = f[Len(s)]
<1>1. PICK f : Rebuilds(f, s, Len(s))
  BY RebuildsExist
<1>2. f = [n \in 0..Len(s) |-> IF n = 0 THEN NothingRebuilt
                               ELSE ApplyEvent(f[n - 1], s[n])]
  BY <1>1 DEF Rebuilds
<1>3. \E g : g = [n \in 0..Len(s) |-> IF n = 0 THEN NothingRebuilt
                                      ELSE ApplyEvent(g[n - 1], s[n])]
             /\ Rebuild(s) = g[Len(s)]
  BY <1>2, Zenon DEF Rebuild
<1> QED BY <1>3 DEF Rebuilds

(* Nothing is rebuilt from no event, and one more event is applied last.   *)
LEMMA RebuildNone == Rebuild(<<>>) = NothingRebuilt
<1>1. PICK f : Rebuilds(f, <<>>, Len(<<>>)) /\ Rebuild(<<>>) = f[Len(<<>>)]
  <2>1. <<>> \in Seq({})
    OBVIOUS
  <2> QED BY <2>1, RebuildIsLast
<1> QED BY <1>1 DEF Rebuilds

LEMMA RebuildAppend ==
    ASSUME NEW T, NEW s \in Seq(T), NEW e \in T
    PROVE  Rebuild(Append(s, e)) = ApplyEvent(Rebuild(s), e)
<1> DEFINE t == Append(s, e)
<1>1. t \in Seq(T) /\ Len(t) = Len(s) + 1 /\ t[Len(t)] = e /\ Len(s) \in Nat
  OBVIOUS
<1>2. \A i \in 1..Len(s) : s[i] = t[i]
  OBVIOUS
<1> HIDE DEF t
<1>3. PICK f : Rebuilds(f, s, Len(s)) /\ Rebuild(s) = f[Len(s)]
  BY RebuildIsLast
<1>4. PICK g : Rebuilds(g, t, Len(t)) /\ Rebuild(t) = g[Len(t)]
  BY <1>1, RebuildIsLast
<1>5. f[Len(s)] = g[Len(s)]
  <2>1. Len(s) \in Nat /\ Len(t) \in Nat /\ Len(s) <= Len(t)
    BY <1>1
  <2>2. Rebuilds(f, s, Len(s)) /\ Rebuilds(g, t, Len(t))
    BY <1>3, <1>4
  <2> QED BY ONLY <2>1, <2>2, <1>2, RebuildsAgree
<1>6. g[Len(t)] = ApplyEvent(g[Len(t) - 1], t[Len(t)])
  BY <1>1, <1>4 DEF Rebuilds
<1>7. Len(t) - 1 = Len(s)
  BY <1>1
<1>8. Rebuild(t) = ApplyEvent(Rebuild(s), e)
  BY <1>1, <1>3, <1>4, <1>5, <1>6, <1>7
<1> QED BY <1>8 DEF t

LEMMA AppendedRange ==
    ASSUME NEW T, NEW s \in Seq(T), NEW x \in T
    PROVE  Range(Append(s, x)) = Range(s) \cup {x}
<1> DEFINE t == Append(s, x)
<1>1. DOMAIN t = 1..(Len(s) + 1) /\ DOMAIN s = 1..Len(s) /\ Len(s) \in Nat
  OBVIOUS
<1>2. t[Len(s) + 1] = x /\ \A i \in 1..Len(s) : t[i] = s[i]
  OBVIOUS
<1>3. \A i \in DOMAIN t : i \in DOMAIN s \/ i = Len(s) + 1
  BY <1>1
<1>4. DOMAIN s \subseteq DOMAIN t /\ Len(s) + 1 \in DOMAIN t
  BY <1>1
<1> HIDE DEF t
<1>5. Range(t) = Range(s) \cup {x}
  BY <1>1, <1>2, <1>3, <1>4 DEF Range
<1> QED BY <1>5 DEF t

(* The same for Without.                                                   *)
Keeps(f, kinds, s, m) ==
    f = [n \in 0..m |-> IF n = 0 THEN <<>> ELSE Keep(f[n - 1], s[n], kinds)]

LEMMA KeepsExist ==
    ASSUME NEW kinds, NEW s, NEW m \in Nat
    PROVE  \E f : Keeps(f, kinds, s, m)
<1> DEFINE G == {n \in Nat : \E f : Keeps(f, kinds, s, n)}
<1>1. 0 \in G
  <2> DEFINE f == [n \in 0..0 |-> <<>>]
  <2>1. Keeps(f, kinds, s, 0)
    BY DEF Keeps
  <2> HIDE DEF f
  <2> QED BY <2>1
<1>2. ASSUME NEW n \in Nat, n \in G PROVE n + 1 \in G
  <2>1. PICK f : Keeps(f, kinds, s, n)
    BY <1>2
  <2> DEFINE g == [i \in 0..(n + 1) |-> IF i = n + 1 THEN Keep(f[n], s[n + 1], kinds)
                                        ELSE f[i]]
  <2>2. \A i \in 0..n : g[i] = f[i]
    OBVIOUS
  <2>3. ASSUME NEW i \in 0..(n + 1)
        PROVE  g[i] = IF i = 0 THEN <<>> ELSE Keep(g[i - 1], s[i], kinds)
    <3>1. CASE i = n + 1
      <4>1. g[i] = Keep(f[n], s[n + 1], kinds) /\ i # 0 /\ i - 1 = n
        BY <3>1
      <4>2. g[n] = f[n]
        BY <2>2
      <4> HIDE DEF g
      <4> QED BY <4>1, <4>2, <3>1
    <3>2. CASE i \in 0..n
      <4>1. f[i] = IF i = 0 THEN <<>> ELSE Keep(f[i - 1], s[i], kinds)
        BY <2>1, <3>2 DEF Keeps
      <4>2. i = 0 \/ i - 1 \in 0..n
        BY <3>2
      <4>3. g[i] = f[i] /\ (i # 0 => g[i - 1] = f[i - 1])
        BY <2>2, <3>2, <4>2
      <4> HIDE DEF g
      <4> QED BY <4>1, <4>3
    <3> QED BY <3>1, <3>2
  <2>4. g = [i \in 0..(n + 1) |-> IF i = 0 THEN <<>>
                                  ELSE Keep(g[i - 1], s[i], kinds)]
    <3> DEFINE h == [i \in 0..(n + 1) |-> IF i = 0 THEN <<>>
                                          ELSE Keep(g[i - 1], s[i], kinds)]
    <3>1. DOMAIN g = 0..(n + 1) /\ DOMAIN h = 0..(n + 1)
      OBVIOUS
    <3>2. \A i \in 0..(n + 1) : g[i] = h[i]
      <4> HIDE DEF g
      <4> QED BY <2>3
    <3>3. g = [i \in DOMAIN g |-> g[i]] /\ h = [i \in DOMAIN h |-> h[i]]
      OBVIOUS
    <3> HIDE DEF g, h
    <3>4. g = h
      BY <3>1, <3>2, <3>3
    <3> QED BY <3>4 DEF h
  <2>5. Keeps(g, kinds, s, n + 1)
    <3> HIDE DEF g
    <3> QED BY <2>4 DEF Keeps
  <2> HIDE DEF g
  <2> QED BY <2>5
<1>3. \A n \in Nat : n \in G
  <2> HIDE DEF G
  <2> QED BY <1>1, <1>2, EveryNatural
<1> QED BY <1>3

LEMMA WithoutIsLast ==
    ASSUME NEW T, NEW s \in Seq(T), NEW kinds
    PROVE  \E f : Keeps(f, kinds, s, Len(s)) /\ Without(s, kinds) = f[Len(s)]
<1>1. PICK f : Keeps(f, kinds, s, Len(s))
  <2>1. Len(s) \in Nat
    OBVIOUS
  <2> QED BY <2>1, KeepsExist, Zenon
<1>2. f = [n \in 0..Len(s) |-> IF n = 0 THEN <<>> ELSE Keep(f[n - 1], s[n], kinds)]
  BY <1>1 DEF Keeps
<1>3. \E g : g = [n \in 0..Len(s) |-> IF n = 0 THEN <<>>
                                      ELSE Keep(g[n - 1], s[n], kinds)]
             /\ Without(s, kinds) = g[Len(s)]
  BY <1>2, Zenon DEF Without
<1> QED BY <1>3 DEF Keeps

LEMMA WithoutNone ==
    ASSUME NEW kinds
    PROVE  Without(<<>>, kinds) = <<>>
<1>1. PICK f : Keeps(f, kinds, <<>>, Len(<<>>)) /\ Without(<<>>, kinds) = f[Len(<<>>)]
  <2>1. <<>> \in Seq({})
    OBVIOUS
  <2> QED BY <2>1, WithoutIsLast
<1> QED BY <1>1 DEF Keeps

LEMMA WithoutAppend ==
    ASSUME NEW T, NEW s \in Seq(T), NEW p \in T, NEW kinds
    PROVE  Without(Append(s, p), kinds) = Keep(Without(s, kinds), p, kinds)
<1> DEFINE t == Append(s, p)
<1>1. t \in Seq(T) /\ Len(t) = Len(s) + 1 /\ t[Len(t)] = p /\ Len(s) \in Nat
  OBVIOUS
<1>2. \A i \in 1..Len(s) : s[i] = t[i]
  OBVIOUS
<1> HIDE DEF t
<1>3. PICK f : Keeps(f, kinds, s, Len(s)) /\ Without(s, kinds) = f[Len(s)]
  BY WithoutIsLast
<1>4. PICK g : Keeps(g, kinds, t, Len(t)) /\ Without(t, kinds) = g[Len(t)]
  BY <1>1, WithoutIsLast
<1>5. f[Len(s)] = g[Len(s)]
  <2>1. f[0] = g[0]
    BY <1>1, <1>3, <1>4 DEF Keeps
  <2>2. ASSUME NEW i \in 1..Len(s), f[i - 1] = g[i - 1] PROVE f[i] = g[i]
    BY <1>1, <1>2, <1>3, <1>4, <2>2 DEF Keeps
  <2> QED BY <1>1, <2>1, <2>2, RecursionsAgree
<1>6. g[Len(t)] = Keep(g[Len(t) - 1], t[Len(t)], kinds)
  BY <1>1, <1>4 DEF Keeps
<1>7. Len(t) - 1 = Len(s)
  BY <1>1
<1>8. Without(t, kinds) = Keep(Without(s, kinds), p, kinds)
  BY <1>1, <1>3, <1>4, <1>5, <1>6, <1>7
<1> QED BY <1>8 DEF t

(* What is kept is a sequence of the parts, in which every part of another *)
(* kind is found and no other part is.                                     *)
LEMMA WithoutKeeps ==
    ASSUME NEW T, NEW kinds
    PROVE  \A s \in Seq(T) :
              /\ Without(s, kinds) \in Seq(T)
              /\ Range(Without(s, kinds)) = {p \in Range(s) : p.kind \notin kinds}
<1> DEFINE G == {s \in Seq(T) :
                   /\ Without(s, kinds) \in Seq(T)
                   /\ Range(Without(s, kinds)) = {p \in Range(s) : p.kind \notin kinds}}
<1>1. <<>> \in G
  <2>1. Range(<<>>) = {}
    BY DEF Range
  <2>2. Without(<<>>, kinds) = <<>>
    BY WithoutNone, Zenon
  <2>3. <<>> \in Seq(T)
    OBVIOUS
  <2> QED BY <2>1, <2>2, <2>3
<1>2. ASSUME NEW s \in Seq(T), NEW p \in T, s \in G PROVE Append(s, p) \in G
  <2> DEFINE kept == Without(s, kinds)
  <2>1. kept \in Seq(T) /\ Range(kept) = {q \in Range(s) : q.kind \notin kinds}
    BY <1>2
  <2>2. Without(Append(s, p), kinds) = Keep(kept, p, kinds)
    BY WithoutAppend
  <2> HIDE DEF kept
  <2>3. Append(s, p) \in Seq(T) /\ Range(Append(s, p)) = Range(s) \cup {p}
    BY AppendedRange
  <2>4. Append(kept, p) \in Seq(T) /\ Range(Append(kept, p)) = Range(kept) \cup {p}
    BY <2>1, AppendedRange
  <2>5. Keep(kept, p, kinds) \in Seq(T)
    BY <2>1, <2>4 DEF Keep
  <2>6. Range(Keep(kept, p, kinds)) = {q \in Range(Append(s, p)) : q.kind \notin kinds}
    BY <2>1, <2>3, <2>4 DEF Keep
  <2> QED BY <2>2, <2>3, <2>5, <2>6
<1>3. \A s \in Seq(T) : s \in G
  <2> HIDE DEF G
  <2> QED BY <1>1, <1>2, EverySequence
<1> QED BY <1>3

(* The least and the greatest element of a set of positions.               *)
LEMMA LeastPosition ==
    ASSUME NEW n \in Nat, NEW I \in SUBSET (1..n), I # {}
    PROVE  Min(I) \in I /\ \A j \in I : Min(I) <= j
<1>1. I \in SUBSET Nat
  OBVIOUS
<1>2. \E x \in I : \A y \in I : x <= y
  BY <1>1, LeastNatural
<1> QED BY <1>2 DEF Min

LEMMA GreatestPosition ==
    ASSUME NEW n \in Nat, NEW I \in SUBSET (1..n), I # {}
    PROVE  Max(I) \in I /\ \A j \in I : j <= Max(I)
<1> DEFINE S == {n - j : j \in I}
<1>1. S \in SUBSET Nat /\ S # {}
  <2>1. \A j \in I : n - j \in Nat
    OBVIOUS
  <2>2. \E j \in I : n - j \in S
    OBVIOUS
  <2> QED BY <2>1, <2>2
<1>2. PICK x \in S : \A y \in S : x <= y
  <2> HIDE DEF S
  <2> QED BY <1>1, LeastNatural
<1>3. PICK k \in I : x = n - k
  BY <1>2
<1>4. ASSUME NEW j \in I PROVE j <= k
  <2>1. n - k <= n - j
    BY <1>2, <1>3
  <2>2. j \in Nat /\ k \in Nat
    OBVIOUS
  <2> QED BY <2>1, <2>2
<1>5. \E y \in I : \A j \in I : y >= j
  BY <1>4
<1>6. Max(I) \in I /\ \A j \in I : Max(I) >= j
  BY <1>5 DEF Max
<1> QED BY <1>6

(* Where the next item of the snapshot goes.                               *)
ItemsEnd(s) == SelectInSeq(s, LAMBDA p : p.kind # "item")

LEMMA ItemsEndIs ==
    ASSUME NEW T, NEW s \in Seq(T)
    PROVE  /\ ItemsEnd(s) \in 0..Len(s)
           /\ ItemsEnd(s) = 0 => \A i \in 1..Len(s) : s[i].kind = "item"
           /\ ItemsEnd(s) # 0 => /\ s[ItemsEnd(s)].kind # "item"
                                 /\ \A i \in 1..(ItemsEnd(s) - 1) : s[i].kind = "item"
<1> DEFINE I == {i \in 1..Len(s) : s[i].kind # "item"}
<1>1. ItemsEnd(s) = IF I # {} THEN Min(I) ELSE 0
  BY DEF ItemsEnd, SelectInSeq
<1>2. Len(s) \in Nat /\ I \in SUBSET (1..Len(s))
  OBVIOUS
<1>3. CASE I = {}
  BY <1>1, <1>3
<1>4. CASE I # {}
  <2>1. Min(I) \in I /\ \A j \in I : Min(I) <= j
    <3> HIDE DEF I
    <3> QED BY <1>2, <1>4, LeastPosition
  <2>2. ItemsEnd(s) \in I /\ \A j \in I : ItemsEnd(s) <= j
    <3> HIDE DEF I
    <3> QED BY <1>1, <1>4, <2>1
  <2> QED BY <2>2
<1> QED BY <1>3, <1>4

(* The place after the last part whose call the snapshot has by then.      *)
LastCallIn(s, calls) ==
    SelectLastInSeq(s, LAMBDA p : p.kind = "tool" /\ p.call \in calls)

LEMMA LastCallInIs ==
    ASSUME NEW T, NEW s \in Seq(T), NEW calls
    PROVE  /\ LastCallIn(s, calls) \in 0..Len(s)
           /\ LastCallIn(s, calls) # 0 =>
                /\ s[LastCallIn(s, calls)].kind = "tool"
                /\ s[LastCallIn(s, calls)].call \in calls
           /\ \A i \in 1..Len(s) : s[i].kind = "tool" /\ s[i].call \in calls =>
                i <= LastCallIn(s, calls)
<1> DEFINE I == {i \in 1..Len(s) : s[i].kind = "tool" /\ s[i].call \in calls}
<1>1. LastCallIn(s, calls) = IF I # {} THEN Max(I) ELSE 0
  BY DEF LastCallIn, SelectLastInSeq
<1>2. Len(s) \in Nat /\ I \in SUBSET (1..Len(s))
  OBVIOUS
<1>3. CASE I = {}
  BY <1>1, <1>2, <1>3
<1>4. CASE I # {}
  <2>1. Max(I) \in I /\ \A j \in I : j <= Max(I)
    <3> HIDE DEF I
    <3> QED BY <1>2, <1>4, GreatestPosition
  <2>2. LastCallIn(s, calls) \in I /\ \A j \in I : j <= LastCallIn(s, calls)
    <3> HIDE DEF I
    <3> QED BY <1>1, <1>4, <2>1
  <2> QED BY <1>2, <2>2
<1> QED BY <1>3, <1>4

LEMMA ConcatIs ==
    ASSUME NEW T, NEW s \in Seq(T), NEW t \in Seq(T)
    PROVE  /\ s \o t \in Seq(T)
           /\ Len(s \o t) = Len(s) + Len(t)
           /\ \A i \in 1..(Len(s) + Len(t)) :
                 (s \o t)[i] = IF i <= Len(s) THEN s[i] ELSE t[i - Len(s)]
  OBVIOUS

(* An element inserted at a place of a sequence, or just after its end.    *)
LEMMA InsertAtIs ==
    ASSUME NEW T, NEW s \in Seq(T), NEW x \in T, NEW k \in 1..(Len(s) + 1)
    PROVE  /\ InsertAt(s, k, x) \in Seq(T)
           /\ Len(InsertAt(s, k, x)) = Len(s) + 1
           /\ \A i \in 1..(Len(s) + 1) :
                 InsertAt(s, k, x)[i] = IF i < k THEN s[i]
                                        ELSE IF i = k THEN x ELSE s[i - 1]
<1> DEFINE left == SubSeq(s, 1, k - 1)
           right == SubSeq(s, k, Len(s))
           mid == left \o <<x>>
<1>1. left \in Seq(T) /\ Len(left) = k - 1 /\ \A i \in 1..(k - 1) : left[i] = s[i]
  OBVIOUS
<1>2. /\ right \in Seq(T) /\ Len(right) = Len(s) - k + 1
      /\ \A i \in 1..(Len(s) - k + 1) : right[i] = s[i + k - 1]
  OBVIOUS
<1>3. InsertAt(s, k, x) = mid \o right
  BY DEF InsertAt
<1> HIDE DEF left, right
<1>4. /\ mid \in Seq(T) /\ Len(mid) = k
      /\ \A i \in 1..k : mid[i] = IF i < k THEN s[i] ELSE x
  <2>1. <<x>> \in Seq(T) /\ Len(<<x>>) = 1 /\ <<x>>[1] = x
    OBVIOUS
  <2> QED BY <1>1, <2>1
<1> HIDE DEF mid
<1>5. /\ mid \o right \in Seq(T)
      /\ Len(mid \o right) = Len(s) + 1
      /\ \A i \in 1..(Len(s) + 1) :
            (mid \o right)[i] = IF i <= k THEN mid[i] ELSE right[i - k]
  <2>1. mid \in Seq(T) /\ right \in Seq(T)
    BY <1>2, <1>4
  <2>2. /\ mid \o right \in Seq(T)
        /\ Len(mid \o right) = Len(mid) + Len(right)
        /\ \A i \in 1..(Len(mid) + Len(right)) :
              (mid \o right)[i] = IF i <= Len(mid) THEN mid[i] ELSE right[i - Len(mid)]
    BY ONLY <2>1, ConcatIs
  <2>3. Len(mid) = k /\ Len(mid) + Len(right) = Len(s) + 1
    BY <1>2, <1>4
  <2> QED BY ONLY <2>2, <2>3
<1>6. ASSUME NEW i \in 1..(Len(s) + 1)
      PROVE  (mid \o right)[i] = IF i < k THEN s[i]
                                 ELSE IF i = k THEN x ELSE s[i - 1]
  <2>1. CASE i <= k
    BY <2>1, <1>4, <1>5
  <2>2. CASE i > k
    <3>1. i - k \in 1..(Len(s) - k + 1) /\ i - k + k - 1 = i - 1 /\ ~(i <= k)
          /\ ~(i < k) /\ i # k
      BY <2>2
    <3>2. right[i - k] = s[i - 1]
      BY <1>2, <3>1
    <3> QED BY <1>5, <3>1, <3>2
  <2>3. i <= k \/ i > k
    OBVIOUS
  <2> QED BY ONLY <2>1, <2>2, <2>3
<1> QED BY <1>3, <1>5, <1>6

(* An item joins the parts and moves none of them past another.            *)
PlaceOf(placed, snapshot, i) ==
    LET after == LastCallIn(placed, CallsIn(SubSeq(snapshot, 1, i)))
        items == ItemsEnd(SubSeq(placed, after + 1, Len(placed))) IN
    IF items = 0 THEN Len(placed) + 1 ELSE after + items

LEMMA PlaceOfIs ==
    ASSUME NEW T, NEW placed \in Seq(T), NEW snapshot \in Seq(T), NEW i
    PROVE  /\ PlaceItem(placed, snapshot, i)
                = InsertAt(placed, PlaceOf(placed, snapshot, i), snapshot[i])
           /\ PlaceOf(placed, snapshot, i) \in 1..(Len(placed) + 1)
<1>1. PlaceItem(placed, snapshot, i)
        = InsertAt(placed, PlaceOf(placed, snapshot, i), snapshot[i])
  BY DEF PlaceItem, PlaceOf, LastCallIn, ItemsEnd
<1> DEFINE after == LastCallIn(placed, CallsIn(SubSeq(snapshot, 1, i)))
           rest == SubSeq(placed, after + 1, Len(placed))
           items == ItemsEnd(rest)
<1>2. after \in 0..Len(placed)
  BY LastCallInIs
<1> HIDE DEF after
<1>3. rest \in Seq(T) /\ Len(rest) = Len(placed) - after
  BY <1>2
<1> HIDE DEF rest
<1>4. items \in 0..Len(rest)
  BY <1>3, ItemsEndIs
<1> HIDE DEF items
<1>5. (IF items = 0 THEN Len(placed) + 1 ELSE after + items) \in 1..(Len(placed) + 1)
  BY <1>2, <1>3, <1>4
<1>6. PlaceOf(placed, snapshot, i) \in 1..(Len(placed) + 1)
  BY <1>5 DEF PlaceOf, items, rest, after
<1> QED BY <1>1, <1>6

(* The same for PlaceStoredItems.                                          *)
Places(f, rebuilt, s, m) ==
    f = [n \in 0..m |-> IF n = 0 THEN rebuilt ELSE PlacePart(f[n - 1], s, n)]

LEMMA PlacesExist ==
    ASSUME NEW rebuilt, NEW s, NEW m \in Nat
    PROVE  \E f : Places(f, rebuilt, s, m)
<1> DEFINE G == {n \in Nat : \E f : Places(f, rebuilt, s, n)}
<1>1. 0 \in G
  <2> DEFINE f == [n \in 0..0 |-> rebuilt]
  <2>1. Places(f, rebuilt, s, 0)
    BY DEF Places
  <2> HIDE DEF f
  <2> QED BY <2>1
<1>2. ASSUME NEW n \in Nat, n \in G PROVE n + 1 \in G
  <2>1. PICK f : Places(f, rebuilt, s, n)
    BY <1>2
  <2> DEFINE g == [i \in 0..(n + 1) |-> IF i = n + 1 THEN PlacePart(f[n], s, n + 1)
                                        ELSE f[i]]
  <2>2. \A i \in 0..n : g[i] = f[i]
    OBVIOUS
  <2>3. ASSUME NEW i \in 0..(n + 1)
        PROVE  g[i] = IF i = 0 THEN rebuilt ELSE PlacePart(g[i - 1], s, i)
    <3>1. CASE i = n + 1
      <4>1. g[i] = PlacePart(f[n], s, n + 1) /\ i # 0 /\ i - 1 = n
        BY <3>1
      <4>2. g[n] = f[n]
        BY <2>2
      <4> HIDE DEF g
      <4> QED BY <4>1, <4>2, <3>1
    <3>2. CASE i \in 0..n
      <4>1. f[i] = IF i = 0 THEN rebuilt ELSE PlacePart(f[i - 1], s, i)
        BY <2>1, <3>2 DEF Places
      <4>2. i = 0 \/ i - 1 \in 0..n
        BY <3>2
      <4>3. g[i] = f[i] /\ (i # 0 => g[i - 1] = f[i - 1])
        BY <2>2, <3>2, <4>2
      <4> HIDE DEF g
      <4> QED BY <4>1, <4>3
    <3> QED BY <3>1, <3>2
  <2>4. g = [i \in 0..(n + 1) |-> IF i = 0 THEN rebuilt
                                  ELSE PlacePart(g[i - 1], s, i)]
    <3> DEFINE h == [i \in 0..(n + 1) |-> IF i = 0 THEN rebuilt
                                          ELSE PlacePart(g[i - 1], s, i)]
    <3>1. DOMAIN g = 0..(n + 1) /\ DOMAIN h = 0..(n + 1)
      OBVIOUS
    <3>2. \A i \in 0..(n + 1) : g[i] = h[i]
      <4> HIDE DEF g
      <4> QED BY <2>3
    <3>3. g = [i \in DOMAIN g |-> g[i]] /\ h = [i \in DOMAIN h |-> h[i]]
      OBVIOUS
    <3> HIDE DEF g, h
    <3>4. g = h
      BY <3>1, <3>2, <3>3
    <3> QED BY <3>4 DEF h
  <2>5. Places(g, rebuilt, s, n + 1)
    <3> HIDE DEF g
    <3> QED BY <2>4 DEF Places
  <2> HIDE DEF g
  <2> QED BY <2>5
<1>3. \A n \in Nat : n \in G
  <2> HIDE DEF G
  <2> QED BY <1>1, <1>2, EveryNatural
<1> QED BY <1>3

(* What holds of the rebuilt parts and is kept by each part placed holds   *)
(* of the stored reply; G[i] is what holds after i parts of the snapshot.  *)
LEMMA PlaceStoredReaches ==
    ASSUME NEW T, NEW snapshot \in Seq(T), NEW rebuilt, NEW G, rebuilt \in G[0],
           \A i \in 1..Len(snapshot) : \A placed \in G[i - 1] :
               PlacePart(placed, snapshot, i) \in G[i]
    PROVE  PlaceStoredItems(rebuilt, snapshot) \in G[Len(snapshot)]
<1> DEFINE m == Len(snapshot)
<1>1. m \in Nat
  OBVIOUS
<1>2. PICK f : Places(f, rebuilt, snapshot, m)
  <2> HIDE DEF m
  <2> QED BY <1>1, PlacesExist, Zenon
<1>3. f = [n \in 0..Len(snapshot) |-> IF n = 0 THEN rebuilt
                                      ELSE PlacePart(f[n - 1], snapshot, n)]
  BY <1>2 DEF Places
<1>4. \E g : g = [n \in 0..Len(snapshot) |-> IF n = 0 THEN rebuilt
                                             ELSE PlacePart(g[n - 1], snapshot, n)]
             /\ PlaceStoredItems(rebuilt, snapshot) = g[Len(snapshot)]
  BY <1>3, Zenon DEF PlaceStoredItems
<1>5. PICK g : /\ g = [n \in 0..m |-> IF n = 0 THEN rebuilt
                                       ELSE PlacePart(g[n - 1], snapshot, n)]
               /\ PlaceStoredItems(rebuilt, snapshot) = g[m]
  BY <1>4
<1> DEFINE H == {n \in Nat : n <= m => g[n] \in G[n]}
<1> HIDE DEF m
<1>6. 0 \in H
  BY <1>1, <1>5
<1>7. ASSUME NEW n \in Nat, n \in H PROVE n + 1 \in H
  <2> SUFFICES ASSUME n + 1 <= m PROVE g[n + 1] \in G[n + 1]
    OBVIOUS
  <2>1. g[n] \in G[n] /\ n + 1 \in 1..m /\ (n + 1) - 1 = n /\ n + 1 # 0
        /\ n + 1 \in 0..m
    BY <1>1, <1>7
  <2>2. g[n + 1] = PlacePart(g[n], snapshot, n + 1)
    BY <1>5, <2>1
  <2> QED BY <2>1, <2>2 DEF m
<1>8. \A n \in Nat : n \in H
  <2> HIDE DEF H
  <2> QED BY <1>6, <1>7, EveryNatural
<1>9. g[m] \in G[m]
  BY <1>1, <1>8
<1> QED BY <1>5, <1>9 DEF m

LEMMA InsertedRange ==
    ASSUME NEW T, NEW s \in Seq(T), NEW x \in T, NEW k \in 1..(Len(s) + 1)
    PROVE  Range(InsertAt(s, k, x)) = Range(s) \cup {x}
<1> DEFINE t == InsertAt(s, k, x)
<1>1. /\ t \in Seq(T) /\ Len(t) = Len(s) + 1
      /\ \A i \in 1..(Len(s) + 1) :
            t[i] = IF i < k THEN s[i] ELSE IF i = k THEN x ELSE s[i - 1]
  BY InsertAtIs
<1> HIDE DEF t
<1>2. DOMAIN t = 1..(Len(s) + 1) /\ DOMAIN s = 1..Len(s) /\ Len(s) \in Nat
  BY <1>1
<1>3. ASSUME NEW i \in DOMAIN t PROVE t[i] \in Range(s) \cup {x}
  <2>1. CASE i < k
    <3>1. i \in DOMAIN s /\ t[i] = s[i]
      BY <1>1, <1>2, <2>1
    <3> QED BY <3>1 DEF Range
  <2>2. CASE i = k
    BY <1>1, <1>2, <2>2
  <2>3. CASE i > k
    <3>1. i - 1 \in DOMAIN s /\ t[i] = s[i - 1]
      BY <1>1, <1>2, <2>3
    <3> QED BY <3>1 DEF Range
  <2>4. i < k \/ i = k \/ i > k
    BY <1>2
  <2> QED BY <2>1, <2>2, <2>3, <2>4
<1>4. ASSUME NEW j \in DOMAIN s PROVE s[j] \in Range(t)
  <2>1. CASE j < k
    <3>1. j \in DOMAIN t /\ t[j] = s[j]
      BY <1>1, <1>2, <2>1
    <3> QED BY <3>1 DEF Range
  <2>2. CASE j >= k
    <3>1. j + 1 \in DOMAIN t /\ ~(j + 1 < k) /\ j + 1 # k /\ (j + 1) - 1 = j
      BY <1>2, <2>2
    <3>2. t[j + 1] = s[j]
      BY <1>1, <1>2, <3>1
    <3> QED BY <3>1, <3>2 DEF Range
  <2>3. j < k \/ j >= k
    BY <1>2
  <2> QED BY <2>1, <2>2, <2>3
<1>5. k \in DOMAIN t /\ t[k] = x
  BY <1>1, <1>2
<1>6. Range(t) = Range(s) \cup {x}
  BY <1>3, <1>4, <1>5 DEF Range
<1> QED BY <1>6 DEF t

(* The stored reply has the rebuilt parts, the snapshot's items and no     *)
(* other part.                                                             *)
LEMMA PlaceStoredRange ==
    ASSUME NEW T, NEW rebuilt \in Seq(T), NEW snapshot \in Seq(T)
    PROVE  LET placed == PlaceStoredItems(rebuilt, snapshot) IN
           /\ placed \in Seq(T)
           /\ Range(rebuilt) \subseteq Range(placed)
           /\ \A p \in Range(placed) : p \in Range(rebuilt) \/ p.kind = "item"
<1> DEFINE Good == {s \in Seq(T) :
                      /\ Range(rebuilt) \subseteq Range(s)
                      /\ \A p \in Range(s) : p \in Range(rebuilt) \/ p.kind = "item"}
           G == [i \in 0..Len(snapshot) |-> Good]
<1>1. rebuilt \in Good
  OBVIOUS
<1>2. ASSUME NEW i \in 1..Len(snapshot), NEW s \in Good
      PROVE  PlacePart(s, snapshot, i) \in Good
  <2>1. s \in Seq(T) /\ snapshot[i] \in T
    OBVIOUS
  <2>2. CASE snapshot[i].kind # "item"
    BY <2>2 DEF PlacePart
  <2>3. CASE snapshot[i].kind = "item"
    <3> DEFINE k == PlaceOf(s, snapshot, i)
    <3>1. PlacePart(s, snapshot, i) = InsertAt(s, k, snapshot[i]) /\ k \in 1..(Len(s) + 1)
      BY <2>1, <2>3, PlaceOfIs DEF PlacePart
    <3> HIDE DEF k
    <3>2. InsertAt(s, k, snapshot[i]) \in Seq(T)
      BY <2>1, <3>1, InsertAtIs
    <3>3. Range(InsertAt(s, k, snapshot[i])) = Range(s) \cup {snapshot[i]}
      BY <2>1, <3>1, InsertedRange
    <3> QED BY <2>3, <3>1, <3>2, <3>3
  <2> QED BY <2>2, <2>3
<1>3. Len(snapshot) \in Nat
  OBVIOUS
<1>4. rebuilt \in G[0]
  <2> HIDE DEF Good
  <2> QED BY <1>1, <1>3
<1>5. \A i \in 1..Len(snapshot) : \A s \in G[i - 1] : PlacePart(s, snapshot, i) \in G[i]
  <2> HIDE DEF Good
  <2>1. \A i \in 1..Len(snapshot) : G[i - 1] = Good /\ G[i] = Good
    BY <1>3
  <2> HIDE DEF G
  <2> QED BY <1>2, <2>1
<1>6. PlaceStoredItems(rebuilt, snapshot) \in G[Len(snapshot)]
  <2> HIDE DEF G
  <2> QED BY <1>4, <1>5, PlaceStoredReaches
<1>7. G[Len(snapshot)] = Good
  <2> HIDE DEF Good
  <2> QED BY <1>3
<1> QED BY <1>6, <1>7

-----------------------------------------------------------------------------
(* What the attempts of a set produce: the tokens, calls, parts and events *)
(* of their streams.                                                       *)

Ids == PartIds \cup {None}
TokensOf(A) == A \X Nat
CallsOf(A) == A \X Calls
Results == {"ok", "denied", "cancelled", "unavailable", "refused"}

CharParts(A) == [kind : {"text", "reasoning"}, toks : Seq(TokensOf(A)), step : Nat]
PendingParts(A) == [kind : {"pending-tool"}, call : CallsOf(A), step : Nat]
ToolParts(A) == [kind : {"tool"}, call : CallsOf(A), result : Results, step : Nat]
NoticeParts == [kind : {"notice"}]
ItemParts == [kind : {"item"}, item : Nat]
Parts(A) == CharParts(A) \cup PendingParts(A) \cup ToolParts(A)
              \cup NoticeParts \cup ItemParts

Collectors(A) ==
    [parts : Seq(Parts(A)), textId : Ids, reasoningId : Ids,
     reasoningIds : SUBSET Ids, settled : SUBSET CallsOf(A)]

CallTypes == {"tool.requested", "tool.started", "tool.completed"}
StreamTypes == {"model.delta", "reasoning.delta", "run.step_cap_reached"} \cup CallTypes
StreamEvents(A) ==
    {e \in [type : StreamTypes, toks : Seq(TokensOf(A)), id : Ids, step : Nat,
            call : CallsOf(A) \cup {None}, result : Results \cup {None},
            attempt : {0}] :
        /\ e.type \in CallTypes => e.call \in CallsOf(A)
        /\ e.type = "tool.completed" => e.result \in Results}
Marks == [type : {"run.started", "run.terminal", "model.requested"}, toks : {<<>>},
          id : {None}, step : {0}, call : {None}, result : {None}, attempt : Nat]
Events(A) == StreamEvents(A) \cup Marks
Completions == {e \in StreamEvents(Attempts) : e.type = "tool.completed"}

Rebuilders(A) ==
    [coll : Collectors(A), open : SUBSET CallsOf(A), seen : SUBSET CallsOf(A)]

(* The parts an attempt may lose or merge are all of some kind.            *)
LEMMA PartKinds ==
    ASSUME NEW A, NEW p \in Parts(A)
    PROVE  /\ p.kind \in {"text", "reasoning"} <=> p \in CharParts(A)
           /\ p.kind = "pending-tool" <=> p \in PendingParts(A)
           /\ p.kind = "tool" <=> p \in ToolParts(A)
           /\ p.kind = "notice" <=> p \in NoticeParts
           /\ p.kind = "item" <=> p \in ItemParts
  BY DEF Parts, CharParts, PendingParts, ToolParts, NoticeParts, ItemParts

LEMMA LastIs ==
    ASSUME NEW T, NEW s \in Seq(T), s # <<>>
    PROVE  /\ Len(s) \in Nat \ {0} /\ Last(s) = s[Len(s)] /\ Last(s) \in T
           /\ Front(s) \in Seq(T) /\ Len(Front(s)) = Len(s) - 1
           /\ \A i \in 1..(Len(s) - 1) : Front(s)[i] = s[i]
           /\ s = Append(Front(s), Last(s))
<1>1. Len(s) \in Nat \ {0}
  OBVIOUS
<1>2. Last(s) = s[Len(s)] /\ Front(s) = SubSeq(s, 1, Len(s) - 1)
  BY DEF Last, Front
<1>3. s[Len(s)] \in T
  BY <1>1
<1> DEFINE front == SubSeq(s, 1, Len(s) - 1)
<1>4. /\ front \in Seq(T) /\ Len(front) = Len(s) - 1
      /\ \A i \in 1..(Len(s) - 1) : front[i] = s[i]
  <2> DEFINE n == Len(s) - 1
  <2>1. n \in Nat /\ n <= Len(s) /\ Len(s) \in Nat
    BY <1>1
  <2> HIDE DEF n
  <2>2. /\ SubSeq(s, 1, n) \in Seq(T) /\ Len(SubSeq(s, 1, n)) = n
        /\ \A i \in 1..n : SubSeq(s, 1, n)[i] = s[i]
    BY <2>1
  <2> QED BY <2>2 DEF n
<1>5. s = Append(front, s[Len(s)])
  BY <1>1
<1> HIDE DEF front
<1>6. Front(s) = front
  BY <1>2 DEF front
<1> QED BY <1>1, <1>2, <1>3, <1>4, <1>5, <1>6

LEMMA CharsUpdated ==
    ASSUME NEW K, NEW T, NEW S, NEW p \in [kind : K, toks : T, step : S], NEW v
    PROVE  [p EXCEPT !.toks = v] = [kind |-> p.kind, toks |-> v, step |-> p.step]
  OBVIOUS

(* Characters that join the last part, or start one, are a part.           *)
LEMMA WithCharsIs ==
    ASSUME NEW A, NEW parts \in Seq(Parts(A)), parts # <<>>,
           Last(parts).kind \in {"text", "reasoning"}, NEW toks \in Seq(TokensOf(A))
    PROVE  /\ Last(parts) \in CharParts(A)
           /\ WithChars(parts, toks)
                = Append(Front(parts), [kind |-> Last(parts).kind,
                                        toks |-> Last(parts).toks \o toks,
                                        step |-> Last(parts).step])
           /\ WithChars(parts, toks) \in Seq(Parts(A))
<1>1. Last(parts) \in Parts(A) /\ Front(parts) \in Seq(Parts(A))
  BY LastIs
<1>2. Last(parts) \in CharParts(A)
  BY <1>1, PartKinds
<1> DEFINE last == Last(parts)
           more == last.toks \o toks
<1>3. last = [kind |-> last.kind, toks |-> last.toks, step |-> last.step]
      /\ last.toks \in Seq(TokensOf(A)) /\ last.step \in Nat
      /\ last.kind \in {"text", "reasoning"}
  BY <1>2 DEF CharParts
<1>4. [last EXCEPT !.toks = last.toks \o toks]
        = [kind |-> last.kind, toks |-> last.toks \o toks, step |-> last.step]
  <2>1. last \in [kind : {"text", "reasoning"}, toks : Seq(TokensOf(A)), step : Nat]
    BY <1>2 DEF CharParts
  <2> HIDE DEF last
  <2>2. \A v : [last EXCEPT !.toks = v]
                 = [kind |-> last.kind, toks |-> v, step |-> last.step]
    BY <2>1, CharsUpdated
  <2> QED BY ONLY <2>2
<1>5. more \in Seq(TokensOf(A))
  BY <1>3
<1>6. WithChars(parts, toks)
        = Append(Front(parts), [kind |-> last.kind, toks |-> last.toks \o toks,
                                step |-> last.step])
  BY <1>4 DEF WithChars
<1>7. [kind |-> last.kind, toks |-> more, step |-> last.step] \in Parts(A)
  <2> HIDE DEF more, last
  <2> QED BY <1>3, <1>5 DEF Parts, CharParts
<1>8. Append(Front(parts), [kind |-> last.kind, toks |-> more, step |-> last.step])
        \in Seq(Parts(A))
  <2> HIDE DEF more, last
  <2> QED BY <1>1, <1>7
<1> QED BY <1>2, <1>6, <1>8

(* What a delivery of text, of reasoning and of metadata does.             *)
TextParts(c, toks, id, step) ==
    IF ExtendsLast(c, "text", c.textId, id, step)
    THEN WithChars(c.parts, toks)
    ELSE Append(c.parts, Chars("text", toks, step))
TextIdAfter(c, id, step) ==
    IF ExtendsLast(c, "text", c.textId, id, step) /\ id = None THEN c.textId ELSE id

LEMMA CollectTextIs ==
    ASSUME NEW A, NEW c \in Collectors(A), NEW toks \in Seq(TokensOf(A)),
           NEW id \in Ids, NEW step \in Nat
    PROVE  /\ TextParts(c, toks, id, step) \in Seq(Parts(A))
           /\ CollectText(c, toks, id, step)
                = [c EXCEPT !.parts = TextParts(c, toks, id, step),
                            !.textId = TextIdAfter(c, id, step)]
           /\ CollectText(c, toks, id, step) \in Collectors(A)
<1>1. c.parts \in Seq(Parts(A)) /\ c.textId \in Ids
  BY DEF Collectors
<1>2. TextParts(c, toks, id, step) \in Seq(Parts(A))
  <2>1. CASE ExtendsLast(c, "text", c.textId, id, step)
    <3>1. c.parts # <<>> /\ Last(c.parts).kind \in {"text", "reasoning"}
      BY <2>1 DEF ExtendsLast
    <3>2. WithChars(c.parts, toks) \in Seq(Parts(A))
      BY <1>1, <3>1, WithCharsIs
    <3> QED BY <2>1, <3>2 DEF TextParts
  <2>2. CASE ~ExtendsLast(c, "text", c.textId, id, step)
    <3>1. Chars("text", toks, step) \in Parts(A)
      BY DEF Chars, Parts, CharParts
    <3>2. Append(c.parts, Chars("text", toks, step)) \in Seq(Parts(A))
      BY <1>1, <3>1
    <3> QED BY <2>2, <3>2 DEF TextParts
  <2> QED BY <2>1, <2>2
<1>3. CollectText(c, toks, id, step)
        = [c EXCEPT !.parts = TextParts(c, toks, id, step),
                    !.textId = TextIdAfter(c, id, step)]
  BY DEF CollectText, TextParts, TextIdAfter
<1>4. TextIdAfter(c, id, step) \in Ids
  BY <1>1 DEF TextIdAfter
<1>5. [c EXCEPT !.parts = TextParts(c, toks, id, step),
                !.textId = TextIdAfter(c, id, step)] \in Collectors(A)
  BY <1>2, <1>4 DEF Collectors
<1> QED BY <1>2, <1>3, <1>5

ReasoningParts(c, toks, id, step) ==
    IF ExtendsLast(c, "reasoning", c.reasoningId, id, step)
    THEN WithChars(c.parts, toks)
    ELSE Append(c.parts, Chars("reasoning", toks, step))
ReasoningIdAfter(c, id, step) ==
    IF ExtendsLast(c, "reasoning", c.reasoningId, id, step) /\ id = None
    THEN c.reasoningId ELSE id

LEMMA CollectReasoningIs ==
    ASSUME NEW A, NEW c \in Collectors(A), NEW toks \in Seq(TokensOf(A)),
           NEW id \in Ids, NEW step \in Nat
    PROVE  /\ ReasoningParts(c, toks, id, step) \in Seq(Parts(A))
           /\ CollectReasoning(c, toks, id, step)
                = [c EXCEPT !.parts = ReasoningParts(c, toks, id, step),
                            !.reasoningId = ReasoningIdAfter(c, id, step),
                            !.reasoningIds = c.reasoningIds \cup Named(id)]
           /\ CollectReasoning(c, toks, id, step) \in Collectors(A)
<1>1. c.parts \in Seq(Parts(A)) /\ c.reasoningId \in Ids /\ c.reasoningIds \in SUBSET Ids
  BY DEF Collectors
<1>2. ReasoningParts(c, toks, id, step) \in Seq(Parts(A))
  <2>1. CASE ExtendsLast(c, "reasoning", c.reasoningId, id, step)
    <3>1. c.parts # <<>> /\ Last(c.parts).kind \in {"text", "reasoning"}
      BY <2>1 DEF ExtendsLast
    <3>2. WithChars(c.parts, toks) \in Seq(Parts(A))
      BY <1>1, <3>1, WithCharsIs
    <3> QED BY <2>1, <3>2 DEF ReasoningParts
  <2>2. CASE ~ExtendsLast(c, "reasoning", c.reasoningId, id, step)
    <3>1. Chars("reasoning", toks, step) \in Parts(A)
      BY DEF Chars, Parts, CharParts
    <3>2. Append(c.parts, Chars("reasoning", toks, step)) \in Seq(Parts(A))
      BY <1>1, <3>1
    <3> QED BY <2>2, <3>2 DEF ReasoningParts
  <2> QED BY <2>1, <2>2
<1>3. CollectReasoning(c, toks, id, step)
        = [c EXCEPT !.parts = ReasoningParts(c, toks, id, step),
                    !.reasoningId = ReasoningIdAfter(c, id, step),
                    !.reasoningIds = c.reasoningIds \cup Named(id)]
  BY DEF CollectReasoning, ReasoningParts, ReasoningIdAfter
<1>4. ReasoningIdAfter(c, id, step) \in Ids /\ c.reasoningIds \cup Named(id) \in SUBSET Ids
  BY <1>1 DEF ReasoningIdAfter, Named
<1>5. [c EXCEPT !.parts = ReasoningParts(c, toks, id, step),
                !.reasoningId = ReasoningIdAfter(c, id, step),
                !.reasoningIds = c.reasoningIds \cup Named(id)] \in Collectors(A)
  BY <1>2, <1>4 DEF Collectors
<1> QED BY <1>2, <1>3, <1>5

LEMMA CollectWithheldType ==
    ASSUME NEW A, NEW c \in Collectors(A), NEW id \in Ids, NEW step \in Nat
    PROVE  CollectWithheld(c, id, step) \in Collectors(A)
<1>1. c.parts \in Seq(Parts(A)) /\ c.reasoningIds \in SUBSET Ids
  BY DEF Collectors
<1>2. Chars("reasoning", <<>>, step) \in Parts(A)
  BY DEF Chars, Parts, CharParts
<1>3. Append(c.parts, Chars("reasoning", <<>>, step)) \in Seq(Parts(A))
  BY <1>1, <1>2
<1>4. [c EXCEPT !.parts = Append(c.parts, Chars("reasoning", <<>>, step)),
                !.reasoningId = id,
                !.reasoningIds = c.reasoningIds \cup {id}] \in Collectors(A)
  BY <1>1, <1>3 DEF Collectors
<1> QED BY <1>4 DEF CollectWithheld

LEMMA ReserveToolType ==
    ASSUME NEW A, NEW c \in Collectors(A), NEW call \in CallsOf(A), NEW step \in Nat
    PROVE  /\ ReserveTool(c, call, step) \in Collectors(A)
           /\ ReserveTool(c, call, step)
                = [c EXCEPT !.parts = Append(c.parts,
                       [kind |-> "pending-tool", call |-> call, step |-> step])]
<1>1. c.parts \in Seq(Parts(A))
  BY DEF Collectors
<1>2. [kind |-> "pending-tool", call |-> call, step |-> step] \in Parts(A)
  BY DEF Parts, PendingParts
<1>3. Append(c.parts, [kind |-> "pending-tool", call |-> call, step |-> step])
        \in Seq(Parts(A))
  BY <1>1, <1>2
<1>4. [c EXCEPT !.parts = Append(c.parts,
           [kind |-> "pending-tool", call |-> call, step |-> step])] \in Collectors(A)
  BY <1>3 DEF Collectors
<1> QED BY <1>4 DEF ReserveTool

LEMMA CollectPartType ==
    ASSUME NEW A, NEW c \in Collectors(A), NEW part \in NoticeParts \cup ItemParts
    PROVE  /\ CollectPart(c, part) \in Collectors(A)
           /\ CollectPart(c, part) = [c EXCEPT !.parts = Append(c.parts, part)]
<1>1. c.parts \in Seq(Parts(A)) /\ part \in Parts(A)
  BY DEF Collectors, Parts
<1>2. Append(c.parts, part) \in Seq(Parts(A))
  BY <1>1
<1>3. [c EXCEPT !.parts = Append(c.parts, part)] \in Collectors(A)
  BY <1>2 DEF Collectors
<1> QED BY <1>3 DEF CollectPart

(* An outcome takes the place its request reserved.                        *)
SettledPart(p, call, result) ==
    IF p.kind = "pending-tool" /\ p.call = call
    THEN [kind |-> "tool", call |-> call, result |-> result, step |-> p.step]
    ELSE p
SettledParts(parts, call, result) ==
    [i \in DOMAIN parts |-> SettledPart(parts[i], call, result)]

LEMMA SettleToolIs ==
    ASSUME NEW A, NEW c \in Collectors(A), NEW call, NEW result \in Results,
           call \in CallsOf(A)
    PROVE  /\ SettledParts(c.parts, call, result) \in Seq(Parts(A))
           /\ Len(SettledParts(c.parts, call, result)) = Len(c.parts)
           /\ SettleTool(c, call, result)
                = IF call \in c.settled THEN c
                  ELSE [c EXCEPT !.settled = c.settled \cup {call},
                                 !.parts = SettledParts(c.parts, call, result)]
           /\ SettleTool(c, call, result) \in Collectors(A)
<1>1. c.parts \in Seq(Parts(A)) /\ c.settled \in SUBSET CallsOf(A)
  BY DEF Collectors
<1>2. ASSUME NEW p \in Parts(A) PROVE SettledPart(p, call, result) \in Parts(A)
  <2>1. CASE p.kind = "pending-tool"
    <3>1. p.step \in Nat
      BY <2>1, PartKinds DEF PendingParts
    <3>2. [kind |-> "tool", call |-> call, result |-> result, step |-> p.step] \in Parts(A)
      BY <3>1 DEF Parts, ToolParts
    <3> QED BY <3>2 DEF SettledPart
  <2>2. CASE p.kind # "pending-tool"
    BY <2>2 DEF SettledPart
  <2> QED BY <2>1, <2>2
<1>3. /\ SettledParts(c.parts, call, result) \in Seq(Parts(A))
      /\ Len(SettledParts(c.parts, call, result)) = Len(c.parts)
  <2>1. DOMAIN c.parts = 1..Len(c.parts) /\ Len(c.parts) \in Nat
        /\ \A i \in 1..Len(c.parts) : c.parts[i] \in Parts(A)
    BY <1>1
  <2> DEFINE new == SettledParts(c.parts, call, result)
             m == Len(c.parts)
  <2>2. new = [i \in 1..m |-> SettledPart(c.parts[i], call, result)]
    BY <2>1 DEF SettledParts
  <2>3. \A i \in 1..m : SettledPart(c.parts[i], call, result) \in Parts(A)
    BY <1>2, <2>1
  <2>4. m \in Nat
    BY <2>1
  <2> HIDE DEF new, m
  <2>5. new \in [1..m -> Parts(A)]
    BY <2>2, <2>3
  <2>6. new \in Seq(Parts(A)) /\ Len(new) = m
    BY <2>4, <2>5
  <2> QED BY <2>6 DEF new, m
<1>4. SettleTool(c, call, result)
        = IF call \in c.settled THEN c
          ELSE [c EXCEPT !.settled = c.settled \cup {call},
                         !.parts = SettledParts(c.parts, call, result)]
  BY DEF SettleTool, SettledParts, SettledPart
<1>5. [c EXCEPT !.settled = c.settled \cup {call},
                !.parts = SettledParts(c.parts, call, result)] \in Collectors(A)
  <2> DEFINE new == SettledParts(c.parts, call, result)
  <2>1. new \in Seq(Parts(A))
    BY <1>3
  <2> HIDE DEF new
  <2>2. c.settled \cup {call} \in SUBSET CallsOf(A)
    BY <1>1
  <2>3. [c EXCEPT !.settled = c.settled \cup {call}, !.parts = new] \in Collectors(A)
    BY <2>1, <2>2 DEF Collectors
  <2> QED BY <2>3 DEF new
<1> QED BY <1>3, <1>4, <1>5

(* What an event of the log does to the reply rebuilt so far.              *)
LEMMA ApplyEventIs ==
    ASSUME NEW r, NEW e
    PROVE  /\ e.type = "model.delta" =>
                ApplyEvent(r, e) = [r EXCEPT !.coll = CollectText(r.coll, e.toks, e.id, e.step)]
           /\ e.type = "reasoning.delta" /\ e.toks # <<>> =>
                ApplyEvent(r, e) = [r EXCEPT !.coll = CollectReasoning(r.coll, e.toks, e.id, e.step)]
           /\ e.type = "reasoning.delta" /\ e.toks = <<>> =>
                ApplyEvent(r, e) = [r EXCEPT !.coll = CollectWithheld(r.coll, e.id, e.step)]
           /\ e.type = "run.step_cap_reached" =>
                ApplyEvent(r, e) = [r EXCEPT !.coll = CollectPart(r.coll, CapNotice)]
           /\ e.type = "tool.requested" /\ e.call \notin r.seen =>
                ApplyEvent(r, e) = [r EXCEPT !.coll = ReserveTool(r.coll, e.call, e.step),
                                             !.open = r.open \cup {e.call},
                                             !.seen = r.seen \cup {e.call}]
           /\ e.type = "tool.requested" /\ e.call \in r.seen => ApplyEvent(r, e) = r
           /\ e.type = "tool.completed" /\ e.call \in r.open =>
                ApplyEvent(r, e) = [r EXCEPT !.coll = SettleTool(r.coll, e.call, e.result),
                                             !.open = r.open \ {e.call}]
           /\ e.type = "tool.completed" /\ e.call \notin r.open => ApplyEvent(r, e) = r
           /\ e.type \in {"tool.started", "run.started", "run.terminal", "model.requested"} =>
                ApplyEvent(r, e) = r
  BY DEF ApplyEvent

(* The events of some attempts rebuild parts of those attempts, whatever   *)
(* calls the log settles beside them.                                      *)
LEMMA ApplyEventType ==
    ASSUME NEW A, NEW r \in Rebuilders(A), NEW e \in Events(A) \cup Completions
    PROVE  ApplyEvent(r, e) \in Rebuilders(A)
<1>0. /\ r.coll \in Collectors(A) /\ r.open \in SUBSET CallsOf(A)
      /\ r.seen \in SUBSET CallsOf(A)
  BY DEF Rebuilders
<1>1. ASSUME NEW coll \in Collectors(A) PROVE [r EXCEPT !.coll = coll] \in Rebuilders(A)
  BY DEF Rebuilders
<1>2. ASSUME NEW coll \in Collectors(A), NEW call \in CallsOf(A)
      PROVE  /\ [r EXCEPT !.coll = coll, !.open = r.open \cup {call},
                          !.seen = r.seen \cup {call}] \in Rebuilders(A)
             /\ [r EXCEPT !.coll = coll, !.open = r.open \ {call}] \in Rebuilders(A)
  BY <1>0 DEF Rebuilders
<1>3. CASE e \in StreamEvents(A)
  <2>1. /\ e.type \in StreamTypes /\ e.toks \in Seq(TokensOf(A)) /\ e.id \in Ids
        /\ e.step \in Nat
        /\ e.type \in CallTypes => e.call \in CallsOf(A)
        /\ e.type = "tool.completed" => e.result \in Results
    BY <1>3 DEF StreamEvents
  <2>2. CASE e.type = "model.delta"
    <3>1. CollectText(r.coll, e.toks, e.id, e.step) \in Collectors(A)
      BY <2>1, <1>0, CollectTextIs
    <3> QED BY <2>2, <3>1, <1>1, ApplyEventIs
  <2>3. CASE e.type = "reasoning.delta"
    <3>1. CollectReasoning(r.coll, e.toks, e.id, e.step) \in Collectors(A)
      BY <2>1, <1>0, CollectReasoningIs
    <3>2. CollectWithheld(r.coll, e.id, e.step) \in Collectors(A)
      BY <2>1, <1>0, CollectWithheldType
    <3>3. CASE e.toks = <<>>
      BY <2>3, <3>2, <3>3, <1>1, ApplyEventIs
    <3>4. CASE e.toks # <<>>
      BY <2>3, <3>1, <3>4, <1>1, ApplyEventIs
    <3> QED BY <3>3, <3>4
  <2>4. CASE e.type = "run.step_cap_reached"
    <3>1. CapNotice \in NoticeParts \cup ItemParts
      BY DEF CapNotice, NoticeParts
    <3>2. CollectPart(r.coll, CapNotice) \in Collectors(A)
      BY <3>1, <1>0, CollectPartType
    <3> QED BY <2>4, <3>2, <1>1, ApplyEventIs
  <2>5. CASE e.type = "tool.requested"
    <3>1. e.call \in CallsOf(A)
      BY <2>1, <2>5 DEF CallTypes
    <3>2. ReserveTool(r.coll, e.call, e.step) \in Collectors(A)
      BY <2>1, <3>1, <1>0, ReserveToolType
    <3>3. CASE e.call \in r.seen
      BY <2>5, <3>3, ApplyEventIs
    <3>4. CASE e.call \notin r.seen
      <4>1. ApplyEvent(r, e) = [r EXCEPT !.coll = ReserveTool(r.coll, e.call, e.step),
                                         !.open = r.open \cup {e.call},
                                         !.seen = r.seen \cup {e.call}]
        BY <2>5, <3>4, ApplyEventIs
      <4> QED BY <4>1, <3>1, <3>2, <1>2
    <3> QED BY <3>3, <3>4
  <2>6. CASE e.type = "tool.completed"
    <3>1. e.call \in CallsOf(A) /\ e.result \in Results
      BY <2>1, <2>6 DEF CallTypes
    <3>2. SettleTool(r.coll, e.call, e.result) \in Collectors(A)
      BY <3>1, <1>0, SettleToolIs
    <3>3. CASE e.call \in r.open
      <4>1. ApplyEvent(r, e) = [r EXCEPT !.coll = SettleTool(r.coll, e.call, e.result),
                                         !.open = r.open \ {e.call}]
        BY <2>6, <3>3, ApplyEventIs
      <4> QED BY <4>1, <3>1, <3>2, <1>2
    <3>4. CASE e.call \notin r.open
      BY <2>6, <3>4, ApplyEventIs
    <3> QED BY <3>3, <3>4
  <2>7. CASE e.type = "tool.started"
    BY <2>7, ApplyEventIs
  <2> QED BY <2>1, <2>2, <2>3, <2>4, <2>5, <2>6, <2>7 DEF StreamTypes, CallTypes
<1>4. CASE e \in Marks
  BY <1>4, ApplyEventIs DEF Marks
<1>5. CASE e \in Completions
  <2>1. e.type = "tool.completed" /\ e.result \in Results
    BY <1>5 DEF Completions, StreamEvents
  <2>2. CASE e.call \in r.open
    <3>1. e.call \in CallsOf(A)
      BY <1>0, <2>2
    <3>2. SettleTool(r.coll, e.call, e.result) \in Collectors(A)
      BY <2>1, <3>1, <1>0, SettleToolIs
    <3>3. ApplyEvent(r, e) = [r EXCEPT !.coll = SettleTool(r.coll, e.call, e.result),
                                       !.open = r.open \ {e.call}]
      BY <2>1, <2>2, ApplyEventIs
    <3> QED BY <3>1, <3>2, <3>3, <1>2
  <2>3. CASE e.call \notin r.open
    BY <2>1, <2>3, ApplyEventIs
  <2> QED BY <2>2, <2>3
<1> QED BY <1>3, <1>4, <1>5 DEF Events

LEMMA RebuildType ==
    ASSUME NEW A
    PROVE  \A s \in Seq(Events(A) \cup Completions) : Rebuild(s) \in Rebuilders(A)
<1> DEFINE T == Events(A) \cup Completions
           G == {s \in Seq(T) : Rebuild(s) \in Rebuilders(A)}
<1>1. <<>> \in G
  <2>1. EmptyCollector \in Collectors(A)
    BY DEF EmptyCollector, Collectors, Ids
  <2>2. NothingRebuilt \in Rebuilders(A)
    BY <2>1 DEF NothingRebuilt, Rebuilders
  <2>3. <<>> \in Seq(T)
    OBVIOUS
  <2> QED BY <2>2, <2>3, RebuildNone
<1>2. ASSUME NEW s \in Seq(T), NEW e \in T, s \in G PROVE Append(s, e) \in G
  <2>1. Rebuild(Append(s, e)) = ApplyEvent(Rebuild(s), e)
    BY RebuildAppend
  <2>2. ApplyEvent(Rebuild(s), e) \in Rebuilders(A)
    BY <1>2, ApplyEventType
  <2>3. Append(s, e) \in Seq(T)
    OBVIOUS
  <2> QED BY <2>1, <2>2, <2>3
<1>3. \A s \in Seq(T) : s \in G
  <2> HIDE DEF G, T
  <2> QED BY <1>1, <1>2, EverySequence
<1> QED BY <1>3

LEMMA RebuiltPartsType ==
    ASSUME NEW A, NEW s \in Seq(Events(A) \cup Completions)
    PROVE  RebuiltParts(s) \in Seq(Parts(A))
<1>1. Rebuild(s).coll.parts \in Seq(Parts(A))
  BY RebuildType DEF Rebuilders, Collectors
<1> QED BY <1>1, WithoutKeeps DEF RebuiltParts, PartsOf

-----------------------------------------------------------------------------
(* The window of an attempt in the log.                                    *)

Requests(e, a) == e.type = "model.requested" /\ e.attempt = a
Claims(e) == e.type = "run.started"

FirstRequest(s, a) ==
    SelectInSeq(s, LAMBDA e : e.type = "model.requested" /\ e.attempt = a)
NextClaim(s) == SelectInSeq(s, LAMBDA e : e.type = "run.started")

LEMMA FirstRequestIs ==
    ASSUME NEW T, NEW s \in Seq(T), NEW a
    PROVE  /\ FirstRequest(s, a) \in 0..Len(s)
           /\ FirstRequest(s, a) = 0 => \A i \in 1..Len(s) : ~Requests(s[i], a)
           /\ FirstRequest(s, a) # 0 =>
                /\ Requests(s[FirstRequest(s, a)], a)
                /\ \A i \in 1..(FirstRequest(s, a) - 1) : ~Requests(s[i], a)
<1> DEFINE I == {i \in 1..Len(s) : s[i].type = "model.requested" /\ s[i].attempt = a}
<1>1. FirstRequest(s, a) = IF I # {} THEN Min(I) ELSE 0
  BY DEF FirstRequest, SelectInSeq
<1>2. Len(s) \in Nat /\ I \in SUBSET (1..Len(s))
  OBVIOUS
<1>3. CASE I = {}
  BY <1>1, <1>2, <1>3 DEF Requests
<1>4. CASE I # {}
  <2>1. Min(I) \in I /\ \A j \in I : Min(I) <= j
    <3> HIDE DEF I
    <3> QED BY <1>2, <1>4, LeastPosition
  <2>2. FirstRequest(s, a) \in I /\ \A j \in I : FirstRequest(s, a) <= j
    <3> HIDE DEF I
    <3> QED BY <1>1, <1>4, <2>1
  <2> QED BY <1>2, <2>2 DEF Requests
<1> QED BY <1>3, <1>4

LEMMA NextClaimIs ==
    ASSUME NEW T, NEW s \in Seq(T)
    PROVE  /\ NextClaim(s) \in 0..Len(s)
           /\ NextClaim(s) = 0 => \A i \in 1..Len(s) : ~Claims(s[i])
           /\ NextClaim(s) # 0 =>
                /\ Claims(s[NextClaim(s)])
                /\ \A i \in 1..(NextClaim(s) - 1) : ~Claims(s[i])
<1> DEFINE I == {i \in 1..Len(s) : s[i].type = "run.started"}
<1>1. NextClaim(s) = IF I # {} THEN Min(I) ELSE 0
  BY DEF NextClaim, SelectInSeq
<1>2. Len(s) \in Nat /\ I \in SUBSET (1..Len(s))
  OBVIOUS
<1>3. CASE I = {}
  BY <1>1, <1>2, <1>3 DEF Claims
<1>4. CASE I # {}
  <2>1. Min(I) \in I /\ \A j \in I : Min(I) <= j
    <3> HIDE DEF I
    <3> QED BY <1>2, <1>4, LeastPosition
  <2>2. NextClaim(s) \in I /\ \A j \in I : NextClaim(s) <= j
    <3> HIDE DEF I
    <3> QED BY <1>1, <1>4, <2>1
  <2> QED BY <1>2, <2>2 DEF Claims
<1> QED BY <1>3, <1>4

(* The window is empty, or runs from the first request that names the      *)
(* attempt to the end of the log or to the event before the next claim.    *)
Bounds(s, a, first, last) ==
    /\ first \in 1..Len(s) /\ last \in first..Len(s)
    /\ Requests(s[first], a) /\ \A i \in 1..(first - 1) : ~Requests(s[i], a)
    /\ \A i \in first..last : ~Claims(s[i])
    /\ last = Len(s) \/ Claims(s[last + 1])
Unrequested(s, a) == \A i \in 1..Len(s) : ~Requests(s[i], a)

LEMMA WindowIs ==
    ASSUME NEW T, NEW s \in Seq(T), NEW a
    PROVE  \/ Unrequested(s, a) /\ AttemptWindow(s, a) = <<>>
           \/ \E first, last \in 1..Len(s) : /\ Bounds(s, a, first, last)
                                             /\ AttemptWindow(s, a) = SubSeq(s, first, last)
<1> DEFINE start == FirstRequest(s, a)
           rest == SubSeq(s, start, Len(s))
           end == NextClaim(rest)
<1>1. AttemptWindow(s, a) = IF start = 0 THEN <<>>
                            ELSE IF end = 0 THEN rest ELSE SubSeq(rest, 1, end - 1)
  BY DEF AttemptWindow, FirstRequest, NextClaim
<1>2. /\ start \in 0..Len(s)
      /\ start = 0 => Unrequested(s, a)
      /\ start # 0 => /\ Requests(s[start], a)
                      /\ \A i \in 1..(start - 1) : ~Requests(s[i], a)
  BY FirstRequestIs DEF Unrequested
<1> HIDE DEF start
<1>3. CASE start = 0
  BY <1>1, <1>2, <1>3
<1>4. CASE start # 0
  <2>0. start \in 1..Len(s) /\ Len(s) \in Nat
    BY <1>2, <1>4
  <2>1. /\ rest \in Seq(T) /\ Len(rest) = Len(s) - start + 1
        /\ \A i \in 1..(Len(s) - start + 1) : rest[i] = s[start + i - 1]
    BY <2>0
  <2>2. /\ end \in 0..Len(rest)
        /\ end = 0 => \A i \in 1..Len(rest) : ~Claims(rest[i])
        /\ end # 0 => /\ Claims(rest[end])
                      /\ \A i \in 1..(end - 1) : ~Claims(rest[i])
    <3> HIDE DEF rest
    <3> QED BY <2>1, NextClaimIs
  <2>3. ~Claims(s[start])
    BY <1>2, <1>4 DEF Claims, Requests
  <2>4. CASE end = 0
    <3>1. ASSUME NEW i \in start..Len(s) PROVE ~Claims(s[i])
      <4>1. i - start + 1 \in 1..(Len(s) - start + 1) /\ start + (i - start + 1) - 1 = i
        BY <2>0
      <4>2. rest[i - start + 1] = s[i]
        <5> HIDE DEF rest
        <5> QED BY <2>1, <4>1
      <4> HIDE DEF rest, end
      <4> QED BY <2>1, <2>2, <2>4, <4>1, <4>2
    <3>2. Bounds(s, a, start, Len(s)) /\ Len(s) \in 1..Len(s)
      BY <1>2, <1>4, <2>0, <3>1 DEF Bounds
    <3>3. AttemptWindow(s, a) = SubSeq(s, start, Len(s))
      BY <1>1, <1>4, <2>4
    <3> HIDE DEF rest, end
    <3> QED BY <2>0, <3>2, <3>3
  <2>5. CASE end # 0
    <3> DEFINE last == start + end - 2
    <3> HIDE DEF rest, end
    <3>1. rest[1] = s[start]
      BY <2>0, <2>1
    <3>2. end # 1
      BY <2>2, <2>3, <2>5, <3>1
    <3>3. end \in 2..Len(rest) /\ last \in start..Len(s) /\ last + 1 \in 1..Len(s)
          /\ last # Len(s) /\ end \in 1..(Len(s) - start + 1)
      BY <2>0, <2>1, <2>2, <2>5, <3>2
    <3>4. rest[end] = s[last + 1]
      <4>1. rest[end] = s[start + end - 1]
        BY <2>1, <3>3
      <4>2. start + end - 1 = last + 1
        BY <2>0, <3>3
      <4> QED BY <4>1, <4>2
    <3>5. Claims(s[last + 1])
      BY <2>2, <2>5, <3>4
    <3>6. ASSUME NEW i \in start..last PROVE ~Claims(s[i])
      <4>1. i - start + 1 \in 1..(Len(s) - start + 1) /\ start + (i - start + 1) - 1 = i
            /\ i - start + 1 \in 1..(end - 1)
        BY <2>0, <3>3
      <4>2. rest[i - start + 1] = s[i]
        BY <2>1, <4>1
      <4> QED BY <2>2, <2>5, <4>1, <4>2
    <3>7. Bounds(s, a, start, last)
      <4>1. last \in start..Len(s)
        BY <3>3
      <4> HIDE DEF last
      <4> QED BY <1>2, <1>4, <2>0, <3>5, <3>6, <4>1 DEF Bounds
    <3>8. SubSeq(rest, 1, end - 1) = SubSeq(s, start, last)
      <4>1. /\ SubSeq(s, start, last) \in Seq(T)
            /\ Len(SubSeq(s, start, last)) = end - 1
            /\ \A i \in 1..(end - 1) : SubSeq(s, start, last)[i] = s[start + i - 1]
        <5>1. last - start + 1 = end - 1 /\ last \in start..Len(s)
          BY <2>0, <3>3
        <5> HIDE DEF last
        <5> QED BY <2>0, <5>1
      <4>2. /\ SubSeq(rest, 1, end - 1) \in Seq(T)
            /\ Len(SubSeq(rest, 1, end - 1)) = end - 1
            /\ \A i \in 1..(end - 1) : SubSeq(rest, 1, end - 1)[i] = rest[i]
        <5> DEFINE m == end - 1
        <5>1. m \in 0..Len(rest) /\ Len(rest) \in Nat
          BY <3>3, <2>1
        <5> HIDE DEF m
        <5>2. /\ SubSeq(rest, 1, m) \in Seq(T)
              /\ Len(SubSeq(rest, 1, m)) = m
              /\ \A i \in 1..m : SubSeq(rest, 1, m)[i] = rest[i]
          BY <2>1, <5>1
        <5> QED BY <5>2 DEF m
      <4>3. \A i \in 1..(end - 1) : rest[i] = s[start + i - 1]
        BY <2>1, <3>3
      <4> DEFINE u == SubSeq(rest, 1, end - 1)
                 v == SubSeq(s, start, last)
      <4>4. u \in Seq(T) /\ v \in Seq(T) /\ Len(u) = Len(v)
            /\ \A i \in 1..Len(u) : u[i] = v[i]
        BY <4>1, <4>2, <4>3
      <4> HIDE DEF u, v
      <4>5. u = v
        BY <4>4
      <4> QED BY <4>5 DEF u, v
    <3>9. last \in 1..Len(s)
      BY <2>0, <3>3
    <3> QED BY <1>1, <1>4, <2>0, <2>5, <3>7, <3>8, <3>9
  <2> QED BY <2>4, <2>5
<1> QED BY <1>3, <1>4

LEMMA BoundsAgree ==
    ASSUME NEW T, NEW s \in Seq(T), NEW a,
           NEW i, NEW j, Bounds(s, a, i, j), NEW k, NEW m, Bounds(s, a, k, m)
    PROVE  i = k /\ j = m
<1>1. Len(s) \in Nat /\ i \in 1..Len(s) /\ k \in 1..Len(s)
      /\ j \in i..Len(s) /\ m \in k..Len(s)
  BY DEF Bounds
<1>2. ~(i < k) /\ ~(k < i)
  BY <1>1 DEF Bounds
<1>3. i = k
  BY <1>1, <1>2
<1>4. ASSUME j < m PROVE FALSE
  <2>1. j + 1 \in k..m /\ j # Len(s)
    BY <1>1, <1>3, <1>4
  <2> QED BY <2>1 DEF Bounds
<1>5. ASSUME m < j PROVE FALSE
  <2>1. m + 1 \in i..j /\ m # Len(s)
    BY <1>1, <1>3, <1>5
  <2> QED BY <2>1 DEF Bounds
<1> QED BY <1>1, <1>3, <1>4, <1>5

LEMMA WindowAt ==
    ASSUME NEW T, NEW s \in Seq(T), NEW a, NEW first, NEW last, Bounds(s, a, first, last)
    PROVE  AttemptWindow(s, a) = SubSeq(s, first, last)
<1>1. ~Unrequested(s, a)
  BY DEF Bounds, Unrequested
<1>2. PICK i, j \in 1..Len(s) : Bounds(s, a, i, j) /\ AttemptWindow(s, a) = SubSeq(s, i, j)
  BY <1>1, WindowIs
<1>3. i = first /\ j = last
  BY <1>2, BoundsAgree
<1> QED BY <1>2, <1>3

LEMMA WindowUnrequested ==
    ASSUME NEW T, NEW s \in Seq(T), NEW a, Unrequested(s, a)
    PROVE  AttemptWindow(s, a) = <<>>
  BY WindowIs DEF Unrequested, Bounds

(* The window of an attempt whose request no claim has followed.           *)
Open(s, a) ==
    \E first \in 1..Len(s) : /\ Requests(s[first], a)
                             /\ \A i \in 1..(first - 1) : ~Requests(s[i], a)
                             /\ \A i \in first..Len(s) : ~Claims(s[i])

LEMMA SubSeqIs ==
    ASSUME NEW T, NEW s \in Seq(T), NEW i \in 1..(Len(s) + 1), NEW j \in (i - 1)..Len(s)
    PROVE  /\ SubSeq(s, i, j) \in Seq(T)
           /\ Len(SubSeq(s, i, j)) = j - i + 1
           /\ \A k \in 1..(j - i + 1) : SubSeq(s, i, j)[k] = s[i + k - 1]
  OBVIOUS

LEMMA SameSequence ==
    ASSUME NEW T, NEW s \in Seq(T), NEW t \in Seq(T), Len(s) = Len(t),
           \A i \in 1..Len(s) : s[i] = t[i]
    PROVE  s = t
  OBVIOUS

LEMMA AppendIs ==
    ASSUME NEW T, NEW s \in Seq(T), NEW x \in T
    PROVE  /\ Append(s, x) \in Seq(T) /\ Len(Append(s, x)) = Len(s) + 1
           /\ Append(s, x)[Len(s) + 1] = x
           /\ \A i \in 1..Len(s) : Append(s, x)[i] = s[i]
  OBVIOUS

(* A log that goes on: the window of an open attempt takes the event, a    *)
(* claim closes it, a request opens the window of its attempt, and every   *)
(* other window stays what it was.                                         *)
LEMMA WindowGrows ==
    ASSUME NEW T, NEW s \in Seq(T), NEW e \in T, NEW a, Open(s, a), ~Claims(e)
    PROVE  /\ AttemptWindow(Append(s, e), a) = Append(AttemptWindow(s, a), e)
           /\ Open(Append(s, e), a)
<1> DEFINE t == Append(s, e)
           n == Len(s)
<1>1. t \in Seq(T) /\ Len(t) = n + 1 /\ t[n + 1] = e /\ n \in Nat
      /\ \A i \in 1..n : t[i] = s[i]
  BY AppendIs
<1>2. PICK first \in 1..n : /\ Requests(s[first], a)
                            /\ \A i \in 1..(first - 1) : ~Requests(s[i], a)
                            /\ \A i \in first..n : ~Claims(s[i])
  BY DEF Open
<1> HIDE DEF t
<1>3. Bounds(s, a, first, n)
  BY <1>1, <1>2 DEF Bounds
<1>4. Requests(t[first], a) /\ \A i \in 1..(first - 1) : ~Requests(t[i], a)
  BY <1>1, <1>2
<1>5. ASSUME NEW i \in first..(n + 1) PROVE ~Claims(t[i])
  <2>1. i \in first..n \/ i = n + 1
    BY <1>1
  <2> QED BY <2>1, <1>1, <1>2
<1>6. Bounds(t, a, first, n + 1)
  BY <1>1, <1>4, <1>5 DEF Bounds
<1>7. AttemptWindow(s, a) = SubSeq(s, first, n) /\ AttemptWindow(t, a) = SubSeq(t, first, n + 1)
  BY <1>1, <1>3, <1>6, WindowAt
<1>8. SubSeq(t, first, n + 1) = Append(SubSeq(s, first, n), e)
  <2> DEFINE u == SubSeq(s, first, n)
             v == SubSeq(t, first, n + 1)
             w == Append(u, e)
  <2>1. u \in Seq(T) /\ Len(u) = n - first + 1
        /\ \A k \in 1..(n - first + 1) : u[k] = s[first + k - 1]
    BY <1>1, SubSeqIs
  <2>2. v \in Seq(T) /\ Len(v) = n - first + 2
        /\ \A k \in 1..(n - first + 2) : v[k] = t[first + k - 1]
    <3>1. first \in 1..(Len(t) + 1) /\ n + 1 \in (first - 1)..Len(t)
          /\ (n + 1) - first + 1 = n - first + 2
      BY <1>1
    <3> HIDE DEF n
    <3> QED BY <1>1, <3>1, SubSeqIs
  <2> HIDE DEF u, v
  <2>3. w \in Seq(T) /\ Len(w) = n - first + 2 /\ w[n - first + 2] = e
        /\ \A k \in 1..(n - first + 1) : w[k] = u[k]
    <3> DEFINE m == n - first + 1
    <3>1. m \in Nat /\ m + 1 = n - first + 2 /\ Len(u) = m /\ u \in Seq(T)
      BY <1>1, <2>1
    <3> HIDE DEF m
    <3>2. Append(u, e) \in Seq(T) /\ Len(Append(u, e)) = m + 1 /\ Append(u, e)[m + 1] = e
          /\ \A k \in 1..m : Append(u, e)[k] = u[k]
      BY <3>1
    <3> QED BY <3>1, <3>2 DEF m, w
  <2> HIDE DEF w
  <2>4. ASSUME NEW k \in 1..(n - first + 2) PROVE v[k] = w[k]
    <3>1. CASE k = n - first + 2
      BY <1>1, <2>2, <2>3, <3>1
    <3>2. CASE k # n - first + 2
      <4>1. k \in 1..(n - first + 1) /\ first + k - 1 \in 1..n
        BY <1>1, <3>2
      <4> QED BY <4>1, <1>1, <2>1, <2>2, <2>3
    <3> QED BY <3>1, <3>2
  <2>5. v = w
    BY <2>2, <2>3, <2>4, SameSequence
  <2> QED BY <2>5 DEF u, v, w
<1>9. Open(t, a)
  BY <1>1, <1>4, <1>5 DEF Open
<1> QED BY <1>7, <1>8, <1>9 DEF t

LEMMA WindowCloses ==
    ASSUME NEW T, NEW s \in Seq(T), NEW e \in T, NEW a, Open(s, a), Claims(e)
    PROVE  /\ AttemptWindow(Append(s, e), a) = AttemptWindow(s, a)
           /\ ~Open(Append(s, e), a)
<1> DEFINE t == Append(s, e)
           n == Len(s)
<1>1. t \in Seq(T) /\ Len(t) = n + 1 /\ t[n + 1] = e /\ n \in Nat
      /\ \A i \in 1..n : t[i] = s[i]
  BY AppendIs
<1>2. PICK first \in 1..n : /\ Requests(s[first], a)
                            /\ \A i \in 1..(first - 1) : ~Requests(s[i], a)
                            /\ \A i \in first..n : ~Claims(s[i])
  BY DEF Open
<1>3. SubSeq(t, first, n) = SubSeq(s, first, n)
  <2>1. /\ SubSeq(s, first, n) \in Seq(T) /\ Len(SubSeq(s, first, n)) = n - first + 1
        /\ \A k \in 1..(n - first + 1) : SubSeq(s, first, n)[k] = s[first + k - 1]
    BY <1>1, SubSeqIs
  <2> HIDE DEF t
  <2>2. /\ SubSeq(t, first, n) \in Seq(T) /\ Len(SubSeq(t, first, n)) = n - first + 1
        /\ \A k \in 1..(n - first + 1) : SubSeq(t, first, n)[k] = t[first + k - 1]
    BY <1>1, SubSeqIs
  <2>3. \A k \in 1..(n - first + 1) : first + k - 1 \in 1..n
    BY <1>1
  <2>4. \A k \in 1..(n - first + 1) : SubSeq(t, first, n)[k] = SubSeq(s, first, n)[k]
    BY <1>1, <2>1, <2>2, <2>3
  <2> QED BY <2>1, <2>2, <2>4, SameSequence
<1> HIDE DEF t
<1>4. Bounds(s, a, first, n)
  BY <1>1, <1>2 DEF Bounds
<1>5. Bounds(t, a, first, n)
  BY <1>1, <1>2 DEF Bounds
<1>6. AttemptWindow(s, a) = SubSeq(s, first, n) /\ AttemptWindow(t, a) = SubSeq(t, first, n)
  BY <1>1, <1>4, <1>5, WindowAt
<1>7. ~Open(t, a)
  BY <1>1 DEF Open
<1> QED BY <1>3, <1>6, <1>7 DEF t

LEMMA WindowOpens ==
    ASSUME NEW T, NEW s \in Seq(T), NEW e \in T, NEW a, Unrequested(s, a), Requests(e, a)
    PROVE  /\ AttemptWindow(Append(s, e), a) = <<e>>
           /\ Open(Append(s, e), a)
<1> DEFINE t == Append(s, e)
           n == Len(s) + 1
<1>1. t \in Seq(T) /\ Len(t) = n /\ t[n] = e /\ n \in Nat \ {0} /\ n - 1 = Len(s)
      /\ \A i \in 1..(n - 1) : t[i] = s[i]
  BY AppendIs
<1> HIDE DEF t, n
<1>2. ~Claims(e)
  BY DEF Claims, Requests
<1>3. Requests(t[n], a) /\ \A i \in 1..(n - 1) : ~Requests(t[i], a)
  BY <1>1 DEF Unrequested
<1>4. \A i \in n..Len(t) : ~Claims(t[i])
  BY <1>1, <1>2
<1>5. Bounds(t, a, n, n) /\ Open(t, a)
  BY <1>1, <1>3, <1>4 DEF Bounds, Open
<1>6. AttemptWindow(t, a) = SubSeq(t, n, n)
  BY <1>1, <1>5, WindowAt
<1>7. SubSeq(t, n, n) = <<e>>
  <2>1. SubSeq(t, n, n) \in Seq(T) /\ Len(SubSeq(t, n, n)) = 1 /\ SubSeq(t, n, n)[1] = e
    BY <1>1
  <2>2. <<e>> \in Seq(T) /\ Len(<<e>>) = 1 /\ <<e>>[1] = e
    OBVIOUS
  <2> DEFINE u == SubSeq(t, n, n)
             v == <<e>>
  <2>3. u \in Seq(T) /\ v \in Seq(T) /\ Len(u) = Len(v) /\ \A i \in 1..Len(u) : u[i] = v[i]
    BY <2>1, <2>2
  <2> HIDE DEF u, v
  <2>4. u = v
    BY <2>3, SameSequence
  <2> QED BY <2>4 DEF u, v
<1> QED BY <1>5, <1>6, <1>7 DEF t

LEMMA WindowStays ==
    ASSUME NEW T, NEW s \in Seq(T), NEW e \in T, NEW a, ~Open(s, a),
           Unrequested(s, a) => ~Requests(e, a)
    PROVE  /\ AttemptWindow(Append(s, e), a) = AttemptWindow(s, a)
           /\ ~Open(Append(s, e), a)
<1> DEFINE t == Append(s, e)
           n == Len(s)
<1>1. t \in Seq(T) /\ Len(t) = n + 1 /\ t[n + 1] = e /\ n \in Nat
      /\ \A i \in 1..n : t[i] = s[i]
  BY AppendIs
<1> HIDE DEF t
<1>2. CASE Unrequested(s, a)
  <2>1. Unrequested(t, a)
    BY <1>1, <1>2 DEF Unrequested
  <2>2. AttemptWindow(s, a) = <<>> /\ AttemptWindow(t, a) = <<>>
    BY <1>1, <1>2, <2>1, WindowUnrequested
  <2>3. ~Open(t, a)
    BY <2>1 DEF Open, Unrequested
  <2> QED BY <2>2, <2>3 DEF t
<1>3. CASE ~Unrequested(s, a)
  <2>1. PICK first, last \in 1..n : /\ Bounds(s, a, first, last)
                                    /\ AttemptWindow(s, a) = SubSeq(s, first, last)
    BY <1>3, WindowIs
  <2>2. last \in first..n /\ last # n /\ Claims(s[last + 1])
    <3>1. last = n => Open(s, a)
      BY <2>1 DEF Bounds, Open
    <3> QED BY <2>1, <3>1 DEF Bounds
  <2>3. last + 1 \in 1..n /\ first \in 1..n
    BY <1>1, <2>2
  <2>4. Bounds(t, a, first, last)
    <3>1. Requests(t[first], a) /\ \A i \in 1..(first - 1) : ~Requests(t[i], a)
      BY <1>1, <2>1 DEF Bounds
    <3>2. \A i \in first..last : ~Claims(t[i])
      <4>1. \A i \in first..last : i \in 1..n /\ ~Claims(s[i])
        BY <1>1, <2>1 DEF Bounds
      <4> QED BY <1>1, <4>1
    <3>3. Claims(t[last + 1])
      BY <1>1, <2>2, <2>3
    <3>4. first \in 1..Len(t) /\ last \in first..Len(t)
      BY <1>1, <2>2
    <3> QED BY <3>1, <3>2, <3>3, <3>4 DEF Bounds
  <2>5. AttemptWindow(t, a) = SubSeq(t, first, last)
    BY <1>1, <2>4, WindowAt
  <2>6. SubSeq(t, first, last) = SubSeq(s, first, last)
    <3> DEFINE m == last - first + 1
    <3>1. /\ SubSeq(s, first, last) \in Seq(T) /\ Len(SubSeq(s, first, last)) = m
          /\ \A k \in 1..m : SubSeq(s, first, last)[k] = s[first + k - 1]
      BY <1>1, <2>2, <2>3, SubSeqIs
    <3>2. /\ SubSeq(t, first, last) \in Seq(T) /\ Len(SubSeq(t, first, last)) = m
          /\ \A k \in 1..m : SubSeq(t, first, last)[k] = t[first + k - 1]
      BY <1>1, <2>2, <2>3, SubSeqIs
    <3>3. \A k \in 1..m : first + k - 1 \in 1..n
      BY <1>1, <2>2, <2>3
    <3> HIDE DEF m
    <3>4. \A k \in 1..m : SubSeq(t, first, last)[k] = SubSeq(s, first, last)[k]
      BY <1>1, <3>1, <3>2, <3>3
    <3> QED BY <3>1, <3>2, <3>4, SameSequence
  <2>7. ~Open(t, a)
    <3> SUFFICES ASSUME NEW f \in 1..(n + 1), Requests(t[f], a),
                        \A i \in 1..(f - 1) : ~Requests(t[i], a),
                        \A i \in f..(n + 1) : ~Claims(t[i])
                 PROVE  FALSE
      BY <1>1 DEF Open
    <3>1. first \in 1..Len(t) /\ Requests(t[first], a)
      BY <2>4 DEF Bounds
    <3>2. f <= first
      BY <1>1, <3>1, <2>3
    <3>3. last + 1 \in f..(n + 1)
      BY <1>1, <2>2, <2>3, <3>2
    <3>4. Claims(t[last + 1])
      BY <1>1, <2>2, <2>3
    <3> QED BY <3>3, <3>4
  <2> QED BY <2>1, <2>5, <2>6, <2>7 DEF t
<1> QED BY <1>2, <1>3

-----------------------------------------------------------------------------
(* What the process of an attempt holds, and what its handlers do to it.   *)

Locals(a) ==
    [phase : Phases, coll : Collectors({a}),
     textBuf : Seq(TokensOf({a})), textId : Ids,
     reasoningBuf : Seq(TokensOf({a})), reasoningId : Ids,
     chain : Seq(StreamEvents({a})), calls : [Calls -> CallState],
     step : 0..MaxSteps, called : BOOLEAN, capped : BOOLEAN, failed : BOOLEAN,
     end : {"none", "completed", "failed", "cancelled"}, tokens : 0..MaxTokens]

LEMMA LocalFields ==
    ASSUME NEW a, NEW l \in Locals(a)
    PROVE  /\ l.phase \in Phases /\ l.coll \in Collectors({a})
           /\ l.textBuf \in Seq(TokensOf({a})) /\ l.textId \in Ids
           /\ l.reasoningBuf \in Seq(TokensOf({a})) /\ l.reasoningId \in Ids
           /\ l.chain \in Seq(StreamEvents({a})) /\ l.calls \in [Calls -> CallState]
           /\ l.step \in 0..MaxSteps /\ l.step \in Nat
           /\ l.called \in BOOLEAN /\ l.capped \in BOOLEAN /\ l.failed \in BOOLEAN
           /\ l.end \in {"none", "completed", "failed", "cancelled"}
           /\ l.tokens \in 0..MaxTokens /\ l.tokens \in Nat
<1>1. MaxSteps \in Nat /\ MaxTokens \in Nat
  BY TranscriptAssumption
<1> QED BY <1>1 DEF Locals

(* One field of it changed.                                                *)
LEMMA LocalUpdates ==
    ASSUME NEW a, NEW l \in Locals(a)
    PROVE  /\ \A v \in Phases : [l EXCEPT !.phase = v] \in Locals(a)
           /\ \A v \in Collectors({a}) : [l EXCEPT !.coll = v] \in Locals(a)
           /\ \A v \in Seq(TokensOf({a})) : [l EXCEPT !.textBuf = v] \in Locals(a)
           /\ \A v \in Ids : [l EXCEPT !.textId = v] \in Locals(a)
           /\ \A v \in Seq(TokensOf({a})) : [l EXCEPT !.reasoningBuf = v] \in Locals(a)
           /\ \A v \in Ids : [l EXCEPT !.reasoningId = v] \in Locals(a)
           /\ \A v \in Seq(StreamEvents({a})) : [l EXCEPT !.chain = v] \in Locals(a)
           /\ \A v \in [Calls -> CallState] : [l EXCEPT !.calls = v] \in Locals(a)
           /\ \A v \in 0..MaxSteps : [l EXCEPT !.step = v] \in Locals(a)
           /\ \A v \in BOOLEAN : [l EXCEPT !.called = v] \in Locals(a)
           /\ \A v \in BOOLEAN : [l EXCEPT !.capped = v] \in Locals(a)
           /\ \A v \in BOOLEAN : [l EXCEPT !.failed = v] \in Locals(a)
           /\ \A v \in {"none", "completed", "failed", "cancelled"} : [l EXCEPT !.end = v] \in Locals(a)
           /\ \A v \in 0..MaxTokens : [l EXCEPT !.tokens = v] \in Locals(a)
<1>1. ASSUME NEW v \in Phases PROVE [l EXCEPT !.phase = v] \in Locals(a)
  BY DEF Locals
<1>2. ASSUME NEW v \in Collectors({a}) PROVE [l EXCEPT !.coll = v] \in Locals(a)
  BY DEF Locals
<1>3. ASSUME NEW v \in Seq(TokensOf({a})) PROVE [l EXCEPT !.textBuf = v] \in Locals(a)
  BY DEF Locals
<1>4. ASSUME NEW v \in Ids PROVE [l EXCEPT !.textId = v] \in Locals(a)
  BY DEF Locals
<1>5. ASSUME NEW v \in Seq(TokensOf({a})) PROVE [l EXCEPT !.reasoningBuf = v] \in Locals(a)
  BY DEF Locals
<1>6. ASSUME NEW v \in Ids PROVE [l EXCEPT !.reasoningId = v] \in Locals(a)
  BY DEF Locals
<1>7. ASSUME NEW v \in Seq(StreamEvents({a})) PROVE [l EXCEPT !.chain = v] \in Locals(a)
  BY DEF Locals
<1>8. ASSUME NEW v \in [Calls -> CallState] PROVE [l EXCEPT !.calls = v] \in Locals(a)
  BY DEF Locals
<1>9. ASSUME NEW v \in 0..MaxSteps PROVE [l EXCEPT !.step = v] \in Locals(a)
  BY DEF Locals
<1>10. ASSUME NEW v \in BOOLEAN PROVE [l EXCEPT !.called = v] \in Locals(a)
  BY DEF Locals
<1>11. ASSUME NEW v \in BOOLEAN PROVE [l EXCEPT !.capped = v] \in Locals(a)
  BY DEF Locals
<1>12. ASSUME NEW v \in BOOLEAN PROVE [l EXCEPT !.failed = v] \in Locals(a)
  BY DEF Locals
<1>13. ASSUME NEW v \in {"none", "completed", "failed", "cancelled"} PROVE [l EXCEPT !.end = v] \in Locals(a)
  BY DEF Locals
<1>14. ASSUME NEW v \in 0..MaxTokens PROVE [l EXCEPT !.tokens = v] \in Locals(a)
  BY DEF Locals
<1> QED BY <1>1, <1>2, <1>3, <1>4, <1>5, <1>6, <1>7, <1>8, <1>9, <1>10, <1>11, <1>12, <1>13, <1>14

(* The events a handler appends to the chain.                              *)
LEMMA StreamEventsAre ==
    ASSUME NEW A
    PROVE  /\ \A toks \in Seq(TokensOf(A)), id \in Ids, step \in Nat :
                 /\ Delta("model.delta", toks, id, step) \in StreamEvents(A)
                 /\ Delta("reasoning.delta", toks, id, step) \in StreamEvents(A)
           /\ \A call \in CallsOf(A), result \in Results :
                 Completed(call, result) \in StreamEvents(A)
           /\ \A call \in CallsOf(A), step \in Nat :
                 [ToolEvent("tool.requested", call) EXCEPT !.step = step] \in StreamEvents(A)
           /\ \A call \in CallsOf(A) : ToolEvent("tool.started", call) \in StreamEvents(A)
           /\ Event("run.step_cap_reached") \in StreamEvents(A)
<1>0. <<>> \in Seq(TokensOf(A)) /\ None \in Ids
  BY DEF Ids
<1>1. ASSUME NEW toks \in Seq(TokensOf(A)), NEW id \in Ids, NEW step \in Nat
      PROVE  /\ Delta("model.delta", toks, id, step) \in StreamEvents(A)
             /\ Delta("reasoning.delta", toks, id, step) \in StreamEvents(A)
  BY <1>0 DEF Delta, Event, StreamEvents, StreamTypes, CallTypes
<1>2. ASSUME NEW call \in CallsOf(A), NEW result \in Results
      PROVE  Completed(call, result) \in StreamEvents(A)
  BY <1>0 DEF Completed, ToolEvent, Event, StreamEvents, StreamTypes, CallTypes
<1>3. ASSUME NEW call \in CallsOf(A), NEW step \in Nat
      PROVE  [ToolEvent("tool.requested", call) EXCEPT !.step = step] \in StreamEvents(A)
  BY <1>0 DEF ToolEvent, Event, StreamEvents, StreamTypes, CallTypes
<1>4. ASSUME NEW call \in CallsOf(A)
      PROVE  ToolEvent("tool.started", call) \in StreamEvents(A)
  BY <1>0 DEF ToolEvent, Event, StreamEvents, StreamTypes, CallTypes
<1>5. Event("run.step_cap_reached") \in StreamEvents(A)
  BY <1>0 DEF Event, StreamEvents, StreamTypes, CallTypes
<1> QED BY <1>1, <1>2, <1>3, <1>4, <1>5

LEMMA EnqueueType ==
    ASSUME NEW a, NEW l \in Locals(a), NEW e \in StreamEvents({a})
    PROVE  /\ Enqueue(l, e) \in Locals(a)
           /\ Enqueue(l, e) = [l EXCEPT !.chain = Append(l.chain, e)]
<1>1. l.chain \in Seq(StreamEvents({a}))
  BY LocalFields
<1>2. Append(l.chain, e) \in Seq(StreamEvents({a}))
  BY <1>1
<1>3. [l EXCEPT !.chain = Append(l.chain, e)] \in Locals(a)
  BY <1>2, LocalUpdates
<1> QED BY <1>3 DEF Enqueue

LEMMA FlushReasoningIs ==
    ASSUME NEW a, NEW l \in Locals(a)
    PROVE  /\ FlushReasoning(l) \in Locals(a)
           /\ l.reasoningBuf = <<>> => FlushReasoning(l) = l
           /\ l.reasoningBuf # <<>> =>
                FlushReasoning(l)
                  = [l EXCEPT !.chain = Append(l.chain,
                                 Delta("reasoning.delta", l.reasoningBuf,
                                       l.reasoningId, l.step)),
                              !.reasoningBuf = <<>>]
           /\ FlushReasoning(l).reasoningBuf = <<>>
<1> DEFINE e == Delta("reasoning.delta", l.reasoningBuf, l.reasoningId, l.step)
<1>1. e \in StreamEvents({a})
  BY LocalFields, StreamEventsAre
<1>2. FlushReasoning(l) = IF l.reasoningBuf = <<>> THEN l
                          ELSE [Enqueue(l, e) EXCEPT !.reasoningBuf = <<>>]
  BY DEF FlushReasoning
<1> HIDE DEF e
<1>3. /\ Enqueue(l, e) \in Locals(a)
      /\ Enqueue(l, e) = [l EXCEPT !.chain = Append(l.chain, e)]
  BY <1>1, EnqueueType
<1>4. [Enqueue(l, e) EXCEPT !.reasoningBuf = <<>>] \in Locals(a)
  <2>1. <<>> \in Seq(TokensOf({a}))
    OBVIOUS
  <2> QED BY <1>3, <2>1, LocalUpdates
<1>5. [Enqueue(l, e) EXCEPT !.reasoningBuf = <<>>]
        = [l EXCEPT !.chain = Append(l.chain, e), !.reasoningBuf = <<>>]
  BY <1>3
<1>6. [Enqueue(l, e) EXCEPT !.reasoningBuf = <<>>].reasoningBuf = <<>>
  BY <1>4 DEF Locals
<1>7. CASE l.reasoningBuf = <<>>
  BY <1>2, <1>7
<1>8. CASE l.reasoningBuf # <<>>
  BY <1>2, <1>4, <1>5, <1>6, <1>8 DEF e
<1> QED BY <1>7, <1>8

LEMMA FlushTextIs ==
    ASSUME NEW a, NEW l \in Locals(a)
    PROVE  /\ FlushText(l) \in Locals(a)
           /\ l.textBuf = <<>> => FlushText(l) = l
           /\ l.textBuf # <<>> =>
                FlushText(l)
                  = [l EXCEPT !.chain = Append(l.chain,
                                 Delta("model.delta", l.textBuf, l.textId, l.step)),
                              !.textBuf = <<>>]
           /\ FlushText(l).textBuf = <<>>
<1> DEFINE e == Delta("model.delta", l.textBuf, l.textId, l.step)
<1>1. e \in StreamEvents({a})
  BY LocalFields, StreamEventsAre
<1>2. FlushText(l) = IF l.textBuf = <<>> THEN l
                     ELSE [Enqueue(l, e) EXCEPT !.textBuf = <<>>]
  BY DEF FlushText
<1> HIDE DEF e
<1>3. /\ Enqueue(l, e) \in Locals(a)
      /\ Enqueue(l, e) = [l EXCEPT !.chain = Append(l.chain, e)]
  BY <1>1, EnqueueType
<1>4. [Enqueue(l, e) EXCEPT !.textBuf = <<>>] \in Locals(a)
  <2>1. <<>> \in Seq(TokensOf({a}))
    OBVIOUS
  <2> QED BY <1>3, <2>1, LocalUpdates
<1>5. [Enqueue(l, e) EXCEPT !.textBuf = <<>>]
        = [l EXCEPT !.chain = Append(l.chain, e), !.textBuf = <<>>]
  BY <1>3
<1>6. [Enqueue(l, e) EXCEPT !.textBuf = <<>>].textBuf = <<>>
  BY <1>4 DEF Locals
<1>7. CASE l.textBuf = <<>>
  BY <1>2, <1>7
<1>8. CASE l.textBuf # <<>>
  BY <1>2, <1>4, <1>5, <1>6, <1>8 DEF e
<1> QED BY <1>7, <1>8

(* A flush moves what the buffers hold into the chain and changes nothing  *)
(* else.                                                                   *)
SameButBuffers(l, k) ==
    /\ k.phase = l.phase /\ k.coll = l.coll /\ k.textId = l.textId
    /\ k.reasoningId = l.reasoningId /\ k.calls = l.calls /\ k.step = l.step
    /\ k.called = l.called /\ k.capped = l.capped /\ k.failed = l.failed
    /\ k.end = l.end /\ k.tokens = l.tokens

LEMMA FlushIs ==
    ASSUME NEW a, NEW l \in Locals(a)
    PROVE  /\ Flush(l) \in Locals(a) /\ FlushReasoning(l) \in Locals(a)
           /\ SameButBuffers(l, Flush(l))
           /\ SameButBuffers(l, FlushReasoning(l)) /\ SameButBuffers(l, FlushText(l))
           /\ FlushReasoning(l).textBuf = l.textBuf
           /\ FlushText(l).reasoningBuf = l.reasoningBuf
           /\ Flush(l).textBuf = <<>> /\ Flush(l).reasoningBuf = <<>>
<1>1. ASSUME NEW k \in Locals(a)
      PROVE  /\ SameButBuffers(k, FlushReasoning(k))
             /\ FlushReasoning(k).textBuf = k.textBuf
             /\ FlushReasoning(k).reasoningBuf = <<>>
             /\ FlushReasoning(k) \in Locals(a)
  <2> DEFINE m == FlushReasoning(k)
             e == Delta("reasoning.delta", k.reasoningBuf, k.reasoningId, k.step)
             c == Append(k.chain, e)
  <2>1. /\ m \in Locals(a)
        /\ k.reasoningBuf = <<>> => m = k
        /\ k.reasoningBuf # <<>> => m = [k EXCEPT !.chain = c, !.reasoningBuf = <<>>]
        /\ m.reasoningBuf = <<>>
    BY FlushReasoningIs
  <2> HIDE DEF m, c
  <2>2. m = k \/ m = [k EXCEPT !.chain = c, !.reasoningBuf = <<>>]
    BY <2>1
  <2>3. SameButBuffers(k, m) /\ m.textBuf = k.textBuf
    BY <2>2 DEF SameButBuffers, Locals
  <2> QED BY <2>1, <2>3 DEF m
<1>2. ASSUME NEW k \in Locals(a)
      PROVE  /\ SameButBuffers(k, FlushText(k))
             /\ FlushText(k).reasoningBuf = k.reasoningBuf
             /\ FlushText(k).textBuf = <<>>
             /\ FlushText(k) \in Locals(a)
  <2> DEFINE m == FlushText(k)
             e == Delta("model.delta", k.textBuf, k.textId, k.step)
             c == Append(k.chain, e)
  <2>1. /\ m \in Locals(a)
        /\ k.textBuf = <<>> => m = k
        /\ k.textBuf # <<>> => m = [k EXCEPT !.chain = c, !.textBuf = <<>>]
        /\ m.textBuf = <<>>
    BY FlushTextIs
  <2> HIDE DEF m, c
  <2>2. m = k \/ m = [k EXCEPT !.chain = c, !.textBuf = <<>>]
    BY <2>1
  <2>3. SameButBuffers(k, m) /\ m.reasoningBuf = k.reasoningBuf
    BY <2>2 DEF SameButBuffers, Locals
  <2> QED BY <2>1, <2>3 DEF m
<1>3. Flush(l) = FlushText(FlushReasoning(l))
  BY DEF Flush
<1>4. FlushReasoning(l) \in Locals(a) /\ SameButBuffers(l, FlushReasoning(l))
      /\ FlushReasoning(l).reasoningBuf = <<>>
  BY <1>1
<1>5. Flush(l) \in Locals(a) /\ SameButBuffers(FlushReasoning(l), Flush(l))
      /\ Flush(l).textBuf = <<>> /\ Flush(l).reasoningBuf = <<>>
  BY <1>2, <1>3, <1>4
<1>6. SameButBuffers(l, Flush(l))
  BY <1>4, <1>5 DEF SameButBuffers
<1> QED BY <1>1, <1>2, <1>4, <1>5, <1>6

RequestEvent(a, c, step) == [ToolEvent("tool.requested", <<a, c>>) EXCEPT !.step = step]

LEMMA RequestedIs ==
    ASSUME NEW a, NEW l \in Locals(a), NEW c \in Calls
    PROVE  /\ Requested(a, l, c) \in Locals(a)
           /\ Requested(a, l, c) = [l EXCEPT !.chain = Append(l.chain, RequestEvent(a, c, l.step))]
           /\ RequestEvent(a, c, l.step) \in StreamEvents({a})
<1>1. <<a, c>> \in CallsOf({a})
  BY DEF CallsOf
<1>2. RequestEvent(a, c, l.step) \in StreamEvents({a})
  BY <1>1, LocalFields, StreamEventsAre DEF RequestEvent
<1>3. Requested(a, l, c) = Enqueue(l, RequestEvent(a, c, l.step))
  BY DEF Requested, RequestEvent
<1> DEFINE f == RequestEvent(a, c, l.step)
<1> HIDE DEF f
<1>4. Enqueue(l, f) \in Locals(a)
  BY <1>2, EnqueueType DEF f
<1>5. Enqueue(l, f) = [l EXCEPT !.chain = Append(l.chain, f)]
  BY DEF Enqueue
<1> QED BY <1>2, <1>3, <1>4, <1>5 DEF f

(* What a handler leaves of a process but its chain, calls and parts.       *)
SameButWork(l, k) ==
    /\ k.phase = l.phase /\ k.textBuf = l.textBuf /\ k.textId = l.textId
    /\ k.reasoningBuf = l.reasoningBuf /\ k.reasoningId = l.reasoningId
    /\ k.step = l.step /\ k.called = l.called /\ k.capped = l.capped
    /\ k.failed = l.failed /\ k.end = l.end /\ k.tokens = l.tokens

Recorded(a, l, c, result, k) ==
    /\ SameButWork(l, k)
    /\ k.chain = Append(l.chain, Completed(<<a, c>>, result))
    /\ k.coll = SettleTool(l.coll, <<a, c>>, result)
    /\ \A d \in Calls : k.calls[d] = IF d = c THEN "settled" ELSE l.calls[d]

LEMMA RecordCompletedIs ==
    ASSUME NEW a, NEW l \in Locals(a), NEW c \in Calls, NEW result \in Results
    PROVE  /\ RecordCompleted(a, l, c, result) \in Locals(a)
           /\ Recorded(a, l, c, result, RecordCompleted(a, l, c, result))
           /\ Completed(<<a, c>>, result) \in StreamEvents({a})
<1> SUFFICES ASSUME NEW k, k = RecordCompleted(a, l, c, result)
             PROVE  /\ k \in Locals(a) /\ Recorded(a, l, c, result, k)
                    /\ Completed(<<a, c>>, result) \in StreamEvents({a})
  OBVIOUS
<1> DEFINE e == Completed(<<a, c>>, result)
           coll == SettleTool(l.coll, <<a, c>>, result)
           calls == [l.calls EXCEPT ![c] = "settled"]
<1>1. <<a, c>> \in CallsOf({a})
  BY DEF CallsOf
<1>2. e \in StreamEvents({a})
  BY <1>1, StreamEventsAre
<1>3. coll \in Collectors({a})
  BY <1>1, LocalFields, SettleToolIs
<1>4. calls \in [Calls -> CallState]
      /\ \A d \in Calls : calls[d] = IF d = c THEN "settled" ELSE l.calls[d]
  BY LocalFields DEF CallState
<1>5. k = [Enqueue(l, e) EXCEPT !.coll = SettleTool(Enqueue(l, e).coll, <<a, c>>, result),
                                !.calls = [Enqueue(l, e).calls EXCEPT ![c] = "settled"]]
  BY DEF RecordCompleted
<1> HIDE DEF e
<1>6. /\ Enqueue(l, e) \in Locals(a)
      /\ Enqueue(l, e) = [l EXCEPT !.chain = Append(l.chain, e)]
  BY <1>2, EnqueueType
<1>7. Enqueue(l, e).coll = l.coll /\ Enqueue(l, e).calls = l.calls
  BY <1>6 DEF Locals
<1>8. k = [Enqueue(l, e) EXCEPT !.coll = coll, !.calls = calls]
  BY <1>5, <1>7
<1> HIDE DEF coll, calls
<1>9. [Enqueue(l, e) EXCEPT !.coll = coll] \in Locals(a)
  BY <1>3, <1>6, LocalUpdates
<1>10. [[Enqueue(l, e) EXCEPT !.coll = coll] EXCEPT !.calls = calls] \in Locals(a)
  BY <1>4, <1>9, LocalUpdates
<1>11. k = [l EXCEPT !.chain = Append(l.chain, e), !.coll = coll, !.calls = calls]
  BY <1>6, <1>8
<1>12. SameButWork(l, k) /\ k.chain = Append(l.chain, e) /\ k.coll = coll /\ k.calls = calls
  BY <1>11 DEF Locals, SameButWork
<1> QED BY <1>2, <1>4, <1>8, <1>10, <1>12 DEF e, coll, Recorded

Admitted(a, l, c, ok, k) ==
    /\ SameButWork(l, k) /\ k.coll = l.coll
    /\ k.chain = IF ok THEN Append(Append(l.chain, RequestEvent(a, c, l.step)),
                                   ToolEvent("tool.started", <<a, c>>))
                 ELSE Append(l.chain, RequestEvent(a, c, l.step))
    /\ \A d \in Calls : k.calls[d] = IF d = c THEN IF ok THEN "admitted" ELSE "denied"
                                    ELSE l.calls[d]

LEMMA AdmitIs ==
    ASSUME NEW a, NEW l \in Locals(a), NEW c \in Calls, NEW ok \in BOOLEAN
    PROVE  /\ Admit(a, l, c, ok) \in Locals(a)
           /\ Admitted(a, l, c, ok, Admit(a, l, c, ok))
           /\ RequestEvent(a, c, l.step) \in StreamEvents({a})
           /\ ToolEvent("tool.started", <<a, c>>) \in StreamEvents({a})
<1> SUFFICES ASSUME NEW k, k = Admit(a, l, c, ok)
             PROVE  /\ k \in Locals(a) /\ Admitted(a, l, c, ok, k)
                    /\ RequestEvent(a, c, l.step) \in StreamEvents({a})
                    /\ ToolEvent("tool.started", <<a, c>>) \in StreamEvents({a})
  OBVIOUS
<1> DEFINE r == Requested(a, l, c)
           e == ToolEvent("tool.started", <<a, c>>)
           f == RequestEvent(a, c, l.step)
           q == Enqueue(r, e)
           state == IF ok THEN "admitted" ELSE "denied"
           calls == [l.calls EXCEPT ![c] = state]
<1>1. r \in Locals(a) /\ r = [l EXCEPT !.chain = Append(l.chain, f)]
      /\ f \in StreamEvents({a})
  BY RequestedIs
<1>2. e \in StreamEvents({a})
  <2>1. <<a, c>> \in CallsOf({a})
    BY DEF CallsOf
  <2> QED BY <2>1, StreamEventsAre
<1>3. calls \in [Calls -> CallState]
      /\ \A d \in Calls : calls[d] = IF d = c THEN IF ok THEN "admitted" ELSE "denied"
                                     ELSE l.calls[d]
  BY LocalFields DEF CallState
<1>4. k = IF ok THEN [q EXCEPT !.calls = [q.calls EXCEPT ![c] = "admitted"]]
          ELSE [r EXCEPT !.calls = [r.calls EXCEPT ![c] = "denied"]]
  BY DEF Admit
<1> HIDE DEF e, f, r
<1>5. q \in Locals(a) /\ q = [r EXCEPT !.chain = Append(r.chain, e)]
  <2>1. q \in Locals(a)
    BY <1>1, <1>2, EnqueueType
  <2>2. q = [r EXCEPT !.chain = Append(r.chain, e)]
    BY DEF Enqueue
  <2> QED BY <2>1, <2>2
<1> HIDE DEF q
<1>6. r.chain = Append(l.chain, f) /\ r.calls = l.calls
  BY <1>1 DEF Locals
<1>7. q = [l EXCEPT !.chain = Append(Append(l.chain, f), e)] /\ q.calls = l.calls
  BY <1>1, <1>5, <1>6 DEF Locals
<1>8. k = IF ok THEN [q EXCEPT !.calls = calls] ELSE [r EXCEPT !.calls = calls]
  BY <1>4, <1>6, <1>7
<1> HIDE DEF calls
<1>9. [q EXCEPT !.calls = calls] \in Locals(a) /\ [r EXCEPT !.calls = calls] \in Locals(a)
  BY <1>1, <1>3, <1>5, LocalUpdates
<1>10. CASE ok
  <2>1. k = [l EXCEPT !.chain = Append(Append(l.chain, f), e), !.calls = calls]
    BY <1>7, <1>8, <1>10
  <2>2. /\ SameButWork(l, k) /\ k.coll = l.coll /\ k.calls = calls
        /\ k.chain = Append(Append(l.chain, f), e)
    BY <2>1 DEF SameButWork, Locals
  <2> QED BY <1>1, <1>2, <1>3, <1>8, <1>9, <1>10, <2>2 DEF e, f, Admitted
<1>11. CASE ~ok
  <2>1. k = [l EXCEPT !.chain = Append(l.chain, f), !.calls = calls]
    BY <1>1, <1>8, <1>11
  <2>2. /\ SameButWork(l, k) /\ k.coll = l.coll /\ k.calls = calls
        /\ k.chain = Append(l.chain, f)
    BY <2>1 DEF SameButWork, Locals
  <2> QED BY <1>1, <1>2, <1>3, <1>8, <1>9, <1>11, <2>2 DEF e, f, Admitted
<1> QED BY <1>10, <1>11

(* A finite set has a listing without repetition.                          *)
LEMMA SetToSeqIs ==
    ASSUME NEW S, IsFiniteSet(S)
    PROVE  /\ SetToSeq(S) \in Seq(S)
           /\ \A i, j \in 1..Len(SetToSeq(S)) :
                 SetToSeq(S)[i] = SetToSeq(S)[j] => i = j
           /\ \A x \in S : \E i \in 1..Len(SetToSeq(S)) : SetToSeq(S)[i] = x
<1> DEFINE n == Cardinality(S)
           D == 1..n
<1>1. n \in Nat /\ ExistsBijection(D, S)
  BY FS_CardinalityType
<1>2. Bijection(D, S) # {}
  BY <1>1 DEF ExistsBijection
<1>3. PICK g : g \in Bijection(D, S)
  BY <1>2
<1>4. g \in [D -> S] /\ IsInjective(g)
  BY <1>3 DEF Bijection, Injection
<1>5. SetToSeq(S) \in [D -> S] /\ IsInjective(SetToSeq(S))
  <2>1. SetToSeq(S) = CHOOSE f \in [D -> S] : IsInjective(f)
    BY DEF SetToSeq
  <2> HIDE DEF D
  <2> QED BY <1>4, <2>1
<1> DEFINE f == SetToSeq(S)
<1> HIDE DEF f
<1>6. f \in [D -> S] /\ IsInjective(f)
  BY <1>5 DEF f
<1>7. f \in Seq(S) /\ Len(f) = n
  <2> HIDE DEF n
  <2> QED BY <1>1, <1>6
<1>8. f \in Injection(D, S)
  BY <1>6 DEF Injection
<1>9. Cardinality(D) = n
  <2>1. Cardinality(D) = IF 1 > n THEN 0 ELSE n - 1 + 1
    <3> HIDE DEF n
    <3> QED BY <1>1, FS_Interval
  <2> HIDE DEF n
  <2> QED BY <1>1, <2>1
<1>10. f \in Surjection(D, S)
  <2> HIDE DEF D
  <2>1. Cardinality(D) = Cardinality(S) <=> f \in Surjection(D, S)
    BY <1>8, FS_Injection
  <2> QED BY <1>9, <2>1
<1>11. \A x \in S : \E i \in D : f[i] = x
  BY <1>10 DEF Surjection
<1>12. \A i, j \in D : f[i] = f[j] => i = j
  <2>1. DOMAIN f = D
    BY <1>6
  <2> HIDE DEF D
  <2> QED BY <1>6, <2>1 DEF IsInjective
<1> HIDE DEF n
<1> QED BY <1>7, <1>11, <1>12 DEF f

(* The fold of SettleOpen.                                                 *)
Settles(f, a, l, s, m) ==
    f = [n \in 0..m |-> IF n = 0 THEN l ELSE RecordCompleted(a, f[n - 1], s[n], "cancelled")]

LEMMA SettlesExist ==
    ASSUME NEW a, NEW l, NEW s, NEW m \in Nat
    PROVE  \E f : Settles(f, a, l, s, m)
<1> DEFINE G == {n \in Nat : \E f : Settles(f, a, l, s, n)}
<1>1. 0 \in G
  <2> DEFINE f == [n \in 0..0 |-> l]
  <2>1. Settles(f, a, l, s, 0)
    BY DEF Settles
  <2> HIDE DEF f
  <2> QED BY <2>1
<1>2. ASSUME NEW n \in Nat, n \in G PROVE n + 1 \in G
  <2>1. PICK f : Settles(f, a, l, s, n)
    BY <1>2
  <2> DEFINE g == [i \in 0..(n + 1) |-> IF i = n + 1 THEN RecordCompleted(a, f[n], s[n + 1], "cancelled")
                                        ELSE f[i]]
  <2>2. \A i \in 0..n : g[i] = f[i]
    OBVIOUS
  <2>3. ASSUME NEW i \in 0..(n + 1)
        PROVE  g[i] = IF i = 0 THEN l ELSE RecordCompleted(a, g[i - 1], s[i], "cancelled")
    <3>1. CASE i = n + 1
      <4>1. g[i] = RecordCompleted(a, f[n], s[n + 1], "cancelled") /\ i # 0 /\ i - 1 = n
        BY <3>1
      <4>2. g[n] = f[n]
        BY <2>2
      <4> HIDE DEF g
      <4> QED BY <4>1, <4>2, <3>1
    <3>2. CASE i \in 0..n
      <4>1. f[i] = IF i = 0 THEN l ELSE RecordCompleted(a, f[i - 1], s[i], "cancelled")
        BY <2>1, <3>2 DEF Settles
      <4>2. i = 0 \/ i - 1 \in 0..n
        BY <3>2
      <4>3. g[i] = f[i] /\ (i # 0 => g[i - 1] = f[i - 1])
        BY <2>2, <3>2, <4>2
      <4> HIDE DEF g
      <4> QED BY <4>1, <4>3
    <3> QED BY <3>1, <3>2
  <2>4. g = [i \in 0..(n + 1) |-> IF i = 0 THEN l
                                  ELSE RecordCompleted(a, g[i - 1], s[i], "cancelled")]
    <3> DEFINE h == [i \in 0..(n + 1) |-> IF i = 0 THEN l
                                          ELSE RecordCompleted(a, g[i - 1], s[i], "cancelled")]
    <3>1. DOMAIN g = 0..(n + 1) /\ DOMAIN h = 0..(n + 1)
      OBVIOUS
    <3>2. \A i \in 0..(n + 1) : g[i] = h[i]
      <4> HIDE DEF g
      <4> QED BY <2>3
    <3>3. g = [i \in DOMAIN g |-> g[i]] /\ h = [i \in DOMAIN h |-> h[i]]
      OBVIOUS
    <3> HIDE DEF g, h
    <3>4. g = h
      BY <3>1, <3>2, <3>3
    <3> QED BY <3>4 DEF h
  <2>5. Settles(g, a, l, s, n + 1)
    <3> HIDE DEF g
    <3> QED BY <2>4 DEF Settles
  <2> HIDE DEF g
  <2> QED BY <2>5
<1>3. \A n \in Nat : n \in G
  <2> HIDE DEF G
  <2> QED BY <1>1, <1>2, EveryNatural
<1> QED BY <1>3

OpenStates == {"resolving", "admitted", "denied", "running", "rejected", "thrown"}

LEMMA OpenCallsAre ==
    ASSUME NEW a, NEW l \in Locals(a)
    PROVE  /\ OpenCalls(l) = {c \in Calls : l.calls[c] \in OpenStates}
           /\ \A cs : IsFiniteSet(OpenCalls(l) \cap cs)
<1>1. OpenCalls(l) = {c \in Calls : l.calls[c] \in OpenStates}
  BY DEF OpenCalls, Awaited, OpenStates
<1>2. ASSUME NEW cs PROVE IsFiniteSet(OpenCalls(l) \cap cs)
  <2>1. OpenCalls(l) \cap cs \in SUBSET Calls
    BY <1>1
  <2>2. IsFiniteSet(Calls)
    BY TranscriptAssumption
  <2> QED BY <2>1, <2>2, FS_Subset
<1> QED BY <1>1, <1>2

(* The calls settled at an abort are those that were open; what holds of a *)
(* process and survives the outcome of each open call holds afterwards.    *)
LEMMA SettleOpenKeeps ==
    ASSUME NEW a, NEW l \in Locals(a), NEW cs, NEW G, l \in G,
           \A k \in Locals(a) : \A c \in Calls :
               k \in G /\ k.calls[c] \in OpenStates =>
                   RecordCompleted(a, k, c, "cancelled") \in G
    PROVE  /\ SettleOpen(a, l, cs) \in Locals(a)
           /\ SettleOpen(a, l, cs) \in G
           /\ SettleOpen(a, l, cs).calls
                = [c \in Calls |-> IF c \in OpenCalls(l) \cap cs THEN "settled"
                                   ELSE l.calls[c]]
<1> DEFINE S == OpenCalls(l) \cap cs
           s == SetToSeq(S)
           m == Len(s)
<1>1. IsFiniteSet(S) /\ S \subseteq Calls /\ \A c \in S : l.calls[c] \in OpenStates
  BY OpenCallsAre
<1>2. /\ s \in Seq(S) /\ m \in Nat
      /\ \A i, j \in 1..m : s[i] = s[j] => i = j
      /\ \A x \in S : \E i \in 1..m : s[i] = x
  <2> HIDE DEF S
  <2> QED BY <1>1, SetToSeqIs
<1>3. PICK f : Settles(f, a, l, s, m)
  <2> HIDE DEF m, s
  <2> QED BY <1>2, SettlesExist, Zenon
<1>4. f = [n \in 0..Len(SetToSeq(OpenCalls(l) \cap cs)) |->
              IF n = 0 THEN l
              ELSE RecordCompleted(a, f[n - 1], SetToSeq(OpenCalls(l) \cap cs)[n], "cancelled")]
  BY <1>3 DEF Settles
<1>5. \E g : g = [n \in 0..Len(SetToSeq(OpenCalls(l) \cap cs)) |->
              IF n = 0 THEN l
              ELSE RecordCompleted(a, g[n - 1], SetToSeq(OpenCalls(l) \cap cs)[n], "cancelled")]
             /\ SettleOpen(a, l, cs) = g[Len(SetToSeq(OpenCalls(l) \cap cs))]
  BY <1>4, Zenon DEF SettleOpen
<1>6. PICK g : /\ g = [n \in 0..m |-> IF n = 0 THEN l
                                      ELSE RecordCompleted(a, g[n - 1], s[n], "cancelled")]
               /\ SettleOpen(a, l, cs) = g[m]
  BY <1>5
<1> DEFINE Calls_(n) == [c \in Calls |-> IF \E j \in 1..n : s[j] = c THEN "settled"
                                        ELSE l.calls[c]]
           H == {n \in Nat : n <= m => /\ g[n] \in Locals(a) /\ g[n] \in G
                                       /\ g[n].calls = Calls_(n)}
<1>7. l.calls \in [Calls -> CallState]
  BY LocalFields
<1>8. \A j \in 1..m : s[j] \in S
  BY <1>2
<1> HIDE DEF s, m
<1>9. 0 \in H
  <2>1. g[0] = l
    BY <1>2, <1>6
  <2>2. Calls_(0) = l.calls
    BY <1>7
  <2> QED BY <2>1, <2>2
<1>10. ASSUME NEW n \in Nat, n \in H PROVE n + 1 \in H
  <2> SUFFICES ASSUME n + 1 <= m
               PROVE  /\ g[n + 1] \in Locals(a) /\ g[n + 1] \in G
                      /\ g[n + 1].calls = Calls_(n + 1)
    OBVIOUS
  <2>1. n <= m /\ n + 1 \in 1..m /\ n + 1 \in 0..m /\ n + 1 # 0 /\ (n + 1) - 1 = n
    BY <1>2
  <2>2. g[n] \in Locals(a) /\ g[n] \in G /\ g[n].calls = Calls_(n)
    BY <1>10, <2>1
  <2>3. PICK k, c : k = g[n] /\ c = s[n + 1]
    OBVIOUS
  <2>4. PICK q : q = RecordCompleted(a, k, c, "cancelled")
    OBVIOUS
  <2>5. g[n + 1] = q
    BY <1>6, <2>1, <2>3, <2>4
  <2>6. c \in S /\ c \in Calls /\ \A j \in 1..n : s[j] # c
    BY <1>1, <1>2, <1>8, <2>1, <2>3
  <2> HIDE DEF S
  <2>7. k.calls[c] = l.calls[c] /\ l.calls[c] \in OpenStates
    BY <1>1, <2>2, <2>3, <2>6
  <2>8. q \in G
    BY <2>2, <2>3, <2>4, <2>6, <2>7
  <2>9. q \in Locals(a) /\ q.calls = [k.calls EXCEPT ![c] = "settled"]
    <3>1. "cancelled" \in Results /\ k \in Locals(a)
      BY <2>2, <2>3 DEF Results
    <3>2. q \in Locals(a) /\ Recorded(a, k, c, "cancelled", q)
      BY <2>4, <2>6, <3>1, RecordCompletedIs
    <3>3. q.calls \in [Calls -> CallState] /\ k.calls \in [Calls -> CallState]
      BY <3>1, <3>2, LocalFields
    <3> QED BY <3>2, <3>3 DEF Recorded
  <2>10. [k.calls EXCEPT ![c] = "settled"] = Calls_(n + 1)
    <3>1. k.calls = Calls_(n)
      BY <2>2, <2>3
    <3>2. \A d : (\E j \in 1..(n + 1) : s[j] = d) <=> d = c \/ \E j \in 1..n : s[j] = d
      BY <2>3
    <3>3. ASSUME NEW d \in Calls
          PROVE  [k.calls EXCEPT ![c] = "settled"][d] = Calls_(n + 1)[d]
      <4>1. CASE d = c
        BY <2>6, <3>1, <3>2, <4>1
      <4>2. CASE d # c
        BY <3>1, <3>2, <4>2
      <4> QED BY <4>1, <4>2
    <3>4. [k.calls EXCEPT ![c] = "settled"] = [d \in Calls |-> [k.calls EXCEPT ![c] = "settled"][d]]
          /\ Calls_(n + 1) = [d \in Calls |-> Calls_(n + 1)[d]]
      BY <3>1
    <3> DEFINE u == [k.calls EXCEPT ![c] = "settled"]
               v == Calls_(n + 1)
    <3>5. u = [d \in Calls |-> u[d]] /\ v = [d \in Calls |-> v[d]]
      BY <3>4
    <3>6. \A d \in Calls : u[d] = v[d]
      BY <3>3
    <3> HIDE DEF u, v
    <3>7. u = v
      BY <3>5, <3>6
    <3> QED BY <3>7 DEF u, v
  <2> HIDE DEF Calls_
  <2> QED BY <2>5, <2>8, <2>9, <2>10
<1>11. \A n \in Nat : n \in H
  <2> HIDE DEF H
  <2> QED BY <1>9, <1>10, EveryNatural
<1>12. /\ g[m] \in Locals(a) /\ g[m] \in G
       /\ g[m].calls = Calls_(m)
  BY <1>2, <1>11
<1>13. Calls_(m) = [c \in Calls |-> IF c \in S THEN "settled" ELSE l.calls[c]]
  <2>1. \A c : c \in S <=> \E j \in 1..m : s[j] = c
    <3> HIDE DEF S
    <3> QED BY <1>2, <1>8
  <2> HIDE DEF S
  <2> QED BY <2>1
<1> QED BY <1>6, <1>12, <1>13

-----------------------------------------------------------------------------
(* The calls a sequence of events requests, and those a collector holds a  *)
(* place or an outcome for.                                                *)

LEMMA RequestedAppend ==
    ASSUME NEW T, NEW s \in Seq(T), NEW e \in T
    PROVE  /\ e.type = "tool.requested" =>
                RequestedIn(Append(s, e)) = RequestedIn(s) \cup {e.call}
           /\ e.type # "tool.requested" => RequestedIn(Append(s, e)) = RequestedIn(s)
<1>1. Range(Append(s, e)) = Range(s) \cup {e}
  BY AppendedRange
<1>2. CASE e.type = "tool.requested"
  BY <1>1, <1>2 DEF RequestedIn
<1>3. CASE e.type # "tool.requested"
  BY <1>1, <1>3 DEF RequestedIn
<1> QED BY <1>2, <1>3

LEMMA RequestedNone == RequestedIn(<<>>) = {}
  BY DEF RequestedIn, Range

LEMMA RequestedTail ==
    ASSUME NEW T, NEW s \in Seq(T), s # <<>>
    PROVE  RequestedIn(Tail(s)) \subseteq RequestedIn(s)
<1>1. \A i \in DOMAIN Tail(s) : i + 1 \in DOMAIN s /\ Tail(s)[i] = s[i + 1]
  OBVIOUS
<1>2. Range(Tail(s)) \subseteq Range(s)
  <2> DEFINE t == Tail(s)
  <2> HIDE DEF t
  <2>1. \A i \in DOMAIN t : i + 1 \in DOMAIN s /\ t[i] = s[i + 1]
    BY <1>1 DEF t
  <2>2. Range(t) \subseteq Range(s)
    BY <2>1 DEF Range
  <2> QED BY <2>2 DEF t
<1> QED BY <1>2 DEF RequestedIn

LEMMA RequestedHead ==
    ASSUME NEW T, NEW s \in Seq(T), s # <<>>, Head(s).type = "tool.requested"
    PROVE  Head(s).call \in RequestedIn(s)
<1>1. Head(s) \in Range(s)
  <2>1. 1 \in DOMAIN s /\ Head(s) = s[1]
    OBVIOUS
  <2> QED BY <2>1 DEF Range
<1> QED BY <1>1 DEF RequestedIn

PendingIn(parts) == {parts[i].call : i \in {j \in DOMAIN parts : parts[j].kind = "pending-tool"}}

LEMMA BooksAppend ==
    ASSUME NEW T, NEW s \in Seq(T), NEW p \in T
    PROVE  /\ p.kind \notin {"tool", "pending-tool"} =>
                /\ PendingIn(Append(s, p)) = PendingIn(s)
                /\ CallsIn(Append(s, p)) = CallsIn(s)
           /\ p.kind = "pending-tool" =>
                /\ PendingIn(Append(s, p)) = PendingIn(s) \cup {p.call}
                /\ CallsIn(Append(s, p)) = CallsIn(s)
<1> DEFINE t == Append(s, p)
<1>1. DOMAIN t = 1..(Len(s) + 1) /\ DOMAIN s = 1..Len(s) /\ Len(s) \in Nat
      /\ t[Len(s) + 1] = p /\ \A i \in 1..Len(s) : t[i] = s[i]
  OBVIOUS
<1>2. \A i : i \in DOMAIN t <=> i \in DOMAIN s \/ i = Len(s) + 1
  BY <1>1
<1> HIDE DEF t
<1>3. PendingIn(t) = PendingIn(s) \cup (IF p.kind = "pending-tool" THEN {p.call} ELSE {})
  BY <1>1, <1>2 DEF PendingIn
<1>4. CallsIn(t) = CallsIn(s) \cup (IF p.kind = "tool" THEN {p.call} ELSE {})
  BY <1>1, <1>2 DEF CallsIn
<1> QED BY <1>3, <1>4 DEF t

LEMMA BooksSame ==
    ASSUME NEW T, NEW s \in Seq(T), s # <<>>, NEW t \in Seq(T), Len(t) = Len(s),
           \A i \in 1..(Len(s) - 1) : t[i] = s[i],
           s[Len(s)].kind \notin {"tool", "pending-tool"},
           t[Len(s)].kind \notin {"tool", "pending-tool"}
    PROVE  PendingIn(t) = PendingIn(s) /\ CallsIn(t) = CallsIn(s)
<1>1. Len(s) \in Nat \ {0} /\ DOMAIN s = 1..Len(s) /\ DOMAIN t = 1..Len(s)
  OBVIOUS
<1>2. \A i \in 1..Len(s) : i \in 1..(Len(s) - 1) \/ i = Len(s)
  <2>1. PICK n \in Nat \ {0} : n = Len(s)
    BY <1>1
  <2>2. \A i \in 1..n : i \in 1..(n - 1) \/ i = n
    OBVIOUS
  <2> QED BY <2>1, <2>2
<1>3. \A i \in DOMAIN s : s[i].kind \in {"tool", "pending-tool"} => t[i] = s[i]
  BY <1>1, <1>2
<1>4. \A i \in DOMAIN t : t[i].kind \in {"tool", "pending-tool"} => t[i] = s[i]
  BY <1>1, <1>2
<1> QED BY <1>1, <1>3, <1>4 DEF PendingIn, CallsIn

SameBooks(c, d) ==
    /\ PendingIn(d.parts) = PendingIn(c.parts)
    /\ CallsIn(d.parts) = CallsIn(c.parts) /\ d.settled = c.settled

(* Text joins the last part or starts one; the calls keep their places.    *)
LEMMA WithCharsBooks ==
    ASSUME NEW A, NEW parts \in Seq(Parts(A)), parts # <<>>,
           Last(parts).kind \in {"text", "reasoning"}, NEW toks \in Seq(TokensOf(A))
    PROVE  /\ PendingIn(WithChars(parts, toks)) = PendingIn(parts)
           /\ CallsIn(WithChars(parts, toks)) = CallsIn(parts)
<1> DEFINE last == [kind |-> Last(parts).kind, toks |-> Last(parts).toks \o toks,
                    step |-> Last(parts).step]
           t == WithChars(parts, toks)
<1>1. t = Append(Front(parts), last) /\ t \in Seq(Parts(A))
  BY WithCharsIs
<1>2. last.kind = Last(parts).kind
  OBVIOUS
<1>3. /\ Len(parts) \in Nat \ {0} /\ Last(parts) = parts[Len(parts)]
      /\ Front(parts) \in Seq(Parts(A)) /\ Len(Front(parts)) = Len(parts) - 1
      /\ \A i \in 1..(Len(parts) - 1) : Front(parts)[i] = parts[i]
  BY LastIs
<1> HIDE DEF last, t
<1>4. /\ Len(t) = Len(parts) /\ t[Len(parts)] = last
      /\ \A i \in 1..(Len(parts) - 1) : t[i] = parts[i]
  <2> DEFINE n == Len(parts) - 1
  <2>1. n \in Nat /\ n + 1 = Len(parts)
    BY <1>3
  <2> HIDE DEF n
  <2>2. Len(Front(parts)) = n /\ \A i \in 1..n : Front(parts)[i] = parts[i]
    BY <1>3 DEF n
  <2>3. PICK front \in Seq(Parts(A)) : front = Front(parts)
    BY <1>3
  <2>4. Len(t) = n + 1 /\ t[n + 1] = last /\ \A i \in 1..n : t[i] = parts[i]
    BY <1>1, <2>1, <2>2, <2>3
  <2> QED BY <2>1, <2>4 DEF n
<1>5. PendingIn(t) = PendingIn(parts) /\ CallsIn(t) = CallsIn(parts)
  BY <1>1, <1>2, <1>3, <1>4, BooksSame
<1> QED BY <1>5 DEF t

LEMMA CollectTextBooks ==
    ASSUME NEW A, NEW c \in Collectors(A), NEW toks \in Seq(TokensOf(A)),
           NEW id \in Ids, NEW step \in Nat
    PROVE  SameBooks(c, CollectText(c, toks, id, step))
<1>1. c.parts \in Seq(Parts(A))
  BY DEF Collectors
<1>2. /\ PendingIn(TextParts(c, toks, id, step)) = PendingIn(c.parts)
      /\ CallsIn(TextParts(c, toks, id, step)) = CallsIn(c.parts)
  <2>1. CASE ExtendsLast(c, "text", c.textId, id, step)
    <3>1. c.parts # <<>> /\ Last(c.parts).kind \in {"text", "reasoning"}
      BY <2>1 DEF ExtendsLast
    <3> QED BY <1>1, <2>1, <3>1, WithCharsBooks DEF TextParts
  <2>2. CASE ~ExtendsLast(c, "text", c.textId, id, step)
    <3>1. Chars("text", toks, step) \in Parts(A) /\ Chars("text", toks, step).kind = "text"
      BY DEF Chars, Parts, CharParts
    <3> QED BY <1>1, <2>2, <3>1, BooksAppend DEF TextParts
  <2> QED BY <2>1, <2>2
<1>3. CollectText(c, toks, id, step).parts = TextParts(c, toks, id, step)
      /\ CollectText(c, toks, id, step).settled = c.settled
  BY DEF CollectText, TextParts, Collectors
<1> QED BY <1>2, <1>3 DEF SameBooks

LEMMA CollectReasoningBooks ==
    ASSUME NEW A, NEW c \in Collectors(A), NEW toks \in Seq(TokensOf(A)),
           NEW id \in Ids, NEW step \in Nat
    PROVE  SameBooks(c, CollectReasoning(c, toks, id, step))
<1>1. c.parts \in Seq(Parts(A))
  BY DEF Collectors
<1>2. /\ PendingIn(ReasoningParts(c, toks, id, step)) = PendingIn(c.parts)
      /\ CallsIn(ReasoningParts(c, toks, id, step)) = CallsIn(c.parts)
  <2>1. CASE ExtendsLast(c, "reasoning", c.reasoningId, id, step)
    <3>1. c.parts # <<>> /\ Last(c.parts).kind \in {"text", "reasoning"}
      BY <2>1 DEF ExtendsLast
    <3> QED BY <1>1, <2>1, <3>1, WithCharsBooks DEF ReasoningParts
  <2>2. CASE ~ExtendsLast(c, "reasoning", c.reasoningId, id, step)
    <3>1. /\ Chars("reasoning", toks, step) \in Parts(A)
          /\ Chars("reasoning", toks, step).kind = "reasoning"
      BY DEF Chars, Parts, CharParts
    <3> QED BY <1>1, <2>2, <3>1, BooksAppend DEF ReasoningParts
  <2> QED BY <2>1, <2>2
<1>3. CollectReasoning(c, toks, id, step).parts = ReasoningParts(c, toks, id, step)
      /\ CollectReasoning(c, toks, id, step).settled = c.settled
  BY DEF CollectReasoning, ReasoningParts, Collectors
<1> QED BY <1>2, <1>3 DEF SameBooks

LEMMA CollectWithheldBooks ==
    ASSUME NEW A, NEW c \in Collectors(A), NEW id \in Ids, NEW step \in Nat
    PROVE  SameBooks(c, CollectWithheld(c, id, step))
<1>1. c.parts \in Seq(Parts(A))
  BY DEF Collectors
<1>2. PICK p : p = Chars("reasoning", <<>>, step)
  OBVIOUS
<1>3. p \in Parts(A) /\ p.kind = "reasoning"
  BY <1>2 DEF Chars, Parts, CharParts
<1>4. /\ PendingIn(Append(c.parts, p)) = PendingIn(c.parts)
      /\ CallsIn(Append(c.parts, p)) = CallsIn(c.parts)
  BY <1>1, <1>3, BooksAppend
<1>5. PICK d : d = CollectWithheld(c, id, step)
  OBVIOUS
<1>6. d.settled = c.settled /\ (d.parts = c.parts \/ d.parts = Append(c.parts, p))
  BY <1>2, <1>5 DEF CollectWithheld, Collectors
<1> QED BY <1>4, <1>5, <1>6 DEF SameBooks

LEMMA CollectPartBooks ==
    ASSUME NEW A, NEW c \in Collectors(A), NEW part \in NoticeParts \cup ItemParts
    PROVE  SameBooks(c, CollectPart(c, part))
<1>1. c.parts \in Seq(Parts(A)) /\ part \in Parts(A) /\ part.kind \in {"notice", "item"}
  BY DEF Collectors, Parts, NoticeParts, ItemParts
<1>2. /\ PendingIn(Append(c.parts, part)) = PendingIn(c.parts)
      /\ CallsIn(Append(c.parts, part)) = CallsIn(c.parts)
  BY <1>1, BooksAppend
<1>3. PICK d : d = CollectPart(c, part)
  OBVIOUS
<1>4. d.settled = c.settled /\ d.parts = Append(c.parts, part)
  BY <1>3 DEF CollectPart, Collectors
<1> QED BY <1>2, <1>3, <1>4 DEF SameBooks

(* A reserved call has a place; a settled one has its outcome there.       *)
Reserved(c, call, d) ==
    /\ PendingIn(d.parts) = PendingIn(c.parts) \cup {call}
    /\ CallsIn(d.parts) = CallsIn(c.parts) /\ d.settled = c.settled

LEMMA ReserveToolBooks ==
    ASSUME NEW A, NEW c \in Collectors(A), NEW call \in CallsOf(A), NEW step \in Nat
    PROVE  Reserved(c, call, ReserveTool(c, call, step))
<1>1. PICK p : p = [kind |-> "pending-tool", call |-> call, step |-> step]
  OBVIOUS
<1>2. c.parts \in Seq(Parts(A)) /\ p \in Parts(A) /\ p.kind = "pending-tool" /\ p.call = call
  BY <1>1 DEF Collectors, Parts, PendingParts
<1>3. /\ PendingIn(Append(c.parts, p)) = PendingIn(c.parts) \cup {call}
      /\ CallsIn(Append(c.parts, p)) = CallsIn(c.parts)
  BY <1>2, BooksAppend
<1>4. PICK d : d = ReserveTool(c, call, step)
  OBVIOUS
<1>5. d.settled = c.settled /\ d.parts = Append(c.parts, p)
  BY <1>1, <1>4 DEF ReserveTool, Collectors
<1> QED BY <1>3, <1>4, <1>5 DEF Reserved

SettledIn(c, call, d) ==
    /\ PendingIn(d.parts) = PendingIn(c.parts) \ {call}
    /\ CallsIn(d.parts) = CallsIn(c.parts) \cup (PendingIn(c.parts) \cap {call})
    /\ d.settled = c.settled \cup {call}

LEMMA SettleToolBooks ==
    ASSUME NEW A, NEW c \in Collectors(A), NEW call \in CallsOf(A),
           NEW result \in Results, call \notin c.settled
    PROVE  SettledIn(c, call, SettleTool(c, call, result))
<1>1. PICK s : s = SettledParts(c.parts, call, result)
  OBVIOUS
<1>2. /\ DOMAIN s = DOMAIN c.parts
      /\ \A i \in DOMAIN c.parts : s[i] = SettledPart(c.parts[i], call, result)
  BY <1>1 DEF SettledParts
<1>3. ASSUME NEW i \in DOMAIN c.parts
      PROVE  /\ s[i].kind = "pending-tool" <=> /\ c.parts[i].kind = "pending-tool"
                                               /\ c.parts[i].call # call
             /\ s[i].kind = "tool" <=> \/ c.parts[i].kind = "tool"
                                       \/ /\ c.parts[i].kind = "pending-tool"
                                          /\ c.parts[i].call = call
             /\ s[i].kind \in {"pending-tool", "tool"} => s[i].call = c.parts[i].call
  <2>1. CASE c.parts[i].kind = "pending-tool" /\ c.parts[i].call = call
    <3>1. s[i] = [kind |-> "tool", call |-> call, result |-> result,
                  step |-> c.parts[i].step]
      BY <1>2, <2>1 DEF SettledPart
    <3>2. s[i].kind = "tool" /\ s[i].call = call
      BY <3>1
    <3> QED BY <2>1, <3>2
  <2>2. CASE ~(c.parts[i].kind = "pending-tool" /\ c.parts[i].call = call)
    <3>1. s[i] = c.parts[i]
      BY <1>2, <2>2 DEF SettledPart
    <3> QED BY <2>2, <3>1
  <2> QED BY <2>1, <2>2
<1>4. PendingIn(s) = PendingIn(c.parts) \ {call}
  BY <1>2, <1>3 DEF PendingIn
<1>5. CallsIn(s) = CallsIn(c.parts) \cup (PendingIn(c.parts) \cap {call})
  <2>1. ASSUME NEW x \in CallsIn(s)
        PROVE  x \in CallsIn(c.parts) \cup (PendingIn(c.parts) \cap {call})
    BY <1>2, <1>3 DEF PendingIn, CallsIn
  <2>2. ASSUME NEW x \in CallsIn(c.parts) PROVE x \in CallsIn(s)
    BY <1>2, <1>3 DEF CallsIn
  <2>3. ASSUME NEW x \in PendingIn(c.parts) \cap {call} PROVE x \in CallsIn(s)
    BY <1>2, <1>3 DEF PendingIn, CallsIn
  <2> QED BY <2>1, <2>2, <2>3
<1>6. PICK d : d = SettleTool(c, call, result)
  OBVIOUS
<1>7. d.parts = s /\ d.settled = c.settled \cup {call}
  <2>1. d = [c EXCEPT !.settled = c.settled \cup {call}, !.parts = s]
    BY <1>1, <1>6 DEF SettleTool, SettledParts, SettledPart
  <2> QED BY <2>1 DEF Collectors
<1> QED BY <1>4, <1>5, <1>6, <1>7 DEF SettledIn

-----------------------------------------------------------------------------
(* A delivery of the stream leaves the calls of its attempt as they are.    *)

Still(a, l, k) ==
    /\ k \in Locals(a) /\ SameBooks(l.coll, k.coll)
    /\ RequestedIn(k.chain) = RequestedIn(l.chain)
    /\ k.phase = l.phase /\ k.calls = l.calls /\ k.failed = l.failed /\ k.end = l.end
    /\ k.step = l.step /\ k.called = l.called /\ k.capped = l.capped /\ k.tokens = l.tokens

Delivers(a, l, k) ==
    /\ k \in Locals(a) /\ SameBooks(l.coll, k.coll)
    /\ RequestedIn(k.chain) = RequestedIn(l.chain)
    /\ k.phase = l.phase /\ k.calls = l.calls /\ k.failed = l.failed /\ k.end = l.end

LEMMA StillTwice ==
    ASSUME NEW a, NEW l, NEW k, NEW m, Still(a, l, k), Still(a, k, m)
    PROVE  Still(a, l, m)
  BY DEF Still, SameBooks

LEMMA StillSelf ==
    ASSUME NEW a, NEW l \in Locals(a)
    PROVE  Still(a, l, l)
  BY DEF Still, SameBooks

LEMMA StillFlush ==
    ASSUME NEW a, NEW l \in Locals(a)
    PROVE  Still(a, l, FlushReasoning(l)) /\ Still(a, l, FlushText(l)) /\ Still(a, l, Flush(l))
<1>1. ASSUME NEW m \in Locals(a) PROVE Still(a, m, FlushReasoning(m))
  <2>1. PICK k : k = FlushReasoning(m)
    OBVIOUS
  <2>2. PICK e : e = Delta("reasoning.delta", m.reasoningBuf, m.reasoningId, m.step)
    OBVIOUS
  <2>3. PICK chain : chain = Append(m.chain, e)
    OBVIOUS
  <2>4. /\ k \in Locals(a)
        /\ m.reasoningBuf = <<>> => k = m
        /\ m.reasoningBuf # <<>> => k = [m EXCEPT !.chain = chain, !.reasoningBuf = <<>>]
    BY <2>1, <2>2, <2>3, FlushReasoningIs
  <2>5. k = m \/ k = [m EXCEPT !.chain = chain, !.reasoningBuf = <<>>]
    BY <2>4
  <2>6. RequestedIn(chain) = RequestedIn(m.chain)
    <3>1. e \in StreamEvents({a}) /\ m.chain \in Seq(StreamEvents({a}))
      BY <2>2, LocalFields, StreamEventsAre
    <3>2. e.type # "tool.requested"
      BY <2>2 DEF Delta, Event
    <3> QED BY <2>3, <3>1, <3>2, RequestedAppend
  <2>7. k.chain = m.chain \/ k.chain = chain
    BY <2>5 DEF Locals
  <2>8. SameButBuffers(m, k)
    BY <2>1, FlushIs
  <2>9. RequestedIn(k.chain) = RequestedIn(m.chain)
    BY <2>6, <2>7
  <2> QED BY <2>1, <2>4, <2>8, <2>9 DEF Still, SameButBuffers, SameBooks
<1>2. ASSUME NEW m \in Locals(a) PROVE Still(a, m, FlushText(m))
  <2>1. PICK k : k = FlushText(m)
    OBVIOUS
  <2>2. PICK e : e = Delta("model.delta", m.textBuf, m.textId, m.step)
    OBVIOUS
  <2>3. PICK chain : chain = Append(m.chain, e)
    OBVIOUS
  <2>4. /\ k \in Locals(a)
        /\ m.textBuf = <<>> => k = m
        /\ m.textBuf # <<>> => k = [m EXCEPT !.chain = chain, !.textBuf = <<>>]
    BY <2>1, <2>2, <2>3, FlushTextIs
  <2>5. k = m \/ k = [m EXCEPT !.chain = chain, !.textBuf = <<>>]
    BY <2>4
  <2>6. RequestedIn(chain) = RequestedIn(m.chain)
    <3>1. e \in StreamEvents({a}) /\ m.chain \in Seq(StreamEvents({a}))
      BY <2>2, LocalFields, StreamEventsAre
    <3>2. e.type # "tool.requested"
      BY <2>2 DEF Delta, Event
    <3> QED BY <2>3, <3>1, <3>2, RequestedAppend
  <2>7. k.chain = m.chain \/ k.chain = chain
    BY <2>5 DEF Locals
  <2>8. SameButBuffers(m, k)
    BY <2>1, FlushIs
  <2>9. RequestedIn(k.chain) = RequestedIn(m.chain)
    BY <2>6, <2>7
  <2> QED BY <2>1, <2>4, <2>8, <2>9 DEF Still, SameButBuffers, SameBooks
<1>3. Still(a, l, FlushReasoning(l)) /\ FlushReasoning(l) \in Locals(a)
  BY <1>1 DEF Still
<1>4. Still(a, FlushReasoning(l), FlushText(FlushReasoning(l)))
  BY <1>2, <1>3
<1>5. Still(a, l, Flush(l))
  BY <1>3, <1>4, StillTwice DEF Flush
<1> QED BY <1>1, <1>2, <1>5

LEMMA StillUpdates ==
    ASSUME NEW a, NEW l \in Locals(a)
    PROVE  /\ \A id \in Ids : Still(a, l, [l EXCEPT !.textId = id])
           /\ \A id \in Ids : Still(a, l, [l EXCEPT !.reasoningId = id])
           /\ \A c \in Collectors({a}) :
                 SameBooks(l.coll, c) => Still(a, l, [l EXCEPT !.coll = c])
<1>1. ASSUME NEW id \in Ids PROVE Still(a, l, [l EXCEPT !.textId = id])
  <2>1. PICK k : k = [l EXCEPT !.textId = id]
    OBVIOUS
  <2>2. k \in Locals(a)
    BY <2>1, LocalUpdates
  <2> QED BY <2>1, <2>2 DEF Still, SameBooks, Locals
<1>2. ASSUME NEW id \in Ids PROVE Still(a, l, [l EXCEPT !.reasoningId = id])
  <2>1. PICK k : k = [l EXCEPT !.reasoningId = id]
    OBVIOUS
  <2>2. k \in Locals(a)
    BY <2>1, LocalUpdates
  <2> QED BY <2>1, <2>2 DEF Still, SameBooks, Locals
<1>3. ASSUME NEW c \in Collectors({a}), SameBooks(l.coll, c)
      PROVE  Still(a, l, [l EXCEPT !.coll = c])
  <2>1. PICK k : k = [l EXCEPT !.coll = c]
    OBVIOUS
  <2>2. k \in Locals(a)
    BY <2>1, LocalUpdates
  <2>3. k.coll = c
    BY <2>1 DEF Locals
  <2> QED BY <1>3, <2>1, <2>2, <2>3 DEF Still, Locals
<1> QED BY <1>1, <1>2, <1>3

LEMMA TokenIs ==
    ASSUME NEW a, att[a] \in Locals(a)
    PROVE  /\ Token(a) \in TokensOf({a})
           /\ <<Token(a)>> \in Seq(TokensOf({a}))
<1>1. att[a].tokens \in Nat
  BY LocalFields
<1>2. Token(a) \in TokensOf({a})
  BY <1>1 DEF Token, TokensOf
<1> QED BY <1>2

(* A token that enters a buffer, and the flush that may follow.            *)
LEMMA PushDelivers ==
    ASSUME NEW a, NEW l \in Locals(a), NEW tok \in TokensOf({a}), l.tokens < MaxTokens
    PROVE  /\ \A k \in PushText(l, tok) : Delivers(a, l, k)
           /\ \A k \in PushReasoning(l, tok) : Delivers(a, l, k)
<1>1. /\ l.tokens + 1 \in 0..MaxTokens
      /\ Append(l.textBuf, tok) \in Seq(TokensOf({a}))
      /\ Append(l.reasoningBuf, tok) \in Seq(TokensOf({a}))
  <2>1. l.tokens \in 0..MaxTokens /\ MaxTokens \in Nat
    BY LocalFields, TranscriptAssumption
  <2>2. l.textBuf \in Seq(TokensOf({a})) /\ l.reasoningBuf \in Seq(TokensOf({a}))
    BY LocalFields
  <2>3. l.tokens + 1 \in 0..MaxTokens
    BY <2>1
  <2> QED BY <2>2, <2>3
<1>2. ASSUME NEW b, NEW k \in {b, FlushText(b), FlushReasoning(b)},
             b \in Locals(a), Delivers(a, l, b)
      PROVE  Delivers(a, l, k)
  <2>1. Still(a, b, k)
    BY <1>2, StillFlush, StillSelf
  <2> QED BY <1>2, <2>1 DEF Delivers, Still, SameBooks
<1>3. PICK x, y, n : x = Append(l.textBuf, tok) /\ y = Append(l.reasoningBuf, tok)
                     /\ n = l.tokens + 1
  OBVIOUS
<1>4. PICK b : b = [l EXCEPT !.textBuf = x, !.tokens = n]
  OBVIOUS
<1>5. PICK d : d = [l EXCEPT !.reasoningBuf = y, !.tokens = n]
  OBVIOUS
<1>6. b \in Locals(a) /\ d \in Locals(a)
  <2>1. [l EXCEPT !.textBuf = x] \in Locals(a) /\ [l EXCEPT !.reasoningBuf = y] \in Locals(a)
    BY <1>1, <1>3, LocalUpdates
  <2>2. /\ [[l EXCEPT !.textBuf = x] EXCEPT !.tokens = n] \in Locals(a)
        /\ [[l EXCEPT !.reasoningBuf = y] EXCEPT !.tokens = n] \in Locals(a)
    BY <1>1, <1>3, <2>1, LocalUpdates
  <2> QED BY <1>4, <1>5, <2>2
<1>7. Delivers(a, l, b) /\ Delivers(a, l, d)
  BY <1>4, <1>5, <1>6 DEF Delivers, SameBooks, Locals
<1>8. PushText(l, tok) = {b, FlushText(b)} /\ PushReasoning(l, tok) = {d, FlushReasoning(d)}
  BY <1>3, <1>4, <1>5 DEF PushText, PushReasoning
<1> QED BY <1>2, <1>6, <1>7, <1>8

LEMMA StillDelivers ==
    ASSUME NEW a, NEW l, NEW k, NEW m, Still(a, l, k), Delivers(a, k, m)
    PROVE  Delivers(a, l, m)
  BY DEF Still, Delivers, SameBooks

(* Each delivery of text, reasoning and metadata, and each step.           *)
LEMMA TextDeltaDelivers ==
    ASSUME NEW a, att[a] \in Locals(a), NEW id \in PartIds, OnTextDelta(a, id)
    PROVE  \E k : Delivers(a, att[a], k) /\ Set(a, k)
<1>1. PICK c : c = CollectText(att[a].coll, <<Token(a)>>, id, att[a].step)
  OBVIOUS
<1>2. PICK l : l = [att[a] EXCEPT !.coll = c]
  OBVIOUS
<1>3. PICK crossed : crossed = [FlushReasoning(l) EXCEPT !.reasoningId = None]
  OBVIOUS
<1>4. PICK adopted : adopted = AdoptTextId(crossed, id)
  OBVIOUS
<1>5. id \in Ids /\ None \in Ids
  BY DEF Ids
<1>6. c \in Collectors({a}) /\ SameBooks(att[a].coll, c)
  <2>1. att[a].coll \in Collectors({a}) /\ att[a].step \in Nat
        /\ <<Token(a)>> \in Seq(TokensOf({a}))
    BY LocalFields, TokenIs
  <2> QED BY <1>1, <1>5, <2>1, CollectTextIs, CollectTextBooks
<1>7. Still(a, att[a], l) /\ l \in Locals(a)
  BY <1>2, <1>6, StillUpdates DEF Still
<1>8. Still(a, l, FlushReasoning(l)) /\ FlushReasoning(l) \in Locals(a)
  BY <1>7, StillFlush DEF Still
<1>9. Still(a, FlushReasoning(l), crossed) /\ crossed \in Locals(a)
  <2>1. PICK m : m = FlushReasoning(l)
    OBVIOUS
  <2>2. Still(a, m, [m EXCEPT !.reasoningId = None])
    BY <1>5, <1>8, <2>1, StillUpdates
  <2> QED BY <1>3, <2>1, <2>2 DEF Still
<1>10. Still(a, crossed, FlushText(crossed)) /\ FlushText(crossed) \in Locals(a)
  BY <1>9, StillFlush DEF Still
<1>11. Still(a, FlushText(crossed), [FlushText(crossed) EXCEPT !.textId = id])
  BY <1>5, <1>10, StillUpdates
<1>12. Still(a, crossed, adopted)
  <2>1. CASE id = crossed.textId
    BY <1>4, <1>9, <2>1, StillSelf DEF AdoptTextId
  <2>2. CASE id # crossed.textId
    <3>1. adopted = [FlushText(crossed) EXCEPT !.textId = id]
      BY <1>4, <2>2 DEF AdoptTextId
    <3> QED BY <1>10, <1>11, <3>1, StillTwice
  <2> QED BY <2>1, <2>2
<1>13. Still(a, att[a], adopted)
  BY <1>7, <1>8, <1>9, <1>12, StillTwice
<1>14. att[a].tokens < MaxTokens /\ \E k \in PushText(adopted, Token(a)) : Set(a, k)
  BY <1>1, <1>2, <1>3, <1>4 DEF OnTextDelta
<1>15. PICK k \in PushText(adopted, Token(a)) : Set(a, k)
  BY <1>14
<1>16. adopted \in Locals(a) /\ adopted.tokens < MaxTokens
  BY <1>13, <1>14 DEF Still
<1>17. Delivers(a, adopted, k)
  BY <1>16, TokenIs, PushDelivers
<1> QED BY <1>13, <1>15, <1>17, StillDelivers

LEMMA ReasoningDeltaDelivers ==
    ASSUME NEW a, att[a] \in Locals(a), NEW id \in PartIds, OnReasoningDelta(a, id)
    PROVE  \E k : Delivers(a, att[a], k) /\ Set(a, k)
<1>1. PICK adopted : adopted = AdoptReasoningId(att[a], id)
  OBVIOUS
<1>2. PICK c : c = CollectReasoning(adopted.coll, <<Token(a)>>, id, att[a].step)
  OBVIOUS
<1>3. PICK l : l = [adopted EXCEPT !.coll = c]
  OBVIOUS
<1>4. PICK crossed : crossed = CrossReasoning(l)
  OBVIOUS
<1>5. id \in Ids /\ None \in Ids
  BY DEF Ids
<1>6. Still(a, att[a], FlushReasoning(att[a])) /\ FlushReasoning(att[a]) \in Locals(a)
  BY StillFlush DEF Still
<1>7. Still(a, att[a], adopted) /\ adopted \in Locals(a)
  <2>1. CASE id = att[a].reasoningId
    BY <1>1, <2>1, StillSelf DEF AdoptReasoningId
  <2>2. CASE id # att[a].reasoningId
    <3>1. adopted = [FlushReasoning(att[a]) EXCEPT !.reasoningId = id]
      BY <1>1, <2>2 DEF AdoptReasoningId
    <3>2. Still(a, FlushReasoning(att[a]), adopted)
      BY <1>5, <1>6, <3>1, StillUpdates
    <3> QED BY <1>6, <3>2, StillTwice DEF Still
  <2> QED BY <2>1, <2>2
<1>8. c \in Collectors({a}) /\ SameBooks(adopted.coll, c)
  <2>1. adopted.coll \in Collectors({a}) /\ att[a].step \in Nat
        /\ <<Token(a)>> \in Seq(TokensOf({a}))
    BY <1>7, LocalFields, TokenIs
  <2> QED BY <1>2, <1>5, <2>1, CollectReasoningIs, CollectReasoningBooks
<1>9. Still(a, adopted, l) /\ l \in Locals(a)
  BY <1>3, <1>7, <1>8, StillUpdates DEF Still
<1>10. Still(a, l, FlushText(l)) /\ FlushText(l) \in Locals(a)
  BY <1>9, StillFlush DEF Still
<1>11. Still(a, FlushText(l), crossed)
  BY <1>4, <1>5, <1>10, StillUpdates DEF CrossReasoning
<1>12. Still(a, att[a], crossed)
  BY <1>7, <1>9, <1>10, <1>11, StillTwice
<1>13. att[a].tokens < MaxTokens /\ \E k \in PushReasoning(crossed, Token(a)) : Set(a, k)
  BY <1>1, <1>2, <1>3, <1>4 DEF OnReasoningDelta
<1>14. PICK k \in PushReasoning(crossed, Token(a)) : Set(a, k)
  BY <1>13
<1>15. crossed \in Locals(a) /\ crossed.tokens < MaxTokens
  BY <1>12, <1>13 DEF Still
<1>16. Delivers(a, crossed, k)
  BY <1>15, TokenIs, PushDelivers
<1> QED BY <1>12, <1>14, <1>16, StillDelivers

LEMMA TextMetadataDelivers ==
    ASSUME NEW a, att[a] \in Locals(a), OnTextMetadata(a)
    PROVE  \E k : Delivers(a, att[a], k) /\ Set(a, k)
<1>1. Still(a, att[a], Flush(att[a])) /\ Set(a, Flush(att[a]))
  BY StillFlush DEF OnTextMetadata
<1> QED BY <1>1 DEF Still, Delivers

LEMMA ReasoningMetadataDelivers ==
    ASSUME NEW a, att[a] \in Locals(a), NEW id \in PartIds, OnReasoningMetadata(a, id)
    PROVE  \E k : Delivers(a, att[a], k) /\ Set(a, k)
<1>1. PICK started : started = IF StartsReasoningPart(att[a].coll, id)
                               THEN FlushText(att[a]) ELSE att[a]
  OBVIOUS
<1>2. PICK l : l = BeforeWithheld(att[a], id)
  OBVIOUS
<1>3. Still(a, att[a], started) /\ started \in Locals(a)
  BY <1>1, StillFlush, StillSelf DEF Still
<1>4. l = FlushReasoning(started)
  BY <1>1, <1>2 DEF BeforeWithheld
<1>5. Still(a, att[a], l) /\ l \in Locals(a)
  BY <1>3, <1>4, StillFlush, StillTwice DEF Still
<1>6. id \in Ids /\ l.step \in Nat /\ l.chain \in Seq(StreamEvents({a}))
      /\ l.coll \in Collectors({a}) /\ l.tokens \in 0..MaxTokens
  BY <1>5, LocalFields DEF Ids
<1>7. PICK e : e = Delta("reasoning.delta", <<>>, id, l.step)
  OBVIOUS
<1>8. e \in StreamEvents({a}) /\ e.type # "tool.requested"
  <2>1. <<>> \in Seq(TokensOf({a}))
    OBVIOUS
  <2>2. e.type = "reasoning.delta"
    BY <1>7 DEF Delta, Event
  <2> QED BY <1>6, <1>7, <2>1, <2>2, StreamEventsAre
<1>9. PICK c : c = CollectWithheld(l.coll, id, l.step)
  OBVIOUS
<1>10. c \in Collectors({a}) /\ SameBooks(l.coll, c)
  BY <1>6, <1>9, CollectWithheldType, CollectWithheldBooks
<1>11. PICK chain : chain = Append(l.chain, e)
  OBVIOUS
<1>12. chain \in Seq(StreamEvents({a})) /\ RequestedIn(chain) = RequestedIn(l.chain)
  BY <1>6, <1>8, <1>11, RequestedAppend
<1>13. PICK k : k = [l EXCEPT !.chain = chain, !.coll = c, !.tokens = l.tokens + 1]
  OBVIOUS
<1>14. l.tokens + 1 \in 0..MaxTokens
  <2>1. l.tokens < MaxTokens
    BY <1>5 DEF Still, OnReasoningMetadata
  <2> QED BY <1>6, <2>1, TranscriptAssumption
<1>15. k \in Locals(a)
  <2>1. [l EXCEPT !.chain = chain] \in Locals(a)
    BY <1>5, <1>12, LocalUpdates
  <2>2. [[l EXCEPT !.chain = chain] EXCEPT !.coll = c] \in Locals(a)
    BY <1>10, <2>1, LocalUpdates
  <2>3. [[[l EXCEPT !.chain = chain] EXCEPT !.coll = c] EXCEPT !.tokens = l.tokens + 1]
          \in Locals(a)
    BY <1>14, <2>2, LocalUpdates
  <2> QED BY <1>13, <2>3
<1>16. Delivers(a, l, k)
  <2>1. k.chain = chain /\ k.coll = c /\ k.phase = l.phase /\ k.calls = l.calls
        /\ k.failed = l.failed /\ k.end = l.end
    BY <1>5, <1>13 DEF Locals
  <2> QED BY <1>10, <1>12, <1>15, <2>1 DEF Delivers
<1>17. Set(a, k)
  <2>1. Set(a, [Enqueue(l, e) EXCEPT !.coll = CollectWithheld(@, id, l.step), !.tokens = @ + 1])
    BY <1>2, <1>7 DEF OnReasoningMetadata
  <2>2. Enqueue(l, e) = [l EXCEPT !.chain = chain]
    BY <1>11 DEF Enqueue
  <2>3. Enqueue(l, e).coll = l.coll /\ Enqueue(l, e).tokens = l.tokens
    BY <1>5, <2>2 DEF Locals
  <2>4. [Enqueue(l, e) EXCEPT !.coll = CollectWithheld(@, id, l.step), !.tokens = @ + 1]
          = [Enqueue(l, e) EXCEPT !.coll = c, !.tokens = l.tokens + 1]
    BY <1>9, <2>3
  <2>5. [Enqueue(l, e) EXCEPT !.coll = c, !.tokens = l.tokens + 1] = k
    BY <1>13, <2>2
  <2> QED BY <2>1, <2>4, <2>5
<1> QED BY <1>5, <1>16, <1>17, StillDelivers

(* A step starts after a flush, the last one with the notice of the cap.   *)
StepStarted(a, l, k) ==
    LET m == Flush(l) IN
    /\ k.coll = m.coll /\ k.step = m.step + 1 /\ k.called = FALSE
    /\ k.textBuf = m.textBuf /\ k.reasoningBuf = m.reasoningBuf
    /\ k.textId = m.textId /\ k.reasoningId = m.reasoningId
    /\ k.phase = m.phase /\ k.calls = m.calls /\ k.failed = m.failed /\ k.end = m.end
    /\ k.tokens = m.tokens
    /\ k.chain = IF m.step + 1 = MaxSteps THEN Append(m.chain, Event("run.step_cap_reached"))
                 ELSE m.chain

LEMMA NewStepIs ==
    ASSUME NEW a, NEW l \in Locals(a), l.step < MaxSteps
    PROVE  /\ NewStep(l) \in Locals(a) /\ StepStarted(a, l, NewStep(l))
           /\ Delivers(a, l, NewStep(l))
<1>1. PICK m : m = Flush(l)
  OBVIOUS
<1>2. m \in Locals(a) /\ Still(a, l, m)
  BY <1>1, StillFlush DEF Still
<1>3. m.step \in Nat /\ m.step + 1 \in 0..MaxSteps /\ FALSE \in BOOLEAN /\ TRUE \in BOOLEAN
      /\ m.chain \in Seq(StreamEvents({a}))
  <2>1. m.step = l.step /\ m.step \in 0..MaxSteps /\ MaxSteps \in Nat
    BY <1>2, LocalFields, TranscriptAssumption DEF Still
  <2>2. m.chain \in Seq(StreamEvents({a}))
    BY <1>2, LocalFields
  <2> QED BY <2>1, <2>2
<1>4. PICK next : next = [m EXCEPT !.step = m.step + 1, !.called = FALSE]
  OBVIOUS
<1>5. next \in Locals(a)
  <2>1. [m EXCEPT !.step = m.step + 1] \in Locals(a)
    BY <1>2, <1>3, LocalUpdates
  <2>2. [[m EXCEPT !.step = m.step + 1] EXCEPT !.called = FALSE] \in Locals(a)
    BY <1>3, <2>1, LocalUpdates
  <2> QED BY <1>4, <2>2
<1>6. PICK e : e = Event("run.step_cap_reached")
  OBVIOUS
<1>7. PICK chain : chain = Append(m.chain, e)
  OBVIOUS
<1>8. /\ e \in StreamEvents({a}) /\ e.type # "tool.requested"
      /\ chain \in Seq(StreamEvents({a})) /\ RequestedIn(chain) = RequestedIn(m.chain)
  <2>1. e \in StreamEvents({a})
    BY <1>6, StreamEventsAre
  <2>2. e.type # "tool.requested"
    BY <1>6 DEF Event
  <2> QED BY <1>3, <1>7, <2>1, <2>2, RequestedAppend
<1>9. PICK k : k = NewStep(l)
  OBVIOUS
<1>10. /\ next.step = m.step + 1 /\ next.chain = m.chain
       /\ k = IF next.step = MaxSteps THEN [Enqueue(next, e) EXCEPT !.capped = TRUE] ELSE next
  <2>1. next.step = m.step + 1 /\ next.chain = m.chain
    BY <1>2, <1>4 DEF Locals
  <2>2. [Flush(l) EXCEPT !.step = @ + 1, !.called = FALSE] = next
    BY <1>1, <1>4
  <2> QED BY <1>6, <1>9, <2>1, <2>2 DEF NewStep
<1>11. Enqueue(next, e) = [next EXCEPT !.chain = chain]
  BY <1>7, <1>10 DEF Enqueue
<1>12. k = IF m.step + 1 = MaxSteps
           THEN [m EXCEPT !.step = m.step + 1, !.called = FALSE, !.chain = chain, !.capped = TRUE]
           ELSE next
  BY <1>4, <1>10, <1>11
<1>13. k \in Locals(a)
  <2>1. [next EXCEPT !.chain = chain] \in Locals(a)
    BY <1>5, <1>8, LocalUpdates
  <2>2. [[next EXCEPT !.chain = chain] EXCEPT !.capped = TRUE] \in Locals(a)
    BY <1>3, <2>1, LocalUpdates
  <2> QED BY <1>5, <1>10, <1>11, <2>2
<1>14. /\ k.coll = m.coll /\ k.step = m.step + 1 /\ k.called = FALSE
       /\ k.textBuf = m.textBuf /\ k.reasoningBuf = m.reasoningBuf
       /\ k.textId = m.textId /\ k.reasoningId = m.reasoningId
       /\ k.phase = m.phase /\ k.calls = m.calls /\ k.failed = m.failed /\ k.end = m.end
       /\ k.tokens = m.tokens
       /\ k.chain = IF m.step + 1 = MaxSteps THEN chain ELSE m.chain
  <2>1. CASE m.step + 1 = MaxSteps
    <3>1. k = [m EXCEPT !.step = m.step + 1, !.called = FALSE, !.chain = chain, !.capped = TRUE]
      BY <1>12, <2>1
    <3> QED BY <1>2, <2>1, <3>1 DEF Locals
  <2>2. CASE m.step + 1 # MaxSteps
    <3>1. k = [m EXCEPT !.step = m.step + 1, !.called = FALSE]
      BY <1>4, <1>12, <2>2
    <3> QED BY <1>2, <2>2, <3>1 DEF Locals
  <2> QED BY <2>1, <2>2
<1>15. StepStarted(a, l, k)
  BY <1>1, <1>6, <1>7, <1>14 DEF StepStarted
<1>16. Delivers(a, m, k)
  <2>1. RequestedIn(k.chain) = RequestedIn(m.chain)
    BY <1>8, <1>14
  <2> QED BY <1>13, <1>14, <2>1 DEF Delivers, SameBooks
<1>17. Delivers(a, l, k)
  BY <1>2, <1>16, StillDelivers
<1> QED BY <1>9, <1>13, <1>15, <1>17

LEMMA StepStartDelivers ==
    ASSUME NEW a, att[a] \in Locals(a), OnStepStart(a)
    PROVE  \E k : Delivers(a, att[a], k) /\ Set(a, k)
  BY NewStepIs DEF OnStepStart

LEMMA StageDelivers ==
    ASSUME NEW a, att[a] \in Locals(a), StageItem(a)
    PROVE  \E k : Delivers(a, att[a], k) /\ Set(a, k)
<1>1. PICK next, item : next = NewStep(att[a]) /\ item = Item(next.step)
  OBVIOUS
<1>2. att[a].step < MaxSteps
  BY DEF StageItem
<1>3. next \in Locals(a) /\ Delivers(a, att[a], next)
  BY <1>1, <1>2, NewStepIs
<1>4. next.step \in Nat /\ next.coll \in Collectors({a})
  BY <1>3, LocalFields
<1>5. item \in NoticeParts \cup ItemParts
  BY <1>1, <1>4 DEF Item, ItemParts
<1>6. PICK c : c = CollectPart(next.coll, item)
  OBVIOUS
<1>7. c \in Collectors({a}) /\ SameBooks(next.coll, c)
  BY <1>4, <1>5, <1>6, CollectPartType, CollectPartBooks
<1>8. Still(a, next, [next EXCEPT !.coll = c])
  BY <1>3, <1>7, StillUpdates
<1>9. Set(a, [next EXCEPT !.coll = c])
  BY <1>1, <1>6 DEF StageItem
<1>10. Delivers(a, att[a], [next EXCEPT !.coll = c])
  BY <1>3, <1>8 DEF Still, Delivers, SameBooks
<1> QED BY <1>9, <1>10

-----------------------------------------------------------------------------
(* A call has a place once it is reserved and an outcome once it is        *)
(* settled, and is requested by no event before.                           *)

BookedAt(a, l, c) ==
    /\ l.calls[c] = "none" => /\ <<a, c>> \notin PendingIn(l.coll.parts)
                              /\ <<a, c>> \notin CallsIn(l.coll.parts)
                              /\ <<a, c>> \notin l.coll.settled
                              /\ <<a, c>> \notin RequestedIn(l.chain)
    /\ l.calls[c] = "settled" => <<a, c>> \in CallsIn(l.coll.parts)
    /\ l.calls[c] \in OpenStates => /\ <<a, c>> \in PendingIn(l.coll.parts)
                                    /\ <<a, c>> \notin l.coll.settled
Booked(a, l) == \A c \in Calls : BookedAt(a, l, c)

(* The same of every call but one, whose place is reserved.                *)
Ready(a, l, c) ==
    /\ \A d \in Calls \ {c} : BookedAt(a, l, d)
    /\ <<a, c>> \in PendingIn(l.coll.parts) /\ <<a, c>> \notin l.coll.settled

LEMMA OpenIsReady ==
    ASSUME NEW a, NEW l, NEW c \in Calls, Booked(a, l), l.calls[c] \in OpenStates
    PROVE  Ready(a, l, c)
  BY DEF Booked, BookedAt, Ready

LEMMA DeliversBooked ==
    ASSUME NEW a, NEW l, NEW k, Booked(a, l), Delivers(a, l, k)
    PROVE  Booked(a, k)
  BY DEF Booked, BookedAt, Delivers, SameBooks

LEMMA RecordCompletedBooks ==
    ASSUME NEW a, NEW l \in Locals(a), NEW c \in Calls, NEW result \in Results, Ready(a, l, c)
    PROVE  Booked(a, RecordCompleted(a, l, c, result))
<1>1. PICK k : k = RecordCompleted(a, l, c, result)
  OBVIOUS
<1>2. PICK x, e : x = <<a, c>> /\ e = Completed(<<a, c>>, result)
  OBVIOUS
<1>3. x \in CallsOf({a}) /\ x \in PendingIn(l.coll.parts) /\ x \notin l.coll.settled
  BY <1>2 DEF CallsOf, Ready
<1>4. Recorded(a, l, c, result, k) /\ e \in StreamEvents({a})
  BY <1>1, <1>2, RecordCompletedIs
<1>5. l.coll \in Collectors({a}) /\ l.chain \in Seq(StreamEvents({a}))
  BY LocalFields
<1>6. k.coll = SettleTool(l.coll, x, result) /\ k.chain = Append(l.chain, e)
      /\ \A d \in Calls : k.calls[d] = IF d = c THEN "settled" ELSE l.calls[d]
  BY <1>2, <1>4 DEF Recorded
<1>7. SettledIn(l.coll, x, k.coll)
  BY <1>3, <1>5, <1>6, SettleToolBooks
<1>8. e.type # "tool.requested"
  BY <1>2 DEF Completed, ToolEvent, Event
<1>9. RequestedIn(k.chain) = RequestedIn(l.chain)
  BY <1>4, <1>5, <1>6, <1>8, RequestedAppend
<1>10. x \in CallsIn(k.coll.parts)
  BY <1>3, <1>7 DEF SettledIn
<1>11. ASSUME NEW d \in Calls PROVE BookedAt(a, k, d)
  <2>1. CASE d = c
    <3>1. k.calls[d] = "settled"
      BY <1>6, <2>1
    <3> QED BY <1>2, <1>10, <2>1, <3>1 DEF BookedAt, OpenStates
  <2>2. CASE d # c
    <3>1. PICK y : y = <<a, d>>
      OBVIOUS
    <3>2. y # x
      BY <1>2, <2>2, <3>1
    <3>3. /\ y \in PendingIn(k.coll.parts) <=> y \in PendingIn(l.coll.parts)
          /\ y \in CallsIn(k.coll.parts) <=> y \in CallsIn(l.coll.parts)
          /\ y \in k.coll.settled <=> y \in l.coll.settled
      BY <1>7, <3>2 DEF SettledIn
    <3>4. BookedAt(a, l, d) /\ k.calls[d] = l.calls[d]
      BY <1>6, <2>2 DEF Ready
    <3> QED BY <1>9, <3>1, <3>3, <3>4 DEF BookedAt
  <2> QED BY <2>1, <2>2
<1> QED BY <1>1, <1>11 DEF Booked

LEMMA RequestEventIs ==
    ASSUME NEW a, NEW c, NEW step
    PROVE  /\ RequestEvent(a, c, step).type = "tool.requested"
           /\ RequestEvent(a, c, step).call = <<a, c>>
           /\ RequestEvent(a, c, step).step = step
           /\ ToolEvent("tool.started", <<a, c>>).type = "tool.started"
  BY DEF RequestEvent, ToolEvent, Event

LEMMA AdmitBooks ==
    ASSUME NEW a, NEW l \in Locals(a), NEW c \in Calls, NEW ok \in BOOLEAN, Ready(a, l, c)
    PROVE  Booked(a, Admit(a, l, c, ok))
<1>1. PICK k : k = Admit(a, l, c, ok)
  OBVIOUS
<1>2. PICK x, e, f, chain : /\ x = <<a, c>> /\ e = RequestEvent(a, c, l.step)
                            /\ f = ToolEvent("tool.started", <<a, c>>)
                            /\ chain = Append(l.chain, e)
  OBVIOUS
<1>3. Admitted(a, l, c, ok, k) /\ e \in StreamEvents({a}) /\ f \in StreamEvents({a})
  BY <1>1, <1>2, AdmitIs
<1>4. l.chain \in Seq(StreamEvents({a})) /\ chain \in Seq(StreamEvents({a}))
  <2>1. l.chain \in Seq(StreamEvents({a}))
    BY LocalFields
  <2> QED BY <1>2, <1>3, <2>1
<1>5. /\ k.coll = l.coll /\ k.chain = IF ok THEN Append(chain, f) ELSE chain
      /\ \A d \in Calls : k.calls[d] = IF d = c THEN IF ok THEN "admitted" ELSE "denied"
                                      ELSE l.calls[d]
  BY <1>2, <1>3 DEF Admitted
<1>6. e.type = "tool.requested" /\ e.call = x /\ f.type # "tool.requested"
  <2>1. RequestEvent(a, c, l.step).type = "tool.requested"
        /\ RequestEvent(a, c, l.step).call = <<a, c>>
        /\ ToolEvent("tool.started", <<a, c>>).type = "tool.started"
    BY RequestEventIs
  <2> QED BY <1>2, <2>1
<1>7. RequestedIn(chain) = RequestedIn(l.chain) \cup {x}
  BY <1>2, <1>3, <1>4, <1>6, RequestedAppend
<1>8. RequestedIn(Append(chain, f)) = RequestedIn(chain)
  BY <1>3, <1>4, <1>6, RequestedAppend
<1>9. RequestedIn(k.chain) = RequestedIn(l.chain) \cup {x}
  BY <1>5, <1>7, <1>8
<1>10. ASSUME NEW d \in Calls PROVE BookedAt(a, k, d)
  <2>1. CASE d = c
    <3>1. k.calls[d] \in {"admitted", "denied"}
      BY <1>5, <2>1
    <3>2. <<a, d>> \in PendingIn(k.coll.parts) /\ <<a, d>> \notin k.coll.settled
      BY <1>5, <2>1 DEF Ready
    <3> QED BY <3>1, <3>2 DEF BookedAt
  <2>2. CASE d # c
    <3>1. <<a, d>> # x
      BY <1>2, <2>2
    <3>2. BookedAt(a, l, d) /\ k.calls[d] = l.calls[d] /\ k.coll = l.coll
      BY <1>5, <2>2 DEF Ready
    <3> QED BY <1>9, <3>1, <3>2 DEF BookedAt
  <2> QED BY <2>1, <2>2
<1> QED BY <1>1, <1>10 DEF Booked

(* No call is forgotten.                                                   *)
Remembers(l, k) == \A c \in Calls : k.calls[c] = "none" => l.calls[c] = "none"

(* A step of the stream, of any kind.                                      *)
Streams(a, l, k) ==
    /\ k \in Locals(a)
    /\ Booked(a, l) => Booked(a, k)
    /\ Remembers(l, k)
    /\ k.phase = l.phase /\ k.failed = l.failed /\ k.end = l.end

ReservedFrom(a, l, c, k) ==
    LET m == Flush(l) IN
    /\ k.coll = ReserveTool(m.coll, <<a, c>>, l.step) /\ k.called = TRUE
    /\ k.chain = m.chain /\ k.textBuf = m.textBuf /\ k.reasoningBuf = m.reasoningBuf
    /\ k.textId = m.textId /\ k.reasoningId = m.reasoningId
    /\ k.phase = l.phase /\ k.calls = l.calls /\ k.failed = l.failed /\ k.end = l.end
    /\ k.step = l.step /\ k.tokens = l.tokens

LEMMA ReserveIs ==
    ASSUME NEW a, att[a] \in Locals(a), NEW c \in Calls
    PROVE  /\ Reserve(a, c) \in Locals(a)
           /\ ReservedFrom(a, att[a], c, Reserve(a, c))
<1>1. PICK l, m, k : l = att[a] /\ m = Flush(l) /\ k = Reserve(a, c)
  OBVIOUS
<1>2. Still(a, l, m) /\ m \in Locals(a) /\ m.coll = l.coll /\ l \in Locals(a)
  <2>1. Still(a, l, m) /\ l \in Locals(a)
    BY <1>1, StillFlush
  <2>2. SameButBuffers(l, m)
    BY <1>1, FlushIs
  <2> QED BY <2>1, <2>2 DEF Still, SameButBuffers
<1>3. PICK d : d = ReserveTool(m.coll, <<a, c>>, l.step)
  OBVIOUS
<1>4. <<a, c>> \in CallsOf({a}) /\ l.step \in Nat /\ m.coll \in Collectors({a})
      /\ TRUE \in BOOLEAN
  BY <1>2, LocalFields DEF CallsOf
<1>5. d \in Collectors({a})
  BY <1>3, <1>4, ReserveToolType
<1>6. k = [m EXCEPT !.coll = d, !.called = TRUE]
  BY <1>1, <1>3 DEF Reserve
<1>7. k \in Locals(a)
  <2>1. [m EXCEPT !.coll = d] \in Locals(a)
    BY <1>2, <1>5, LocalUpdates
  <2>2. [[m EXCEPT !.coll = d] EXCEPT !.called = TRUE] \in Locals(a)
    BY <1>4, <2>1, LocalUpdates
  <2> QED BY <1>6, <2>2
<1>8. /\ k.coll = d /\ k.called = TRUE
      /\ k.chain = m.chain /\ k.textBuf = m.textBuf /\ k.reasoningBuf = m.reasoningBuf
      /\ k.textId = m.textId /\ k.reasoningId = m.reasoningId
      /\ k.phase = m.phase /\ k.calls = m.calls /\ k.failed = m.failed /\ k.end = m.end
      /\ k.step = m.step /\ k.tokens = m.tokens
  BY <1>2, <1>6 DEF Locals
<1> QED BY <1>1, <1>2, <1>3, <1>7, <1>8 DEF ReservedFrom, Still

LEMMA ReserveReady ==
    ASSUME NEW a, att[a] \in Locals(a), NEW c \in Calls, Booked(a, att[a]),
           att[a].calls[c] = "none"
    PROVE  Ready(a, Reserve(a, c), c)
<1>1. PICK l, m, k, x : l = att[a] /\ m = Flush(l) /\ k = Reserve(a, c) /\ x = <<a, c>>
  OBVIOUS
<1>2. Still(a, l, m) /\ m \in Locals(a) /\ l \in Locals(a)
  BY <1>1, StillFlush DEF Still
<1>3. k \in Locals(a) /\ ReservedFrom(a, l, c, k)
  BY <1>1, ReserveIs
<1>4. m.coll \in Collectors({a}) /\ x \in CallsOf({a}) /\ l.step \in Nat
  BY <1>1, <1>2, LocalFields DEF CallsOf
<1>5. Reserved(m.coll, x, k.coll)
  <2>1. k.coll = ReserveTool(m.coll, x, l.step)
    BY <1>1, <1>3 DEF ReservedFrom
  <2> QED BY <1>4, <2>1, ReserveToolBooks
<1>6. k.calls = l.calls /\ RequestedIn(k.chain) = RequestedIn(l.chain)
  BY <1>1, <1>2, <1>3 DEF ReservedFrom, Still
<1>7. SameBooks(l.coll, m.coll)
  BY <1>2 DEF Still
<1>8. x \in PendingIn(k.coll.parts) /\ x \notin k.coll.settled
  <2>1. x \notin l.coll.settled
    BY <1>1 DEF Booked, BookedAt
  <2> QED BY <1>5, <1>7, <2>1 DEF Reserved, SameBooks
<1>9. ASSUME NEW d \in Calls \ {c} PROVE BookedAt(a, k, d)
  <2>1. PICK y : y = <<a, d>>
    OBVIOUS
  <2>2. y # x
    BY <1>1, <1>9, <2>1
  <2>3. /\ y \in PendingIn(k.coll.parts) <=> y \in PendingIn(l.coll.parts)
        /\ y \in CallsIn(k.coll.parts) <=> y \in CallsIn(l.coll.parts)
        /\ y \in k.coll.settled <=> y \in l.coll.settled
    BY <1>5, <1>7, <2>2 DEF Reserved, SameBooks
  <2>4. BookedAt(a, l, d)
    BY <1>1 DEF Booked
  <2> QED BY <1>6, <2>1, <2>3, <2>4 DEF BookedAt
<1> QED BY <1>1, <1>8, <1>9 DEF Ready

LEMMA RequestedReady ==
    ASSUME NEW a, NEW l \in Locals(a), NEW c \in Calls, Ready(a, l, c)
    PROVE  Ready(a, Requested(a, l, c), c)
<1>1. PICK k, e, chain, x : /\ k = Requested(a, l, c) /\ e = RequestEvent(a, c, l.step)
                            /\ chain = Append(l.chain, e) /\ x = <<a, c>>
  OBVIOUS
<1>2. e \in StreamEvents({a}) /\ k = [l EXCEPT !.chain = chain]
  <2>1. RequestEvent(a, c, l.step) \in StreamEvents({a})
    BY RequestedIs
  <2>2. Requested(a, l, c) = [l EXCEPT !.chain = Append(l.chain, RequestEvent(a, c, l.step))]
    BY DEF Requested, Enqueue, RequestEvent
  <2> QED BY <1>1, <2>1, <2>2
<1>3. k.chain = chain /\ k.coll = l.coll /\ k.calls = l.calls
  BY <1>2 DEF Locals
<1>4. RequestedIn(chain) = RequestedIn(l.chain) \cup {x}
  <2>1. l.chain \in Seq(StreamEvents({a}))
    BY LocalFields
  <2>2. RequestEvent(a, c, l.step).type = "tool.requested"
        /\ RequestEvent(a, c, l.step).call = <<a, c>>
    BY DEF RequestEvent, ToolEvent, Event
  <2>3. e.type = "tool.requested" /\ e.call = x
    BY <1>1, <2>2
  <2>4. RequestedIn(Append(l.chain, e)) = RequestedIn(l.chain) \cup {e.call}
    BY <1>2, <2>1, <2>3, RequestedAppend
  <2> QED BY <1>1, <2>3, <2>4
<1>5. ASSUME NEW d \in Calls \ {c} PROVE BookedAt(a, k, d)
  <2>1. <<a, d>> # x
    BY <1>1, <1>5
  <2>2. BookedAt(a, l, d)
    BY DEF Ready
  <2> QED BY <1>3, <1>4, <2>1, <2>2 DEF BookedAt
<1> QED BY <1>1, <1>3, <1>5 DEF Ready

LEMMA CallToolStreams ==
    ASSUME NEW a, att[a] \in Locals(a), NEW c \in Calls, NEW kind \in CallKinds,
           CallTool(a, c, kind)
    PROVE  \E k : Streams(a, att[a], k) /\ Set(a, k)
<1>1. PICK l, m : l = att[a] /\ m = Reserve(a, c)
  OBVIOUS
<1>2. /\ m \in Locals(a) /\ m.calls = l.calls /\ m.phase = l.phase /\ m.failed = l.failed
      /\ m.end = l.end /\ l \in Locals(a)
  <2>1. m \in Locals(a) /\ ReservedFrom(a, l, c, m)
    BY <1>1, ReserveIs
  <2> QED BY <1>1, <2>1 DEF ReservedFrom
<1>3. l.calls[c] = "none" /\ kind \in AllCallKinds
  BY <1>1, TranscriptAssumption DEF CallTool
<1>4. Booked(a, l) => Ready(a, m, c)
  BY <1>1, <1>3, ReserveReady
<1>5. CASE kind \in {"allow", "deny"}
  <2>1. PICK ok \in BOOLEAN : ok = (kind = "allow")
    OBVIOUS
  <2>2. PICK k : k = Admit(a, m, c, ok)
    OBVIOUS
  <2>3. Set(a, k)
    BY <1>1, <1>5, <2>1, <2>2 DEF CallTool
  <2>4. k \in Locals(a) /\ Admitted(a, m, c, ok, k)
    BY <1>2, <2>2, AdmitIs
  <2>5. Booked(a, l) => Booked(a, k)
    BY <1>2, <1>4, <2>2, AdmitBooks
  <2>6. Remembers(l, k)
    BY <1>2, <1>3, <2>4 DEF Remembers, Admitted
  <2>7. k.phase = l.phase /\ k.failed = l.failed /\ k.end = l.end
    BY <1>2, <2>4 DEF Admitted, SameButWork
  <2> QED BY <1>1, <2>3, <2>4, <2>5, <2>6, <2>7 DEF Streams
<1>6. ASSUME NEW n \in Locals(a), SameButWork(m, n), n.calls = m.calls,
             Booked(a, l) => Ready(a, n, c), NEW result \in Results,
             Set(a, RecordCompleted(a, n, c, result))
      PROVE  \E k : Streams(a, att[a], k) /\ Set(a, k)
  <2>1. PICK k : k = RecordCompleted(a, n, c, result)
    OBVIOUS
  <2>2. k \in Locals(a) /\ Recorded(a, n, c, result, k)
    BY <1>6, <2>1, RecordCompletedIs
  <2>3. Booked(a, l) => Booked(a, k)
    BY <1>6, <2>1, RecordCompletedBooks
  <2>4. Remembers(l, k)
    BY <1>2, <1>3, <1>6, <2>2 DEF Remembers, Recorded
  <2>5. k.phase = l.phase /\ k.failed = l.failed /\ k.end = l.end
    BY <1>2, <1>6, <2>2 DEF Recorded, SameButWork
  <2> QED BY <1>1, <1>6, <2>1, <2>2, <2>3, <2>4, <2>5 DEF Streams
<1>7. "unavailable" \in Results /\ "refused" \in Results
  BY DEF Results
<1>8. CASE kind = "unavailable"
  <2>1. PICK n : n = Requested(a, m, c)
    OBVIOUS
  <2>2. Set(a, RecordCompleted(a, n, c, "unavailable"))
    BY <1>1, <1>8, <2>1 DEF CallTool
  <2>3. n \in Locals(a) /\ SameButWork(m, n) /\ n.calls = m.calls
    <3>1. n \in Locals(a)
      BY <1>2, <2>1, RequestedIs
    <3>2. PICK chain : n = [m EXCEPT !.chain = chain]
      BY <2>1 DEF Requested, Enqueue
    <3> QED BY <1>2, <3>1, <3>2 DEF SameButWork, Locals
  <2>4. Booked(a, l) => Ready(a, n, c)
    BY <1>2, <1>4, <2>1, RequestedReady
  <2> QED BY <1>6, <1>7, <2>2, <2>3, <2>4
<1>9. CASE kind = "refuse"
  <2>1. Set(a, RecordCompleted(a, m, c, "refused"))
    BY <1>1, <1>9 DEF CallTool
  <2>2. SameButWork(m, m)
    BY DEF SameButWork
  <2> QED BY <1>2, <1>4, <1>6, <1>7, <2>1, <2>2
<1>10. CASE kind = "resolve"
  <2>1. PICK calls : calls = [m.calls EXCEPT ![c] = "resolving"]
    OBVIOUS
  <2>2. PICK k : k = [m EXCEPT !.calls = calls]
    OBVIOUS
  <2>3. calls \in [Calls -> CallState] /\ calls[c] = "resolving"
        /\ \A d \in Calls \ {c} : calls[d] = m.calls[d]
    <3>1. m.calls \in [Calls -> CallState]
      BY <1>2, LocalFields
    <3> QED BY <2>1, <3>1 DEF CallState
  <2>4. k \in Locals(a)
    BY <1>2, <2>2, <2>3, LocalUpdates
  <2>5. Set(a, k)
    BY <1>1, <1>10, <2>1, <2>2 DEF CallTool
  <2>6. /\ k.calls = calls /\ k.coll = m.coll /\ k.chain = m.chain
        /\ k.phase = m.phase /\ k.failed = m.failed /\ k.end = m.end
    BY <1>2, <2>2 DEF Locals
  <2>7. Booked(a, l) => Booked(a, k)
    <3>1. SUFFICES ASSUME Ready(a, m, c), NEW d \in Calls PROVE BookedAt(a, k, d)
      BY <1>4 DEF Booked
    <3>2. CASE d = c
      <4>1. k.calls[d] = "resolving"
        BY <2>3, <2>6, <3>2
      <4> QED BY <2>6, <3>1, <3>2, <4>1 DEF BookedAt, Ready
    <3>3. CASE d # c
      <4>1. BookedAt(a, m, d) /\ k.calls[d] = m.calls[d]
        BY <2>3, <2>6, <3>1, <3>3 DEF Ready
      <4> QED BY <2>6, <4>1 DEF BookedAt
    <3> QED BY <3>2, <3>3
  <2>8. Remembers(l, k)
    BY <1>2, <1>3, <2>3, <2>6 DEF Remembers
  <2> QED BY <1>1, <1>2, <2>4, <2>5, <2>6, <2>7, <2>8 DEF Streams
<1> QED BY <1>3, <1>5, <1>8, <1>9, <1>10 DEF AllCallKinds

LEMMA OutcomeStreams ==
    ASSUME NEW a, NEW l \in Locals(a), NEW c \in Calls, l.calls[c] \in OpenStates
    PROVE  /\ \A ok \in BOOLEAN : Streams(a, l, Admit(a, l, c, ok))
           /\ \A result \in Results : Streams(a, l, RecordCompleted(a, l, c, result))
<1>1. ASSUME NEW ok \in BOOLEAN PROVE Streams(a, l, Admit(a, l, c, ok))
  <2>1. PICK k : k = Admit(a, l, c, ok)
    OBVIOUS
  <2>2. k \in Locals(a) /\ Admitted(a, l, c, ok, k)
    BY <2>1, AdmitIs
  <2>3. Booked(a, l) => Booked(a, k)
    BY <2>1, OpenIsReady, AdmitBooks
  <2>4. Remembers(l, k)
    BY <2>2 DEF Remembers, Admitted
  <2>5. k.phase = l.phase /\ k.failed = l.failed /\ k.end = l.end
    BY <2>2 DEF Admitted, SameButWork
  <2> QED BY <2>1, <2>2, <2>3, <2>4, <2>5 DEF Streams
<1>2. ASSUME NEW result \in Results PROVE Streams(a, l, RecordCompleted(a, l, c, result))
  <2>1. PICK k : k = RecordCompleted(a, l, c, result)
    OBVIOUS
  <2>2. k \in Locals(a) /\ Recorded(a, l, c, result, k)
    BY <2>1, RecordCompletedIs
  <2>3. Booked(a, l) => Booked(a, k)
    BY <2>1, OpenIsReady, RecordCompletedBooks
  <2>4. Remembers(l, k)
    BY <2>2 DEF Remembers, Recorded
  <2>5. k.phase = l.phase /\ k.failed = l.failed /\ k.end = l.end
    BY <2>2 DEF Recorded, SameButWork
  <2> QED BY <2>1, <2>2, <2>3, <2>4, <2>5 DEF Streams
<1> QED BY <1>1, <1>2

LEMMA ResolveStreams ==
    ASSUME NEW a, att[a] \in Locals(a), NEW c \in Calls, ResolveCall(a, c)
    PROVE  \E k : Streams(a, att[a], k) /\ Set(a, k)
<1>1. att[a].calls[c] \in OpenStates /\ "refused" \in Results
  BY DEF ResolveCall, OpenStates, Results
<1>2. CASE \E ok \in BOOLEAN : Set(a, Admit(a, att[a], c, ok))
  BY <1>1, <1>2, OutcomeStreams
<1>3. CASE Set(a, RecordCompleted(a, att[a], c, "refused"))
  BY <1>1, <1>3, OutcomeStreams
<1> QED BY <1>2, <1>3 DEF ResolveCall

LEMMA CompleteStreams ==
    ASSUME NEW a, att[a] \in Locals(a), NEW c \in Calls, CompleteTool(a, c)
    PROVE  \E k : Streams(a, att[a], k) /\ Set(a, k)
<1>1. PICK result : result = IF att[a].calls[c] = "running" THEN "ok" ELSE "denied"
  OBVIOUS
<1>2. att[a].calls[c] \in OpenStates /\ result \in Results
      /\ Set(a, RecordCompleted(a, att[a], c, result))
  BY <1>1 DEF CompleteTool, OpenStates, Results
<1> QED BY <1>2, OutcomeStreams

LEMMA DeliversStreams ==
    ASSUME NEW a, NEW l, NEW k, Delivers(a, l, k)
    PROVE  Streams(a, l, k)
<1>1. Booked(a, l) => Booked(a, k)
  BY DeliversBooked
<1> QED BY <1>1 DEF Streams, Delivers, Remembers

(* Every step of the stream but a staged item leaves the rest alone.       *)
LEMMA StreamIs ==
    ASSUME NEW a, att[a] \in Locals(a), Stream(a)
    PROVE  /\ att[a].phase \in {"streaming", "aborting"}
           /\ \E k : Streams(a, att[a], k) /\ Set(a, k)
           /\ UNCHANGED <<run, log, failures>>
           /\ UNCHANGED reply \/ StageItem(a)
<1>1. CASE \E id \in PartIds : OnTextDelta(a, id)
  BY <1>1, TextDeltaDelivers, DeliversStreams DEF OnTextDelta, Streaming, storeVars
<1>2. CASE \E id \in PartIds : OnReasoningDelta(a, id)
  BY <1>2, ReasoningDeltaDelivers, DeliversStreams DEF OnReasoningDelta, Streaming, storeVars
<1>3. CASE \E id \in PartIds : OnReasoningMetadata(a, id)
  BY <1>3, ReasoningMetadataDelivers, DeliversStreams
     DEF OnReasoningMetadata, Streaming, storeVars
<1>4. CASE OnTextMetadata(a)
  BY <1>4, TextMetadataDelivers, DeliversStreams DEF OnTextMetadata, Streaming, storeVars
<1>5. CASE OnStepStart(a)
  BY <1>5, StepStartDelivers, DeliversStreams DEF OnStepStart, Streaming, storeVars
<1>6. CASE StageItem(a)
  BY <1>6, StageDelivers, DeliversStreams DEF StageItem, Streaming
<1>7. CASE \E c \in Calls : \E kind \in CallKinds : CallTool(a, c, kind)
  BY <1>7, CallToolStreams DEF CallTool, Streaming, storeVars
<1>8. CASE \E c \in Calls : ResolveCall(a, c)
  BY <1>8, ResolveStreams DEF ResolveCall, Streaming, storeVars
<1>9. CASE \E c \in Calls : CompleteTool(a, c)
  BY <1>9, CompleteStreams DEF CompleteTool, storeVars
<1> QED BY <1>1, <1>2, <1>3, <1>4, <1>5, <1>6, <1>7, <1>8, <1>9 DEF Stream

-----------------------------------------------------------------------------
(* How an attempt ends.                                                    *)

Working == {"streaming", "aborting", "draining", "settling"}
NothingOpen(l) == \A c \in Calls : l.calls[c] \in {"none", "settled"}
Ends == {"completed", "failed", "cancelled"}

(* What a process carries over into another phase.                         *)
Carries(a, l, k, phase, end) ==
    /\ k \in Locals(a)
    /\ Booked(a, l) => Booked(a, k)
    /\ Remembers(l, k)
    /\ k.failed = l.failed /\ k.phase = phase /\ k.end = end

(* A step of an attempt's process other than the write of an event, its    *)
(* claim, its dispatch and its end.                                        *)
Works(a, l, k) ==
    /\ l.phase \in Working /\ k.phase \in Working
    /\ Carries(a, l, k, k.phase, k.end)
    /\ k.phase # "streaming" => k.end # "none"
    /\ k.phase = "settling" => /\ l.phase # "settling"
                               /\ ~k.failed /\ k.end # "completed" => NothingOpen(k)

LEMMA CarriesTwice ==
    ASSUME NEW a, NEW l, NEW m, NEW k, NEW p, NEW e, NEW q, NEW f,
           Carries(a, l, m, p, e), Carries(a, m, k, q, f)
    PROVE  Carries(a, l, k, q, f)
  BY DEF Carries, Remembers

LEMMA StreamsCarries ==
    ASSUME NEW a, NEW l, NEW k, Streams(a, l, k)
    PROVE  Carries(a, l, k, l.phase, l.end)
  BY DEF Streams, Carries

(* The phase, the end and the cap change nothing else.                     *)
LEMMA RephasedCarries ==
    ASSUME NEW a, NEW l \in Locals(a), NEW phase \in Phases, NEW end \in Ends \cup {"none"},
           NEW capped \in BOOLEAN
    PROVE  /\ Carries(a, l, [l EXCEPT !.phase = phase, !.end = end, !.capped = capped],
                      phase, end)
           /\ Carries(a, l, [l EXCEPT !.phase = phase, !.end = end], phase, end)
           /\ Carries(a, l, [l EXCEPT !.phase = phase], phase, l.end)
           /\ NothingOpen(l) => NothingOpen([l EXCEPT !.phase = phase])
<1>1. PICK k, m, n : /\ n = [l EXCEPT !.phase = phase] /\ m = [n EXCEPT !.end = end]
                     /\ k = [m EXCEPT !.capped = capped]
  OBVIOUS
<1>2. n \in Locals(a)
  BY <1>1, LocalUpdates
<1>3. m \in Locals(a)
  BY <1>1, <1>2, LocalUpdates DEF Ends
<1>4. k \in Locals(a)
  BY <1>1, <1>3, LocalUpdates
<1>5. ASSUME NEW j, j.chain = l.chain, j.coll = l.coll, j.calls = l.calls
      PROVE  (Booked(a, l) => Booked(a, j)) /\ Remembers(l, j)
             /\ (NothingOpen(l) => NothingOpen(j))
  BY <1>5 DEF Booked, BookedAt, Remembers, NothingOpen
<1>6. /\ n.chain = l.chain /\ n.coll = l.coll /\ n.calls = l.calls
      /\ n.failed = l.failed /\ n.phase = phase /\ n.end = l.end
  BY <1>1 DEF Locals
<1>7. /\ m.chain = l.chain /\ m.coll = l.coll /\ m.calls = l.calls
      /\ m.failed = l.failed /\ m.phase = phase /\ m.end = end
  BY <1>1, <1>2, <1>6 DEF Locals
<1>8. /\ k.chain = l.chain /\ k.coll = l.coll /\ k.calls = l.calls
      /\ k.failed = l.failed /\ k.phase = phase /\ k.end = end
  BY <1>1, <1>3, <1>7 DEF Locals
<1>9. Carries(a, l, n, phase, l.end) /\ (NothingOpen(l) => NothingOpen(n))
  BY <1>2, <1>5, <1>6 DEF Carries
<1>10. Carries(a, l, m, phase, end)
  BY <1>3, <1>5, <1>7 DEF Carries
<1>11. Carries(a, l, k, phase, end)
  BY <1>4, <1>5, <1>8 DEF Carries
<1>12. /\ [l EXCEPT !.phase = phase, !.end = end] = m
       /\ [l EXCEPT !.phase = phase, !.end = end, !.capped = capped] = k
  BY <1>1
<1> QED BY <1>1, <1>9, <1>10, <1>11, <1>12

LEMMA FlushCarries ==
    ASSUME NEW a, NEW l \in Locals(a)
    PROVE  Carries(a, l, Flush(l), l.phase, l.end)
<1>1. Still(a, l, Flush(l))
  BY StillFlush
<1>2. Delivers(a, l, Flush(l))
  BY <1>1 DEF Still, Delivers
<1> QED BY <1>2, DeliversStreams, StreamsCarries

LEMMA OnFinishWorks ==
    ASSUME NEW a, att[a] \in Locals(a), NEW end \in Ends, OnFinish(a, end)
    PROVE  \E k : Works(a, att[a], k) /\ Set(a, k)
<1>1. PICK l, m, k : /\ l = att[a] /\ m = Flush(l)
                     /\ k = [m EXCEPT !.phase = "draining", !.end = end]
  OBVIOUS
<1>2. Carries(a, l, m, l.phase, l.end)
  BY <1>1, FlushCarries
<1>3. m \in Locals(a) /\ "draining" \in Phases /\ TRUE \in BOOLEAN
  BY <1>2 DEF Carries, Phases
<1>4. Carries(a, m, k, "draining", end)
  BY <1>1, <1>3, RephasedCarries
<1>5. Carries(a, l, k, "draining", end)
  BY <1>2, <1>4, CarriesTwice
<1>6. Set(a, k)
  BY <1>1 DEF OnFinish
<1> QED BY <1>1, <1>5, <1>6 DEF Works, Carries, Working, Ends, OnFinish, Streaming

LEMMA OnErrorWorks ==
    ASSUME NEW a, att[a] \in Locals(a), NEW end \in {"failed", "cancelled"},
           OnError(a, end)
    PROVE  \E k : Works(a, att[a], k) /\ Set(a, k)
<1>1. PICK l, m, k : /\ l = att[a] /\ m = Flush(l)
                     /\ k = [m EXCEPT !.phase = "draining", !.end = end, !.capped = FALSE]
  OBVIOUS
<1>2. Carries(a, l, m, l.phase, l.end)
  BY <1>1, FlushCarries
<1>3. m \in Locals(a) /\ "draining" \in Phases /\ FALSE \in BOOLEAN /\ end \in Ends
  BY <1>2 DEF Carries, Phases, Ends
<1>4. Carries(a, m, k, "draining", end)
  BY <1>1, <1>3, RephasedCarries
<1>5. Carries(a, l, k, "draining", end)
  BY <1>2, <1>4, CarriesTwice
<1>6. Set(a, k)
  BY <1>1 DEF OnError
<1> QED BY <1>1, <1>5, <1>6 DEF Works, Carries, Working, Ends, OnError, Streaming

(* The calls an attempt settles at its end are booked as settled.          *)
LEMMA SettleOpenCarries ==
    ASSUME NEW a, NEW l \in Locals(a), NEW cs
    PROVE  /\ Carries(a, l, SettleOpen(a, l, cs), l.phase, l.end)
           /\ cs = Calls => NothingOpen(SettleOpen(a, l, cs))
<1> DEFINE G == {k \in Locals(a) : Carries(a, l, k, l.phase, l.end)}
<1>1. l \in G
  BY DEF Carries, Remembers
<1>2. ASSUME NEW k \in Locals(a), NEW c \in Calls, k \in G, k.calls[c] \in OpenStates
      PROVE  RecordCompleted(a, k, c, "cancelled") \in G
  <2>1. PICK q : q = RecordCompleted(a, k, c, "cancelled")
    OBVIOUS
  <2>2. "cancelled" \in Results
    BY DEF Results
  <2>3. Streams(a, k, q)
    BY <1>2, <2>1, <2>2, OutcomeStreams
  <2> QED BY <1>2, <2>1, <2>3 DEF Streams, Carries, Remembers
<1>3. PICK k : k = SettleOpen(a, l, cs)
  OBVIOUS
<1>4. /\ k \in Locals(a) /\ k \in G
      /\ k.calls = [c \in Calls |-> IF c \in OpenCalls(l) \cap cs THEN "settled"
                                   ELSE l.calls[c]]
  <2> HIDE DEF G
  <2> QED BY <1>1, <1>2, <1>3, SettleOpenKeeps
<1>5. cs = Calls => NothingOpen(k)
  <2>1. OpenCalls(l) = {c \in Calls : l.calls[c] \in OpenStates}
    BY OpenCallsAre
  <2>2. \A c \in Calls : l.calls[c] \in CallState
    BY LocalFields
  <2> QED BY <1>4, <2>1, <2>2 DEF NothingOpen, OpenStates, CallState
<1> QED BY <1>3, <1>4, <1>5

LEMMA AbortWorks ==
    ASSUME NEW a, att[a] \in Locals(a), Abort(a)
    PROVE  \E k : Works(a, att[a], k) /\ Set(a, k)
<1>1. PICK l, m, k : /\ l = att[a] /\ m = SettleOpen(a, l, Calls \ Bash)
                     /\ k = [m EXCEPT !.phase = "aborting", !.end = "cancelled"]
  OBVIOUS
<1>2. Carries(a, l, m, l.phase, l.end)
  BY <1>1, SettleOpenCarries
<1>3. m \in Locals(a) /\ "aborting" \in Phases /\ TRUE \in BOOLEAN /\ "cancelled" \in Ends
  BY <1>2 DEF Carries, Phases, Ends
<1>4. Carries(a, m, k, "aborting", "cancelled")
  BY <1>1, <1>3, RephasedCarries
<1>5. Carries(a, l, k, "aborting", "cancelled")
  BY <1>2, <1>4, CarriesTwice
<1>6. Set(a, k)
  BY <1>1 DEF Abort
<1> QED BY <1>1, <1>5, <1>6 DEF Works, Carries, Working, Abort, Streaming

LEMMA GraceWorks ==
    ASSUME NEW a, att[a] \in Locals(a), GraceEnds(a), att[a].end # "none"
    PROVE  \E k : Works(a, att[a], k) /\ Set(a, k)
<1>1. PICK l, m, k : /\ l = att[a] /\ m = SettleOpen(a, l, Calls)
                     /\ k = [m EXCEPT !.phase = "settling"]
  OBVIOUS
<1>2. Carries(a, l, m, l.phase, l.end) /\ NothingOpen(m)
  BY <1>1, SettleOpenCarries
<1>3. m \in Locals(a) /\ "settling" \in Phases /\ TRUE \in BOOLEAN /\ "cancelled" \in Ends
      /\ m.end = l.end
  BY <1>2 DEF Carries, Phases, Ends
<1>4. Carries(a, m, k, "settling", l.end) /\ NothingOpen(k)
  BY <1>1, <1>2, <1>3, RephasedCarries
<1>5. Carries(a, l, k, "settling", l.end)
  BY <1>2, <1>4, CarriesTwice
<1>6. Set(a, k)
  BY <1>1 DEF GraceEnds
<1> QED BY <1>1, <1>4, <1>5, <1>6 DEF Works, Carries, Working, GraceEnds

LEMMA AfterDrainCarries ==
    ASSUME NEW a, NEW l \in Locals(a)
    PROVE  /\ Carries(a, l, AfterDrain(a, l), l.phase, l.end)
           /\ l.end # "completed" => NothingOpen(AfterDrain(a, l))
<1>1. PICK c, n : /\ c = CollectPart(l.coll, CapNotice)
                  /\ n = IF l.capped THEN [l EXCEPT !.coll = c] ELSE l
  OBVIOUS
<1>2. l.coll \in Collectors({a})
  BY LocalFields
<1>3. CapNotice \in NoticeParts \cup ItemParts
  BY DEF CapNotice, NoticeParts
<1>4. c \in Collectors({a}) /\ SameBooks(l.coll, c)
  BY <1>1, <1>2, <1>3, CollectPartType, CollectPartBooks
<1>5. Still(a, l, [l EXCEPT !.coll = c]) /\ Still(a, l, l)
  BY <1>4, StillUpdates, StillSelf
<1>6. Still(a, l, n)
  BY <1>1, <1>5
<1>7. Delivers(a, l, n)
  BY <1>6 DEF Delivers, Still
<1>8. Carries(a, l, n, l.phase, l.end)
  BY <1>7, DeliversStreams, StreamsCarries
<1>9. n \in Locals(a) /\ n.phase = l.phase /\ n.end = l.end
  BY <1>8 DEF Carries
<1>10. PICK k : k = IF l.end = "completed" THEN n ELSE SettleOpen(a, n, Calls)
  OBVIOUS
<1>11. k = AfterDrain(a, l)
  <2>1. l.end = n.end
    BY <1>9
  <2> QED BY <1>1, <1>10, <2>1 DEF AfterDrain
<1>12. CASE l.end = "completed"
  BY <1>8, <1>10, <1>11, <1>12
<1>13. CASE l.end # "completed"
  <2>1. Carries(a, n, k, n.phase, n.end) /\ NothingOpen(k)
    BY <1>9, <1>10, <1>13, SettleOpenCarries
  <2>2. Carries(a, l, k, n.phase, n.end)
    BY <1>8, <2>1, CarriesTwice
  <2> QED BY <1>9, <1>11, <2>1, <2>2
<1> QED BY <1>12, <1>13

LEMMA DrainWorks ==
    ASSUME NEW a, att[a] \in Locals(a), Drain(a), att[a].end # "none"
    PROVE  \E k : Works(a, att[a], k) /\ Set(a, k)
<1>1. PICK l, m, k : /\ l = att[a] /\ m = IF l.failed THEN l ELSE AfterDrain(a, l)
                     /\ k = [m EXCEPT !.phase = "settling"]
  OBVIOUS
<1>2. /\ Carries(a, l, m, l.phase, l.end)
      /\ ~l.failed /\ l.end # "completed" => NothingOpen(m)
  <2>1. CASE l.failed
    BY <1>1, <2>1 DEF Remembers, Carries
  <2>2. CASE ~l.failed
    BY <1>1, <2>2, AfterDrainCarries
  <2> QED BY <2>1, <2>2
<1>3. m \in Locals(a) /\ "settling" \in Phases /\ TRUE \in BOOLEAN /\ "cancelled" \in Ends
      /\ m.end = l.end /\ m.failed = l.failed
  BY <1>2 DEF Carries, Phases, Ends
<1>4. Carries(a, m, k, "settling", l.end)
  BY <1>1, <1>3, RephasedCarries
<1>5. Carries(a, l, k, "settling", l.end)
  <2>1. Carries(a, m, k, "settling", l.end)
    BY <1>1, <1>3, RephasedCarries
  <2> QED BY <1>2, <2>1, CarriesTwice
<1>6. Set(a, k)
  BY <1>1 DEF Drain
<1>7. ~k.failed /\ k.end # "completed" => NothingOpen(k)
  <2>1. NothingOpen(m) => NothingOpen(k)
    BY <1>1, <1>3, RephasedCarries
  <2> QED BY <1>2, <1>5, <2>1 DEF Carries
<1> QED BY <1>1, <1>5, <1>6, <1>7 DEF Works, Carries, Working, Drain

LEMMA WorkIs ==
    ASSUME NEW a, att[a] \in Locals(a),
           att[a].phase \in {"aborting", "draining"} => att[a].end # "none",
           \/ Stream(a)
           \/ \E end \in Ends : OnFinish(a, end)
           \/ \E end \in {"failed", "cancelled"} : OnError(a, end)
           \/ Drain(a) \/ Abort(a) \/ GraceEnds(a)
    PROVE  /\ \E k : Works(a, att[a], k) /\ Set(a, k)
           /\ UNCHANGED <<run, log, failures>>
           /\ UNCHANGED reply \/ StageItem(a)
<1>1. CASE Stream(a)
  <2>1. PICK k : Streams(a, att[a], k) /\ Set(a, k)
    BY <1>1, StreamIs
  <2>2. att[a].phase \in {"streaming", "aborting"}
    BY <1>1, StreamIs
  <2>3. Works(a, att[a], k)
    BY <2>1, <2>2 DEF Streams, Works, Carries, Working
  <2> QED BY <1>1, <2>1, <2>3, StreamIs
<1>2. CASE \E end \in Ends : OnFinish(a, end)
  BY <1>2, OnFinishWorks DEF OnFinish, storeVars
<1>3. CASE \E end \in {"failed", "cancelled"} : OnError(a, end)
  BY <1>3, OnErrorWorks DEF OnError, storeVars
<1>4. CASE Drain(a)
  BY <1>4, DrainWorks DEF Drain, storeVars
<1>5. CASE Abort(a)
  BY <1>5, AbortWorks DEF Abort, storeVars
<1>6. CASE GraceEnds(a)
  BY <1>6, GraceWorks DEF GraceEnds, storeVars
<1> QED BY <1>1, <1>2, <1>3, <1>4, <1>5, <1>6

(* The head of the chain is written, or dropped: the calls that waited for *)
(* it go on, and no call becomes or ceases to be open.                     *)
WrittenOff(a, l, failed, k) ==
    /\ k.failed = failed /\ k \in Locals(a) /\ k.chain = Tail(l.chain)
    /\ k.coll = l.coll /\ k.textBuf = l.textBuf /\ k.reasoningBuf = l.reasoningBuf
    /\ k.textId = l.textId /\ k.reasoningId = l.reasoningId /\ k.step = l.step
    /\ k.phase = l.phase /\ k.end = l.end /\ k.called = l.called /\ k.tokens = l.tokens
    /\ \A c \in Calls : /\ l.calls[c] \in {"none", "settled"} => k.calls[c] = l.calls[c]
                        /\ l.calls[c] \in OpenStates => k.calls[c] \in OpenStates

LEMMA WrittenIs ==
    ASSUME NEW a, NEW l \in Locals(a), NEW failed \in BOOLEAN, l.chain # <<>>
    PROVE  /\ WrittenOff(a, l, failed,
                         Written(a, [l EXCEPT !.chain = Tail(@), !.failed = failed]))
           /\ WrittenOff(a, l, l.failed, Written(a, [l EXCEPT !.chain = Tail(@)]))
<1>1. PICK chain : chain = Tail(l.chain)
  OBVIOUS
<1>2. l.chain \in Seq(StreamEvents({a})) /\ l.failed \in BOOLEAN
      /\ l.calls \in [Calls -> CallState]
  BY LocalFields
<1>3. chain \in Seq(StreamEvents({a}))
  BY <1>1, <1>2
<1>4. ASSUME NEW f \in BOOLEAN
      PROVE  WrittenOff(a, l, f, Written(a, [l EXCEPT !.chain = Tail(@), !.failed = f]))
  <2>1. PICK m : m = [l EXCEPT !.chain = chain, !.failed = f]
    OBVIOUS
  <2>2. m \in Locals(a)
    <3>1. [l EXCEPT !.chain = chain] \in Locals(a)
      BY <1>3, LocalUpdates
    <3>2. [[l EXCEPT !.chain = chain] EXCEPT !.failed = f] \in Locals(a)
      BY <3>1, LocalUpdates
    <3> QED BY <2>1, <3>2
  <2>3. PICK calls : calls = [c \in Calls |->
            IF \A i \in DOMAIN m.chain : m.chain[i].call # <<a, c>>
            THEN Resume(m.calls[c], m.failed) ELSE m.calls[c]]
    OBVIOUS
  <2>4. PICK k : k = [m EXCEPT !.calls = calls]
    OBVIOUS
  <2>5. m.calls = l.calls /\ m.failed = f /\ m.chain = chain
    BY <2>1 DEF Locals
  <2>6. \A s \in CallState :
           /\ Resume(s, f) \in CallState
           /\ s \in {"none", "settled"} => Resume(s, f) = s
           /\ s \in OpenStates => Resume(s, f) \in OpenStates
    <3> SUFFICES ASSUME NEW s \in CallState
                 PROVE  /\ Resume(s, f) \in CallState
                        /\ s \in {"none", "settled"} => Resume(s, f) = s
                        /\ s \in OpenStates => Resume(s, f) \in OpenStates
      OBVIOUS
    <3>1. CASE f
      BY <3>1 DEF Resume, CallState, OpenStates
    <3>2. CASE ~f
      BY <3>2 DEF Resume, CallState, OpenStates
    <3> QED BY <3>1, <3>2
  <2>7. /\ calls \in [Calls -> CallState]
        /\ \A c \in Calls : /\ l.calls[c] \in {"none", "settled"} => calls[c] = l.calls[c]
                            /\ l.calls[c] \in OpenStates => calls[c] \in OpenStates
    BY <1>2, <2>3, <2>5, <2>6
  <2>8. k \in Locals(a)
    BY <2>2, <2>4, <2>7, LocalUpdates
  <2>9. k.calls = calls /\ k.chain = chain /\ k.failed = f
        /\ k.coll = l.coll /\ k.textBuf = l.textBuf /\ k.reasoningBuf = l.reasoningBuf
        /\ k.textId = l.textId /\ k.reasoningId = l.reasoningId /\ k.step = l.step
        /\ k.phase = l.phase /\ k.end = l.end /\ k.called = l.called /\ k.tokens = l.tokens
    BY <2>1, <2>2, <2>4 DEF Locals
  <2>10. WrittenOff(a, l, f, k)
    BY <1>1, <2>7, <2>8, <2>9 DEF WrittenOff
  <2>11. Written(a, [l EXCEPT !.chain = Tail(@), !.failed = f]) = k
    <3>1. [l EXCEPT !.chain = Tail(@), !.failed = f] = m
      BY <1>1, <2>1
    <3>2. Written(a, m) = k
      BY <2>3, <2>4 DEF Written
    <3> QED BY <3>1, <3>2
  <2> QED BY <2>9, <2>10, <2>11
<1>5. [l EXCEPT !.chain = Tail(@)] = [l EXCEPT !.chain = Tail(@), !.failed = l.failed]
  BY DEF Locals
<1>6. WrittenOff(a, l, l.failed, Written(a, [l EXCEPT !.chain = Tail(@)]))
  BY <1>2, <1>4, <1>5
<1> QED BY <1>4, <1>5, <1>6

LEMMA WrittenKeeps ==
    ASSUME NEW a, NEW l \in Locals(a), NEW f, NEW k, WrittenOff(a, l, f, k),
           l.chain # <<>>
    PROVE  /\ Booked(a, l) => Booked(a, k)
           /\ Remembers(l, k) /\ Remembers(k, l)
           /\ NothingOpen(l) => NothingOpen(k)
<1>1. l.chain \in Seq(StreamEvents({a})) /\ \A c \in Calls : l.calls[c] \in CallState
  BY LocalFields
<1>2. RequestedIn(k.chain) \subseteq RequestedIn(l.chain)
  BY <1>1, RequestedTail DEF WrittenOff
<1>3. \A c \in Calls : l.calls[c] \in {"none", "settled"} \/ l.calls[c] \in OpenStates
  BY <1>1 DEF CallState, OpenStates
<1>4. ASSUME NEW c \in Calls, BookedAt(a, l, c) PROVE BookedAt(a, k, c)
  BY <1>2, <1>3, <1>4 DEF WrittenOff, BookedAt, OpenStates
<1>5. Remembers(l, k) /\ Remembers(k, l)
  BY <1>3 DEF WrittenOff, Remembers, OpenStates
<1>6. NothingOpen(l) => NothingOpen(k)
  BY DEF WrittenOff, NothingOpen
<1> QED BY <1>4, <1>5, <1>6 DEF Booked

-----------------------------------------------------------------------------
(* The state.                                                              *)

RunStatuses == {"live", "completed", "failed", "cancelled", "expired"}
ReplyStatuses == {"none", "running", "completed", "failed", "cancelled", "expired"}

(* The types, and what every settlement relies on: a turn past its stream  *)
(* knows how it ended.                                                     *)
WellTyped ==
    /\ run \in [status : RunStatuses, active : 0..MaxAttempts]
    /\ log \in Seq(Events(Attempts))
    /\ reply \in [attempt : 0..MaxAttempts, status : ReplyStatuses, parts : Seq(Parts(Attempts))]
    /\ att = [a \in Attempts |-> att[a]]
    /\ \A a \in Attempts : /\ att[a] \in Locals(a)
                           /\ att[a].phase \in Working \ {"streaming"} => att[a].end # "none"
    /\ failures \in 0..MaxFailures

(* Without overlap an attempt that is not at work holds nothing that would *)
(* still be written, and the one at work is the Run's.                     *)
Calm(a) ==
    /\ ~Gone(a) => run.status = "live" /\ a = run.active
    /\ Gone(a) => att[a].chain = <<>>
    /\ att[a].phase \in {"new", "claimed"} =>
          att[a] = [FreshAttempt EXCEPT !.phase = att[a].phase]
    /\ a > run.active => att[a].phase = "new"
    /\ Booked(a, att[a])

(* The log has one open window, the active attempt's, and in the window of *)
(* an attempt are its own events.                                          *)
Windowed(a) ==
    /\ att[a].phase \in {"new", "claimed"} => Unrequested(log, a)
    /\ att[a].phase \in Working => Open(log, a)
    /\ Open(log, a) => a = run.active
    /\ AttemptWindow(log, a) \in Seq(Events({a}))

(* The parts of the reply are those of the attempt it names.               *)
ReplyOwned ==
    /\ reply.parts \in Seq(Parts({reply.attempt}))
    /\ reply.status = "none" => reply.attempt = 0
    /\ reply.status = "running" => reply.attempt \in Attempts

Undisturbed ==
    /\ \A a \in Attempts : Calm(a)
    /\ run.status = "live" => /\ \A a \in Attempts : Windowed(a)
                             /\ Unrequested(log, 0)
    /\ ReplyOwned

LEMMA SeqMonotone ==
    ASSUME NEW S, NEW T, S \subseteq T
    PROVE  Seq(S) \subseteq Seq(T)
  OBVIOUS

LEMMA OneOfMany ==
    ASSUME NEW A, NEW B, A \subseteq B
    PROVE  /\ Parts(A) \subseteq Parts(B) /\ StreamEvents(A) \subseteq StreamEvents(B)
           /\ Events(A) \subseteq Events(B)
<1>1. TokensOf(A) \subseteq TokensOf(B) /\ CallsOf(A) \subseteq CallsOf(B)
  BY DEF TokensOf, CallsOf
<1>2. \A S, T : S \subseteq T => Seq(S) \subseteq Seq(T)
  OBVIOUS
<1>3. Seq(TokensOf(A)) \subseteq Seq(TokensOf(B))
  BY <1>1, <1>2
<1>4. Parts(A) \subseteq Parts(B)
  BY <1>1, <1>3 DEF Parts, CharParts, PendingParts, ToolParts
<1>5. StreamEvents(A) \subseteq StreamEvents(B)
  BY <1>1, <1>3 DEF StreamEvents
<1> QED BY <1>4, <1>5 DEF Events

LEMMA MarksAre ==
    /\ Event("run.started") \in Marks /\ Claims(Event("run.started"))
    /\ Event("run.terminal") \in Marks /\ ~Claims(Event("run.terminal"))
    /\ \A a : ~Requests(Event("run.terminal"), a) /\ ~Requests(Event("run.started"), a)
    /\ \A a \in Nat : [Event("model.requested") EXCEPT !.attempt = a] \in Marks
    /\ \A a, b : Requests([Event("model.requested") EXCEPT !.attempt = a], b) <=> a = b
    /\ \A a : ~Claims([Event("model.requested") EXCEPT !.attempt = a])
  BY DEF Event, Marks, Claims, Requests

LEMMA StreamedIs ==
    ASSUME NEW A, NEW e \in StreamEvents(A)
    PROVE  ~Claims(e) /\ (\A a : ~Requests(e, a)) /\ e.type # "run.terminal"
  BY DEF StreamEvents, StreamTypes, CallTypes, Claims, Requests

LEMMA AttemptsAre ==
    /\ MaxAttempts \in Nat \ {0} /\ Attempts \subseteq Nat /\ Attempts \subseteq 0..MaxAttempts
    /\ 0 \notin Attempts /\ 0 \in 0..MaxAttempts
    /\ \A a \in 0..MaxAttempts : a \in Nat /\ (a # 0 => a \in Attempts)
    /\ IsFiniteSet(Attempts)
<1>1. MaxAttempts \in Nat \ {0}
  BY TranscriptAssumption
<1>2. IsFiniteSet(1..MaxAttempts)
  BY <1>1, FS_Interval
<1> QED BY <1>1, <1>2 DEF Attempts

LEMMA FreshIs ==
    ASSUME NEW a, NEW phase \in Phases
    PROVE  /\ [FreshAttempt EXCEPT !.phase = phase] \in Locals(a)
           /\ Booked(a, [FreshAttempt EXCEPT !.phase = phase])
<1>1. PICK k : k = [FreshAttempt EXCEPT !.phase = phase]
  OBVIOUS
<1>2. /\ k.coll = EmptyCollector /\ k.chain = <<>> /\ k.calls = [c \in Calls |-> "none"]
  BY <1>1 DEF FreshAttempt
<1>3. EmptyCollector \in Collectors({a})
  BY DEF EmptyCollector, Collectors, Ids
<1>4. [c \in Calls |-> "none"] \in [Calls -> CallState] /\ 0 \in 0..MaxSteps /\ 0 \in 0..MaxTokens
      /\ None \in Ids
  BY TranscriptAssumption DEF CallState, Ids
<1>5. k \in Locals(a)
  <2>1. PICK calls, coll : calls = [c \in Calls |-> "none"] /\ coll = EmptyCollector
    OBVIOUS
  <2>2. k = [phase |-> phase, coll |-> coll, textBuf |-> <<>>, textId |-> None,
             reasoningBuf |-> <<>>, reasoningId |-> None, chain |-> <<>>, calls |-> calls,
             step |-> 0, called |-> FALSE, capped |-> FALSE, failed |-> FALSE,
             end |-> "none", tokens |-> 0]
    BY <1>1, <2>1 DEF FreshAttempt
  <2>3. coll \in Collectors({a}) /\ calls \in [Calls -> CallState]
    BY <1>3, <1>4, <2>1
  <2>4. <<>> \in Seq(TokensOf({a})) /\ <<>> \in Seq(StreamEvents({a}))
    OBVIOUS
  <2> QED BY <1>4, <2>2, <2>3, <2>4 DEF Locals
<1>6. PendingIn(k.coll.parts) = {} /\ CallsIn(k.coll.parts) = {} /\ k.coll.settled = {}
      /\ RequestedIn(k.chain) = {}
  BY <1>2, RequestedNone DEF PendingIn, CallsIn, EmptyCollector
<1>7. Booked(a, k)
  BY <1>2, <1>6 DEF Booked, BookedAt, OpenStates
<1> QED BY <1>1, <1>5, <1>7

LEMMA FreshUnclaimed == [FreshAttempt EXCEPT !.phase = "new"] = FreshAttempt
<1>1. PICK f, calls, coll : /\ calls = [c \in Calls |-> "none"] /\ coll = EmptyCollector
                            /\ f = FreshAttempt
  OBVIOUS
<1>2. f = [phase |-> "new", coll |-> coll, textBuf |-> <<>>, textId |-> None,
           reasoningBuf |-> <<>>, reasoningId |-> None, chain |-> <<>>, calls |-> calls,
           step |-> 0, called |-> FALSE, capped |-> FALSE, failed |-> FALSE,
           end |-> "none", tokens |-> 0]
  BY <1>1 DEF FreshAttempt
<1>3. f \in [phase : {"new"}, coll : {coll}, textBuf : {<<>>}, textId : {None},
             reasoningBuf : {<<>>}, reasoningId : {None}, chain : {<<>>}, calls : {calls},
             step : {0}, called : {FALSE}, capped : {FALSE}, failed : {FALSE},
             end : {"none"}, tokens : {0}]
  BY <1>2
<1>4. [f EXCEPT !.phase = "new"] = f
  BY <1>3
<1> QED BY <1>1, <1>4

LEMMA WindowType ==
    ASSUME NEW T, NEW s \in Seq(T), NEW a
    PROVE  AttemptWindow(s, a) \in Seq(T)
<1>1. CASE Unrequested(s, a)
  <2>1. AttemptWindow(s, a) = <<>>
    BY <1>1, WindowUnrequested
  <2> QED BY <2>1
<1>2. CASE ~Unrequested(s, a)
  <2>1. PICK i, j \in 1..Len(s) : Bounds(s, a, i, j) /\ AttemptWindow(s, a) = SubSeq(s, i, j)
    BY <1>2, WindowIs
  <2>2. i \in 1..(Len(s) + 1) /\ j \in (i - 1)..Len(s)
    BY <2>1 DEF Bounds
  <2> QED BY <2>1, <2>2, SubSeqIs
<1> QED BY <1>1, <1>2

(* The completions a settlement adds are one for each call the log leaves  *)
(* open.                                                                   *)
LEMMA LogCompletionsAre ==
    ASSUME NEW s \in Seq(Events(Attempts))
    PROVE  /\ LogCompletions(s) \in Seq(Completions)
           /\ \A call : call \in Rebuild(s).open <=>
                 \E i \in 1..Len(LogCompletions(s)) : LogCompletions(s)[i].call = call
<1> DEFINE O == Rebuild(s).open
           S == {Completed(call, "cancelled") : call \in O}
<1>1. s \in Seq(Events(Attempts) \cup Completions)
  OBVIOUS
<1>2. O \subseteq CallsOf(Attempts)
  BY <1>1, RebuildType DEF Rebuilders
<1>3. IsFiniteSet(CallsOf(Attempts))
  BY AttemptsAre, TranscriptAssumption, FS_Product DEF CallsOf
<1> HIDE DEF O
<1>4. IsFiniteSet(O)
  BY <1>2, <1>3, FS_Subset
<1>5. IsFiniteSet(S)
  <2> DEFINE f == [call \in O |-> Completed(call, "cancelled")]
  <2>1. f \in Surjection(O, S)
    BY DEF Surjection
  <2> HIDE DEF f, S
  <2> QED BY <1>4, <2>1, FS_Surjection
<1>6. ASSUME NEW call \in O
      PROVE  Completed(call, "cancelled") \in Completions /\ Completed(call, "cancelled").call = call
  <2>1. Completed(call, "cancelled") \in StreamEvents(Attempts)
    BY <1>2, StreamEventsAre DEF Results
  <2>2. /\ Completed(call, "cancelled").type = "tool.completed"
        /\ Completed(call, "cancelled").call = call
    BY DEF Completed, ToolEvent, Event
  <2> QED BY <2>1, <2>2 DEF Completions
<1>7. S \subseteq Completions /\ (\A e \in S : e.call \in O)
      /\ \A call \in O : \E e \in S : e.call = call
  BY <1>6
<1>8. LogCompletions(s) = SetToSeq(S)
  BY DEF LogCompletions, O
<1> HIDE DEF S
<1>9. SetToSeq(S) \in Seq(S) /\ \A x \in S : \E i \in 1..Len(SetToSeq(S)) : SetToSeq(S)[i] = x
  BY <1>5, SetToSeqIs
<1>10. PICK t : t = SetToSeq(S)
  OBVIOUS
<1>11. t \in Seq(Completions)
  BY <1>7, <1>9, <1>10
<1>12. \A call : call \in O <=> \E i \in 1..Len(t) : t[i].call = call
  BY <1>7, <1>9, <1>10
<1> QED BY <1>8, <1>10, <1>11, <1>12 DEF O

-----------------------------------------------------------------------------
(* Each step of the system in terms of what its attempt holds.             *)

(* The type of the reply a settlement without the collector stores.        *)
LEMMA RebuiltReplyType ==
    ASSUME NEW A, A \subseteq Attempts, log \in Seq(Events(Attempts)),
           AttemptWindow(log, reply.attempt) \in Seq(Events(A)),
           reply \in [attempt : 0..MaxAttempts, status : ReplyStatuses, parts : Seq(Parts(A))],
           NEW end \in {"failed", "expired"}
    PROVE  RebuiltReply(end) \in [attempt : {reply.attempt}, status : ReplyStatuses \ {"running"},
                                  parts : Seq(Parts(A))]
<1>1. CASE reply.status # "running"
  BY <1>1 DEF RebuiltReply
<1>2. CASE reply.status = "running"
  <2>1. PICK t, rebuilt, parts : /\ t = LogCompletions(log)
                                 /\ rebuilt = RebuiltParts(AttemptWindow(log, reply.attempt) \o t)
                                 /\ parts = PlaceStoredItems(rebuilt, reply.parts)
    OBVIOUS
  <2>2. t \in Seq(Completions)
    BY <2>1, LogCompletionsAre
  <2>3. AttemptWindow(log, reply.attempt) \o t \in Seq(Events(A) \cup Completions)
    BY <2>2
  <2>4. rebuilt \in Seq(Parts(A)) /\ reply.parts \in Seq(Parts(A))
    BY <2>1, <2>3, RebuiltPartsType
  <2>5. parts \in Seq(Parts(A))
    BY <2>1, <2>4, PlaceStoredRange
  <2>6. RebuiltReply(end) = [reply EXCEPT !.status = end, !.parts = parts]
    BY <1>2, <2>1 DEF RebuiltReply
  <2> QED BY <2>5, <2>6 DEF ReplyStatuses
<1> QED BY <1>1, <1>2

LEMMA LiveReplyType ==
    ASSUME NEW a \in Attempts, att[a] \in Locals(a), att[a].end # "none"
    PROVE  LiveReply(a) \in [attempt : {a}, status : Ends, parts : Seq(Parts({a}))]
<1>1. att[a].coll.parts \in Seq(Parts({a})) /\ att[a].end \in Ends
  BY LocalFields DEF Collectors, Ends
<1>2. PartsOf(att[a].coll) \in Seq(Parts({a}))
  BY <1>1, WithoutKeeps DEF PartsOf
<1> QED BY <1>1, <1>2 DEF LiveReply

LEMMA StagedReplyType ==
    ASSUME NEW a \in Attempts, att[a] \in Locals(a), StageItem(a),
           reply \in [attempt : 0..MaxAttempts, status : ReplyStatuses, parts : Seq(Parts(Attempts))]
    PROVE  reply' \in [attempt : {a}, status : {"running"}, parts : Seq(Parts({a}))]
<1>1. PICK next, item, parts : /\ next = NewStep(att[a]) /\ item = Item(next.step)
                               /\ parts = Append(PartsOf(next.coll), item)
  OBVIOUS
<1>2. next \in Locals(a)
  BY <1>1, NewStepIs DEF StageItem
<1>3. next.coll \in Collectors({a}) /\ next.step \in Nat
  BY <1>2, LocalFields
<1>4. next.coll.parts \in Seq(Parts({a}))
  BY <1>3 DEF Collectors
<1>5. PartsOf(next.coll) \in Seq(Parts({a}))
  BY <1>4, WithoutKeeps DEF PartsOf
<1>6. item \in Parts({a})
  BY <1>1, <1>3 DEF Item, ItemParts, Parts
<1>7. parts \in Seq(Parts({a}))
  BY <1>1, <1>5, <1>6
<1>8. reply' = [reply EXCEPT !.parts = parts]
  BY <1>1 DEF StageItem
<1> QED BY <1>7, <1>8 DEF StageItem

LEMMA SetIs ==
    ASSUME att = [b \in Attempts |-> att[b]], NEW a \in Attempts, NEW k, Set(a, k)
    PROVE  /\ att' = [b \in Attempts |-> att'[b]]
           /\ att'[a] = k /\ \A b \in Attempts \ {a} : att'[b] = att[b]
<1>1. att' = [att EXCEPT ![a] = k]
  BY DEF Set
<1>2. DOMAIN att = Attempts
  <2>1. PICK f : f = att
    OBVIOUS
  <2>2. f = [b \in Attempts |-> f[b]]
    BY <2>1
  <2>3. DOMAIN f = Attempts
    BY <2>2
  <2> QED BY <2>1, <2>3
<1> QED BY <1>1, <1>2

LEMMA SettledLogType ==
    ASSUME log \in Seq(Events(Attempts))
    PROVE  /\ log \o LogCompletions(log) \in Seq(Events(Attempts))
           /\ (log \o LogCompletions(log)) \o <<Event("run.terminal")>> \in Seq(Events(Attempts))
           /\ log \o <<Event("run.terminal")>> \in Seq(Events(Attempts))
<1>1. PICK t, e : t = LogCompletions(log) /\ e = Event("run.terminal")
  OBVIOUS
<1>2. t \in Seq(Completions) /\ e \in Events(Attempts)
  BY <1>1, LogCompletionsAre, MarksAre DEF Events
<1>3. Completions \subseteq Events(Attempts)
  BY DEF Completions, Events
<1>4. t \in Seq(Events(Attempts)) /\ <<e>> \in Seq(Events(Attempts))
  BY <1>2, <1>3
<1>5. log \o t \in Seq(Events(Attempts)) /\ log \o <<e>> \in Seq(Events(Attempts))
  BY <1>4
<1>6. (log \o t) \o <<e>> \in Seq(Events(Attempts))
  BY <1>4, <1>5
<1> QED BY <1>1, <1>5, <1>6

(* The terminal transactions keep the types.                               *)
LEMMA SettleFromLogType ==
    ASSUME WellTyped, NEW end \in {"failed", "expired"}, SettleFromLog(end)
    PROVE  /\ run' \in [status : RunStatuses, active : 0..MaxAttempts]
           /\ run' = [run EXCEPT !.status = end]
           /\ log' \in Seq(Events(Attempts))
           /\ reply' \in [attempt : 0..MaxAttempts, status : ReplyStatuses,
                          parts : Seq(Parts(Attempts))]
<1>1. run' = [run EXCEPT !.status = end]
  BY DEF SettleFromLog
<1>2. log' \in Seq(Events(Attempts))
  <2>1. log' = (IF reply.status = "completed" THEN log
                ELSE log \o LogCompletions(log)) \o <<Event("run.terminal")>>
    BY DEF SettleFromLog
  <2>2. log \in Seq(Events(Attempts))
    BY DEF WellTyped
  <2> QED BY <2>1, <2>2, SettledLogType
<1>3. reply' = RebuiltReply(end)
  BY DEF SettleFromLog
<1>4. AttemptWindow(log, reply.attempt) \in Seq(Events(Attempts))
  BY WindowType DEF WellTyped
<1>5. RebuiltReply(end) \in [attempt : {reply.attempt}, status : ReplyStatuses \ {"running"},
                              parts : Seq(Parts(Attempts))]
  BY <1>4, RebuiltReplyType DEF WellTyped
<1> QED BY <1>1, <1>2, <1>3, <1>5 DEF WellTyped, RunStatuses

LEMMA LiveReplyTyped ==
    ASSUME NEW a \in Attempts, att[a] \in Locals(a), att[a].end # "none"
    PROVE  LiveReply(a) \in [attempt : 0..MaxAttempts, status : ReplyStatuses,
                             parts : Seq(Parts(Attempts))]
<1>1. LiveReply(a) \in [attempt : {a}, status : Ends, parts : Seq(Parts({a}))]
  BY LiveReplyType
<1>2. Parts({a}) \subseteq Parts(Attempts)
  BY OneOfMany
<1>3. Seq(Parts({a})) \subseteq Seq(Parts(Attempts))
  BY <1>2, SeqMonotone
<1> QED BY <1>1, <1>3, AttemptsAre DEF Ends, ReplyStatuses

(* What the end of an attempt's process does to the store.                 *)
LEMMA FinishTypes ==
    ASSUME WellTyped, NEW a \in Attempts, Finish(a)
    PROVE  /\ run' \in [status : RunStatuses, active : 0..MaxAttempts]
           /\ log' \in Seq(Events(Attempts))
           /\ reply' \in [attempt : 0..MaxAttempts, status : ReplyStatuses,
                          parts : Seq(Parts(Attempts))]
           /\ failures' = failures
<1>1. att[a] \in Locals(a) /\ att[a].end # "none"
  BY DEF WellTyped, Finish, Working
<1>2. PICK l : l = att[a]
  OBVIOUS
<1>3. l.end \in Ends
  BY <1>1, <1>2, LocalFields DEF Ends
<1>4. LiveReply(a) \in [attempt : 0..MaxAttempts, status : ReplyStatuses,
                        parts : Seq(Parts(Attempts))]
  BY <1>1, LiveReplyTyped
<1>5. failures' = failures
  BY DEF Finish
<1>6. CASE ~Fenced(a)
  <2>1. run' = run /\ log' = log /\ (reply' = reply \/ reply' = LiveReply(a))
    BY <1>6 DEF Finish
  <2> QED BY <1>4, <1>5, <2>1 DEF WellTyped
<1>7. CASE Fenced(a) /\ l.failed
  <2>1. SettleFromLog("failed")
    BY <1>2, <1>7 DEF Finish
  <2> QED BY <1>5, <2>1, SettleFromLogType
<1>8. CASE Fenced(a) /\ ~l.failed /\ l.end = "completed" /\ Rebuild(log).open # {}
  <2>1. run' = run /\ log' = log /\ reply' = LiveReply(a)
    BY <1>2, <1>8 DEF Finish
  <2> QED BY <1>4, <1>5, <2>1 DEF WellTyped
<1>9. CASE Fenced(a) /\ ~l.failed /\ ~(l.end = "completed" /\ Rebuild(log).open # {})
  <2>1. /\ run' = [run EXCEPT !.status = l.end] /\ reply' = LiveReply(a)
        /\ log' = log \o LogCompletions(log) \o <<Event("run.terminal")>>
    BY <1>2, <1>9 DEF Finish
  <2> QED BY <1>3, <1>4, <1>5, <2>1, SettledLogType DEF WellTyped, Ends, RunStatuses
<1> QED BY <1>6, <1>7, <1>8, <1>9

(* One attempt's process changes.                                          *)
LEMMA AttTypes ==
    ASSUME WellTyped, NEW a \in Attempts, NEW k \in Locals(a), Set(a, k),
           k.phase \in Working \ {"streaming"} => k.end # "none"
    PROVE  /\ att' = [b \in Attempts |-> att'[b]]
           /\ \A b \in Attempts :
                 /\ att'[b] \in Locals(b)
                 /\ att'[b].phase \in Working \ {"streaming"} => att'[b].end # "none"
<1>1. /\ att' = [b \in Attempts |-> att'[b]]
      /\ att'[a] = k /\ \A b \in Attempts \ {a} : att'[b] = att[b]
  BY SetIs DEF WellTyped
<1> QED BY <1>1 DEF WellTyped

LEMMA RephasedIs ==
    ASSUME NEW a, NEW l \in Locals(a), NEW phase \in Phases
    PROVE  Carries(a, l, [l EXCEPT !.phase = phase], phase, l.end)
<1>1. TRUE \in BOOLEAN /\ "cancelled" \in Ends
  BY DEF Ends
<1> QED BY <1>1, RephasedCarries

LEMMA WellTypedStep ==
    ASSUME WellTyped, [Next]_vars
    PROVE  WellTyped'
<1> DEFINE Runs == [status : RunStatuses, active : 0..MaxAttempts]
           Replies == [attempt : 0..MaxAttempts, status : ReplyStatuses,
                       parts : Seq(Parts(Attempts))]
<1>0. /\ run \in Runs /\ log \in Seq(Events(Attempts)) /\ reply \in Replies
      /\ \A a \in Attempts : att[a] \in Locals(a)
      /\ failures \in 0..MaxFailures
  BY DEF WellTyped
<1>1. ASSUME UNCHANGED vars PROVE WellTyped'
  BY <1>1 DEF vars, WellTyped
<1>2. ASSUME NEW a \in Attempts, NEW k \in Locals(a), Set(a, k),
             k.phase \in Working \ {"streaming"} => k.end # "none",
             run' \in Runs, log' \in Seq(Events(Attempts)), reply' \in Replies,
             failures' \in 0..MaxFailures
      PROVE  WellTyped'
  BY <1>2, AttTypes DEF WellTyped
<1>3. ASSUME NEW e \in Events(Attempts) PROVE Append(log, e) \in Seq(Events(Attempts))
  BY <1>0, <1>3
<1>4. ASSUME NEW a \in Attempts, Claim(a) PROVE WellTyped'
  <2>1. PICK k : k = [att[a] EXCEPT !.phase = "claimed"]
    OBVIOUS
  <2>2. Carries(a, att[a], k, "claimed", att[a].end)
    BY <1>0, <2>1, RephasedIs DEF Phases
  <2>3. run' \in Runs
    BY <1>0, <1>4, AttemptsAre DEF Claim
  <2>4. log' \in Seq(Events(Attempts))
    BY <1>3, <1>4, MarksAre DEF Claim, Events
  <2>5. Set(a, k) /\ reply' = reply /\ failures' = failures
    BY <1>4, <2>1 DEF Claim
  <2> QED BY <1>0, <1>2, <2>2, <2>3, <2>4, <2>5 DEF Carries, Working
<1>5. ASSUME NEW a \in Attempts, Dispatch(a) PROVE WellTyped'
  <2>1. PICK k, m : k = [att[a] EXCEPT !.phase = "ended"] /\ m = [att[a] EXCEPT !.phase = "streaming"]
    OBVIOUS
  <2>2. Carries(a, att[a], k, "ended", att[a].end) /\ Carries(a, att[a], m, "streaming", att[a].end)
    BY <1>0, <2>1, RephasedIs DEF Phases
  <2>3. CASE ~Fenced(a)
    <3>1. Set(a, k) /\ run' = run /\ log' = log /\ reply' = reply /\ failures' = failures
      BY <1>5, <2>1, <2>3 DEF Dispatch, storeVars
    <3> QED BY <1>0, <1>2, <2>2, <3>1 DEF Carries, Working
  <2>4. CASE Fenced(a) /\ reply.status = "completed"
    <3>1. Set(a, k) /\ run' = [run EXCEPT !.status = "completed"] /\ reply' = reply
          /\ failures' = failures /\ log' = Append(log, Event("run.terminal"))
      BY <1>5, <2>1, <2>4 DEF Dispatch
    <3>2. run' \in Runs
      BY <1>0, <3>1 DEF RunStatuses
    <3>3. log' \in Seq(Events(Attempts))
      BY <1>3, <3>1, MarksAre DEF Events
    <3> QED BY <1>0, <1>2, <2>2, <3>1, <3>2, <3>3 DEF Carries, Working
  <2>5. CASE Fenced(a) /\ reply.status # "completed"
    <3>1. Set(a, m) /\ run' = run /\ reply' = ResetReply(a) /\ failures' = failures
          /\ log' = Append(log, [Event("model.requested") EXCEPT !.attempt = a])
      BY <1>5, <2>1, <2>5 DEF Dispatch
    <3>2. reply' \in Replies
      <4>1. <<>> \in Seq(Parts(Attempts))
        OBVIOUS
      <4> QED BY <3>1, <4>1, AttemptsAre DEF ResetReply, ReplyStatuses
    <3>3. log' \in Seq(Events(Attempts))
      BY <1>3, <3>1, MarksAre, AttemptsAre DEF Events
    <3> QED BY <1>0, <1>2, <2>2, <3>1, <3>2, <3>3 DEF Carries, Working
  <2> QED BY <2>3, <2>4, <2>5
<1>6. ASSUME NEW a \in Attempts, Stream(a) \/ (End(a) /\ ~Finish(a)) PROVE WellTyped'
  <2>1. att[a].phase \in {"aborting", "draining"} => att[a].end # "none"
    BY DEF WellTyped, Working
  <2>2. /\ \E k : Works(a, att[a], k) /\ Set(a, k)
        /\ UNCHANGED <<run, log, failures>>
        /\ UNCHANGED reply \/ StageItem(a)
    BY <1>0, <1>6, <2>1, WorkIs DEF End, Ends
  <2>3. PICK k : Works(a, att[a], k) /\ Set(a, k)
    BY <2>2
  <2>4. reply' \in Replies
    <3>1. CASE UNCHANGED reply
      BY <1>0, <3>1
    <3>2. CASE StageItem(a)
      <4>1. reply' \in [attempt : {a}, status : {"running"}, parts : Seq(Parts({a}))]
        BY <1>0, <3>2, StagedReplyType
      <4>2. Seq(Parts({a})) \subseteq Seq(Parts(Attempts))
        <5>1. Parts({a}) \subseteq Parts(Attempts)
          BY OneOfMany
        <5> QED BY <5>1, SeqMonotone
      <4> QED BY <4>1, <4>2, AttemptsAre DEF ReplyStatuses
    <3> QED BY <2>2, <3>1, <3>2
  <2>5. k \in Locals(a) /\ (k.phase \in Working \ {"streaming"} => k.end # "none")
    BY <2>3 DEF Works, Carries
  <2> QED BY <1>0, <1>2, <2>2, <2>3, <2>4, <2>5
<1>7. ASSUME NEW a \in Attempts, Finish(a) PROVE WellTyped'
  <2>1. PICK k : k = [att[a] EXCEPT !.phase = "ended"]
    OBVIOUS
  <2>2. Carries(a, att[a], k, "ended", att[a].end)
    BY <1>0, <2>1, RephasedIs DEF Phases
  <2>3. Set(a, k)
    BY <1>7, <2>1 DEF Finish
  <2>4. run' \in Runs /\ log' \in Seq(Events(Attempts)) /\ reply' \in Replies /\ failures' = failures
    BY <1>7, FinishTypes
  <2> QED BY <1>0, <1>2, <2>2, <2>3, <2>4 DEF Carries, Working
<1>8. ASSUME NEW a \in Attempts, Persist(a) \/ PersistFails(a) PROVE WellTyped'
  <2>0. PICK failed \in BOOLEAN : \E k :
            /\ WrittenOff(a, att[a], failed, k) /\ Set(a, k)
            /\ run' = run /\ reply' = reply
    <3>1. TRUE \in BOOLEAN /\ att[a].failed \in BOOLEAN /\ att[a].chain # <<>>
      BY <1>0, <1>8, LocalFields DEF Persist, PersistFails
    <3>2. CASE Persist(a)
      BY <1>0, <3>1, <3>2, WrittenIs DEF Persist
    <3>3. CASE PersistFails(a)
      BY <1>0, <3>1, <3>3, WrittenIs DEF PersistFails
    <3> QED BY <1>8, <3>2, <3>3
  <2>1. PICK k : /\ WrittenOff(a, att[a], failed, k) /\ Set(a, k)
                 /\ run' = run /\ reply' = reply
    BY <2>0
  <2>2. /\ log' \in Seq(Events(Attempts)) /\ failures' \in 0..MaxFailures
    <3>1. CASE Persist(a)
      <4>1. Head(att[a].chain) \in StreamEvents({a})
        <5>1. att[a].chain \in Seq(StreamEvents({a})) /\ att[a].chain # <<>>
          BY <1>0, <3>1, LocalFields DEF Persist
        <5> QED BY <5>1
      <4>2. Head(att[a].chain) \in Events(Attempts)
        <5>1. StreamEvents({a}) \subseteq StreamEvents(Attempts)
          BY OneOfMany
        <5> QED BY <4>1, <5>1 DEF Events
      <4>3. log' = Append(log, Head(att[a].chain)) /\ failures' = failures
        BY <3>1 DEF Persist
      <4> QED BY <1>0, <1>3, <4>2, <4>3
    <3>2. CASE PersistFails(a)
      BY <1>0, <3>2, TranscriptAssumption DEF PersistFails
    <3> QED BY <1>8, <3>1, <3>2
  <2>3. k \in Locals(a) /\ (k.phase \in Working \ {"streaming"} => k.end # "none")
    BY <2>1 DEF WrittenOff, WellTyped
  <2> QED BY <1>0, <1>2, <2>1, <2>2, <2>3
<1>9. ASSUME NEW a \in Attempts, Crash(a) PROVE WellTyped'
  <2>1. PICK k : k = [FreshAttempt EXCEPT !.phase = "dead"]
    OBVIOUS
  <2>2. k \in Locals(a) /\ k.phase = "dead"
    <3>1. k \in Locals(a)
      BY <2>1, FreshIs DEF Phases
    <3> QED BY <2>1, <3>1 DEF FreshAttempt
  <2>3. Set(a, k) /\ run' = run /\ log' = log /\ reply' = reply /\ failures' = failures
    BY <1>9, <2>1 DEF Crash, storeVars
  <2> QED BY <1>0, <1>2, <2>2, <2>3 DEF Working
<1>10. ASSUME NEW end \in {"failed", "expired"}, SettleOutside(end) PROVE WellTyped'
  <2>1. /\ run' \in Runs /\ log' \in Seq(Events(Attempts)) /\ reply' \in Replies
    BY <1>10, SettleFromLogType DEF SettleOutside
  <2>2. att' = att /\ failures' = failures
    BY <1>10 DEF SettleOutside
  <2> QED BY <2>1, <2>2 DEF WellTyped
<1> QED BY <1>1, <1>4, <1>5, <1>6, <1>7, <1>8, <1>9, <1>10 DEF Next

LEMMA WellTypedInit == Init => WellTyped
<1> SUFFICES ASSUME Init PROVE WellTyped
  OBVIOUS
<1>1. /\ run = [status |-> "live", active |-> 0] /\ log = <<>> /\ reply = NoReply
      /\ att = [a \in Attempts |-> FreshAttempt] /\ failures = 0
  BY DEF Init
<1>2. <<>> \in Seq(Parts(Attempts)) /\ <<>> \in Seq(Events(Attempts)) /\ 0 \in 0..MaxFailures
  BY TranscriptAssumption
<1>3. ASSUME NEW a \in Attempts PROVE FreshAttempt \in Locals(a) /\ FreshAttempt.phase = "new"
  <2>1. [FreshAttempt EXCEPT !.phase = "new"] = FreshAttempt
    BY FreshUnclaimed
  <2>2. [FreshAttempt EXCEPT !.phase = "new"] \in Locals(a)
    BY FreshIs DEF Phases
  <2> QED BY <2>1, <2>2 DEF FreshAttempt
<1>4. \A a \in Attempts : att[a] = FreshAttempt
  BY <1>1
<1>5. att = [a \in Attempts |-> att[a]]
  BY <1>1
<1>6. run \in [status : RunStatuses, active : 0..MaxAttempts]
      /\ reply \in [attempt : 0..MaxAttempts, status : ReplyStatuses, parts : Seq(Parts(Attempts))]
  BY <1>1, <1>2, AttemptsAre DEF RunStatuses, ReplyStatuses, NoReply
<1> QED BY <1>1, <1>2, <1>3, <1>4, <1>5, <1>6 DEF WellTyped, Working

(* TypeOK: the Run, its log, its reply and the attempts keep their types,  *)
(* for any number of attempts, calls, crashes and failed writes, and with  *)
(* attempts that overlap.                                                  *)
THEOREM TranscriptTypes == Spec => [](WellTyped /\ TypeOK)
<1>1. WellTyped => TypeOK
  <2> SUFFICES ASSUME WellTyped PROVE TypeOK
    OBVIOUS
  <2>1. ASSUME NEW a \in Attempts
        PROVE  /\ att[a].phase \in Phases /\ att[a].calls \in [Calls -> CallState]
               /\ att[a].tokens \in 0..MaxTokens /\ att[a].step \in 0..MaxSteps
               /\ \A i \in DOMAIN att[a].chain : att[a].chain[i].call \in CallIds \cup {None}
    <3>1. att[a] \in Locals(a)
      BY DEF WellTyped
    <3>2. att[a].chain \in Seq(StreamEvents({a}))
      BY <3>1, LocalFields
    <3>3. \A i \in DOMAIN att[a].chain : att[a].chain[i] \in StreamEvents({a})
      BY <3>2
    <3>4. \A e \in StreamEvents({a}) : e.call \in CallIds \cup {None}
      BY DEF StreamEvents, CallsOf, CallIds
    <3> QED BY <3>1, <3>3, <3>4, LocalFields
  <2> QED BY <2>1 DEF WellTyped, TypeOK, RunStatuses, ReplyStatuses
<1> QED BY <1>1, WellTypedInit, WellTypedStep, PTL DEF Spec

-----------------------------------------------------------------------------
(* What a new event does to the windows of the log.                        *)

LEMMA UnrequestedGrows ==
    ASSUME NEW T, NEW s \in Seq(T), NEW e \in T, NEW a, ~Requests(e, a)
    PROVE  Unrequested(Append(s, e), a) <=> Unrequested(s, a)
<1>1. PICK t, n : t = Append(s, e) /\ n = Len(s)
  OBVIOUS
<1>2. n \in Nat /\ Len(t) = n + 1 /\ t[n + 1] = e /\ \A i \in 1..n : t[i] = s[i]
  BY <1>1, AppendIs
<1>3. Unrequested(t, a) <=> Unrequested(s, a)
  BY <1>1, <1>2 DEF Unrequested
<1> QED BY <1>1, <1>3

(* A claim closes every window.                                            *)
LEMMA ClaimedWindow ==
    ASSUME NEW s \in Seq(Events(Attempts)), NEW b
    PROVE  LET t == Append(s, Event("run.started")) IN
           /\ AttemptWindow(t, b) = AttemptWindow(s, b) /\ ~Open(t, b)
           /\ Unrequested(t, b) <=> Unrequested(s, b)
<1>1. PICK e : e = Event("run.started")
  OBVIOUS
<1>2. e \in Events(Attempts) /\ Claims(e) /\ ~Requests(e, b)
  BY <1>1, MarksAre DEF Events
<1>3. CASE Open(s, b)
  BY <1>1, <1>2, <1>3, WindowCloses, UnrequestedGrows
<1>4. CASE ~Open(s, b)
  BY <1>1, <1>2, <1>4, WindowStays, UnrequestedGrows
<1> QED BY <1>3, <1>4

(* A request opens the window of the attempt it names.                     *)
LEMMA RequestedWindow ==
    ASSUME NEW s \in Seq(Events(Attempts)), NEW a \in Attempts, Unrequested(s, a),
           NEW b, b # a => ~Open(s, b)
    PROVE  LET e == [Event("model.requested") EXCEPT !.attempt = a]
               t == Append(s, e) IN
           /\ b = a => AttemptWindow(t, b) = <<e>> /\ Open(t, b)
           /\ b # a => /\ AttemptWindow(t, b) = AttemptWindow(s, b) /\ ~Open(t, b)
                       /\ Unrequested(t, b) <=> Unrequested(s, b)
<1>1. PICK e : e = [Event("model.requested") EXCEPT !.attempt = a]
  OBVIOUS
<1>2. e \in Marks
  BY <1>1, MarksAre, AttemptsAre
<1>3. e \in Events(Attempts) /\ ~Claims(e) /\ (Requests(e, b) <=> a = b)
  BY <1>1, <1>2, MarksAre DEF Events
<1>4. CASE b = a
  BY <1>1, <1>3, <1>4, WindowOpens
<1>5. CASE b # a
  BY <1>1, <1>3, <1>5, WindowStays, UnrequestedGrows
<1> QED BY <1>4, <1>5

(* An event of the stream goes into the open window.                       *)
LEMMA StreamedWindow ==
    ASSUME NEW s \in Seq(Events(Attempts)), NEW e \in StreamEvents(Attempts), NEW b
    PROVE  LET t == Append(s, e) IN
           /\ AttemptWindow(t, b) = IF Open(s, b) THEN Append(AttemptWindow(s, b), e)
                                    ELSE AttemptWindow(s, b)
           /\ Open(t, b) <=> Open(s, b)
           /\ Unrequested(t, b) <=> Unrequested(s, b)
<1>1. e \in Events(Attempts) /\ ~Claims(e) /\ ~Requests(e, b)
  BY StreamedIs DEF Events
<1>2. CASE Open(s, b)
  BY <1>1, <1>2, WindowGrows, UnrequestedGrows
<1>3. CASE ~Open(s, b)
  BY <1>1, <1>3, WindowStays, UnrequestedGrows
<1> QED BY <1>2, <1>3

-----------------------------------------------------------------------------
(* Attempts that do not overlap.                                           *)

LEMMA GoneIs ==
    ASSUME WellTyped, NEW a \in Attempts
    PROVE  /\ Gone(a) <=> att[a].phase \notin Working \cup {"claimed"}
           /\ Gone(a) <=> att[a].phase \in {"new", "ended", "dead"}
<1>1. att[a].phase \in Phases
  BY LocalFields DEF WellTyped
<1> QED BY <1>1 DEF Gone, Working, Phases

LEMMA OneAtWork ==
    ASSUME Undisturbed, NEW a \in Attempts, ~Gone(a), NEW b \in Attempts \ {a}
    PROVE  Gone(b)
  BY DEF Undisturbed, Calm

(* The attempts beside the one that steps.                                 *)
LEMMA OthersCalm ==
    ASSUME WellTyped, Undisturbed, NEW a \in Attempts, NEW k, Set(a, k),
           \A b \in Attempts \ {a} : Gone(b), run'.active \in Nat, run'.active >= run.active
    PROVE  /\ att'[a] = k
           /\ \A b \in Attempts \ {a} : Calm(b)' /\ att'[b] = att[b] /\ Gone(b)
<1>1. /\ att'[a] = k /\ \A b \in Attempts \ {a} : att'[b] = att[b]
  BY SetIs DEF WellTyped
<1>2. ASSUME NEW b \in Attempts \ {a} PROVE Calm(b)' /\ att'[b] = att[b] /\ Gone(b)
  <2>1. Gone(b) /\ att'[b] = att[b] /\ Calm(b)
    BY <1>1 DEF Undisturbed
  <2>2. b \in Nat /\ run.active \in Nat
    BY AttemptsAre DEF WellTyped
  <2>3. b > run'.active => b > run.active
    BY <2>2
  <2> QED BY <2>1, <2>3 DEF Calm, Gone, Booked, BookedAt
<1> QED BY <1>1, <1>2

LEMMA RebuiltReplyOwned ==
    ASSUME WellTyped, Undisturbed, run.status = "live", NEW end \in {"failed", "expired"},
           reply' = RebuiltReply(end)
    PROVE  ReplyOwned'
<1>1. CASE reply.status # "running"
  BY <1>1 DEF RebuiltReply, ReplyOwned, Undisturbed
<1>2. CASE reply.status = "running"
  <2>1. PICK a \in Attempts : a = reply.attempt
    BY <1>2 DEF Undisturbed, ReplyOwned
  <2>2. AttemptWindow(log, a) \in Seq(Events({a})) /\ log \in Seq(Events(Attempts))
    BY DEF Undisturbed, Windowed, WellTyped
  <2>3. reply \in [attempt : 0..MaxAttempts, status : ReplyStatuses, parts : Seq(Parts({a}))]
    BY <2>1 DEF WellTyped, Undisturbed, ReplyOwned
  <2>4. reply' \in [attempt : {a}, status : ReplyStatuses \ {"running"}, parts : Seq(Parts({a}))]
    BY <2>1, <2>2, <2>3, RebuiltReplyType
  <2>5. reply'.status = end
    BY <1>2, <2>3 DEF RebuiltReply
  <2> QED BY <2>4, <2>5 DEF ReplyOwned
<1> QED BY <1>1, <1>2

LEMMA LiveReplyOwned ==
    ASSUME WellTyped, NEW a \in Attempts, att[a].end # "none", reply' = LiveReply(a)
    PROVE  ReplyOwned'
<1>1. reply' \in [attempt : {a}, status : Ends, parts : Seq(Parts({a}))]
  BY LiveReplyType DEF WellTyped
<1> QED BY <1>1 DEF ReplyOwned, Ends

LEMMA ClaimUndisturbed ==
    ASSUME WellTyped, Undisturbed, ~MayOverlap, NEW a \in Attempts, Claim(a)
    PROVE  Undisturbed'
<1>1. PICK k : k = [att[a] EXCEPT !.phase = "claimed"]
  OBVIOUS
<1>2. /\ run.status = "live" /\ a = run.active + 1 /\ \A b \in Attempts : Gone(b)
      /\ run' = [run EXCEPT !.active = a] /\ log' = Append(log, Event("run.started"))
      /\ Set(a, k) /\ reply' = reply
  BY <1>1 DEF Claim, Quiet
<1>3. run'.active = a /\ run'.status = "live" /\ a \in Nat /\ a > run.active /\ run.active \in Nat
  <2>1. run \in [status : RunStatuses, active : 0..MaxAttempts] /\ run.active \in Nat
    BY AttemptsAre DEF WellTyped
  <2> QED BY <1>2, <2>1
<1>4. att[a] \in Locals(a) /\ att[a] = [FreshAttempt EXCEPT !.phase = "new"]
  BY <1>3 DEF Undisturbed, Calm, WellTyped
<1>5. k = [FreshAttempt EXCEPT !.phase = "claimed"]
  BY <1>1, <1>4
<1>6. k.chain = <<>> /\ k.phase = "claimed" /\ Booked(a, k)
  <2>1. Booked(a, k)
    BY <1>5, FreshIs DEF Phases
  <2> QED BY <1>5, <2>1 DEF FreshAttempt
<1>7. /\ att'[a] = k
      /\ \A b \in Attempts \ {a} : Calm(b)' /\ att'[b] = att[b] /\ Gone(b)
  BY <1>2, <1>3, OthersCalm
<1>8. Calm(a)'
  BY <1>3, <1>5, <1>6, <1>7 DEF Calm, Gone
<1>9. ASSUME NEW b \in Attempts PROVE Windowed(b)'
  <2>1. log \in Seq(Events(Attempts)) /\ Windowed(b)
    BY <1>2 DEF Undisturbed, WellTyped
  <2>2. /\ AttemptWindow(log', b) = AttemptWindow(log, b) /\ ~Open(log', b)
        /\ Unrequested(log', b) <=> Unrequested(log, b)
    BY <1>2, <2>1, ClaimedWindow
  <2>3. att'[b].phase \in {"new", "claimed"} => Unrequested(log, b)
    <3>1. CASE b = a
      <4>1. att[b].phase = "new"
        BY <1>3, <3>1 DEF Undisturbed, Calm
      <4> QED BY <2>1, <4>1 DEF Windowed
    <3>2. CASE b # a
      BY <1>7, <2>1, <3>2 DEF Windowed
    <3> QED BY <3>1, <3>2
  <2>4. att'[b].phase \notin Working
    <3>1. CASE b = a
      BY <1>6, <1>7, <3>1 DEF Working
    <3>2. CASE b # a
      BY <1>7, <3>2, GoneIs
    <3> QED BY <3>1, <3>2
  <2> QED BY <2>1, <2>2, <2>3, <2>4 DEF Windowed
<1>10. Unrequested(log', 0)
  <2>1. log \in Seq(Events(Attempts)) /\ Unrequested(log, 0)
    BY <1>2 DEF Undisturbed, WellTyped
  <2> QED BY <1>2, <2>1, ClaimedWindow
<1>11. ReplyOwned'
  BY <1>2 DEF Undisturbed, ReplyOwned
<1> QED BY <1>7, <1>8, <1>9, <1>10, <1>11 DEF Undisturbed

LEMMA DispatchUndisturbed ==
    ASSUME WellTyped, Undisturbed, NEW a \in Attempts, Dispatch(a)
    PROVE  Undisturbed'
<1>1. att[a] \in Locals(a) /\ att[a].phase = "claimed" /\ ~Gone(a)
  BY DEF Dispatch, WellTyped, Gone
<1>2. run.status = "live" /\ a = run.active /\ Fenced(a) /\ att[a].chain = <<>> /\ Booked(a, att[a])
  <2>1. run.status = "live" /\ a = run.active /\ Booked(a, att[a])
        /\ att[a] = [FreshAttempt EXCEPT !.phase = "claimed"]
    BY <1>1 DEF Undisturbed, Calm
  <2> QED BY <2>1 DEF Fenced, FreshAttempt
<1>3. run \in [status : RunStatuses, active : 0..MaxAttempts] /\ run.active \in Nat /\ a \in Nat
  BY AttemptsAre DEF WellTyped
<1>4. ASSUME NEW phase \in {"ended", "streaming"}, NEW k, k = [att[a] EXCEPT !.phase = phase],
             Set(a, k), run'.active = run.active,
             phase = "streaming" => run'.status = "live"
      PROVE  /\ att'[a] = k /\ k.phase = phase /\ Calm(a)'
             /\ \A b \in Attempts \ {a} : Calm(b)' /\ att'[b] = att[b] /\ Gone(b)
  <2>1. Carries(a, att[a], k, phase, att[a].end)
    BY <1>1, <1>4, RephasedIs DEF Phases
  <2>2. k.chain = <<>> /\ k.phase = phase
    BY <1>1, <1>2, <1>4 DEF Locals
  <2>3. /\ att'[a] = k
        /\ \A b \in Attempts \ {a} : Calm(b)' /\ att'[b] = att[b] /\ Gone(b)
    <3>1. run'.active \in Nat /\ run'.active >= run.active
      BY <1>3, <1>4
    <3>2. \A b \in Attempts \ {a} : Gone(b)
      BY <1>1, OneAtWork
    <3> QED BY <1>4, <3>1, <3>2, OthersCalm
  <2>4. Calm(a)'
    BY <1>2, <1>3, <1>4, <2>1, <2>2, <2>3 DEF Calm, Gone, Carries
  <2> QED BY <2>2, <2>3, <2>4
<1>5. CASE reply.status = "completed"
  <2>1. PICK k : k = [att[a] EXCEPT !.phase = "ended"]
    OBVIOUS
  <2>2. /\ run' = [run EXCEPT !.status = "completed"] /\ reply' = reply /\ Set(a, k)
    BY <1>2, <1>5, <2>1 DEF Dispatch
  <2>3. run'.active = run.active /\ run'.status = "completed"
    BY <1>3, <2>2
  <2>4. Calm(a)' /\ \A b \in Attempts \ {a} : Calm(b)'
    BY <1>4, <2>1, <2>2, <2>3
  <2> QED BY <2>2, <2>3, <2>4 DEF Undisturbed, ReplyOwned
<1>6. CASE reply.status # "completed"
  <2>1. PICK k, e : k = [att[a] EXCEPT !.phase = "streaming"]
                    /\ e = [Event("model.requested") EXCEPT !.attempt = a]
    OBVIOUS
  <2>2. /\ run' = run /\ reply' = ResetReply(a) /\ Set(a, k) /\ log' = Append(log, e)
    BY <1>2, <1>6, <2>1 DEF Dispatch
  <2>3. /\ att'[a] = k /\ k.phase = "streaming" /\ Calm(a)'
        /\ \A b \in Attempts \ {a} : Calm(b)' /\ att'[b] = att[b] /\ Gone(b)
    BY <1>2, <1>4, <2>1, <2>2
  <2>4. log \in Seq(Events(Attempts)) /\ Unrequested(log, a) /\ e \in Marks
        /\ \A b \in Attempts : Windowed(b)
    BY <1>1, <1>2, <1>3, <2>1, MarksAre DEF Undisturbed, WellTyped, Windowed
  <2>5. Windowed(a)'
    <3>1. AttemptWindow(log', a) = <<e>> /\ Open(log', a)
      BY <2>1, <2>2, <2>4, RequestedWindow
    <3>2. <<e>> \in Seq(Events({a}))
      BY <2>4 DEF Events
    <3> QED BY <1>2, <2>2, <2>3, <3>1, <3>2 DEF Windowed
  <2>6. ASSUME NEW b \in Attempts \ {a} PROVE Windowed(b)'
    <3>1. Windowed(b) /\ ~Open(log, b)
      BY <1>2, <2>4 DEF Windowed
    <3>2. /\ AttemptWindow(log', b) = AttemptWindow(log, b) /\ ~Open(log', b)
          /\ Unrequested(log', b) <=> Unrequested(log, b)
      BY <2>1, <2>2, <2>4, <3>1, RequestedWindow
    <3>3. att'[b] = att[b] /\ att[b].phase \notin Working
      BY <2>3, GoneIs
    <3> QED BY <3>1, <3>2, <3>3 DEF Windowed
  <2>7. Unrequested(log', 0)
    <3>1. Unrequested(log, 0) /\ a # 0
      BY <1>2, AttemptsAre DEF Undisturbed
    <3>2. ~Requests(e, 0) /\ e \in Events(Attempts)
      BY <2>1, <2>4, <3>1, MarksAre DEF Events
    <3> QED BY <2>2, <2>4, <3>1, <3>2, UnrequestedGrows
  <2>8. ReplyOwned'
    <3>1. reply' = [attempt |-> a, status |-> "running", parts |-> <<>>]
      BY <2>2 DEF ResetReply
    <3>2. <<>> \in Seq(Parts({a}))
      OBVIOUS
    <3> QED BY <3>1, <3>2 DEF ReplyOwned
  <2> QED BY <2>3, <2>5, <2>6, <2>7, <2>8 DEF Undisturbed
<1> QED BY <1>5, <1>6

(* A step of the attempt at work, which leaves the Run's row alone.        *)
LEMMA AttemptCalm ==
    ASSUME WellTyped, Undisturbed, NEW a \in Attempts, ~Gone(a), NEW k \in Locals(a), Set(a, k),
           Booked(a, k), k.phase \in Working \/ k.chain = <<>>,
           k.phase \notin {"new", "claimed"}, UNCHANGED run
    PROVE  /\ att'[a] = k /\ \A b \in Attempts : Calm(b)'
           /\ \A b \in Attempts \ {a} : att'[b] = att[b] /\ Gone(b)
<1>1. run.active \in Nat /\ run'.active = run.active /\ run.active >= run.active
  <2>1. run.active \in Nat
    BY AttemptsAre DEF WellTyped
  <2> QED BY <2>1
<1>2. /\ att'[a] = k
      /\ \A b \in Attempts \ {a} : Calm(b)' /\ att'[b] = att[b] /\ Gone(b)
  <2>1. \A b \in Attempts \ {a} : Gone(b)
    BY OneAtWork
  <2> QED BY <1>1, <2>1, OthersCalm
<1>3. run.status = "live" /\ a = run.active
  BY DEF Undisturbed, Calm
<1>4. Calm(a)'
  BY <1>1, <1>2, <1>3 DEF Calm, Gone, Working
<1> QED BY <1>2, <1>4

(* The windows after a step that writes nothing and claims nothing.        *)
LEMMA SameWindows ==
    ASSUME WellTyped, Undisturbed, NEW a \in Attempts, run.status = "live",
           NEW k, att'[a] = k, k.phase \notin {"new", "claimed"},
           k.phase \in Working => att[a].phase \in Working,
           \A b \in Attempts \ {a} : att'[b] = att[b],
           UNCHANGED <<run, log>>
    PROVE  (\A b \in Attempts : Windowed(b)') /\ Unrequested(log', 0)
  BY DEF Undisturbed, Windowed

LEMMA WorkUndisturbed ==
    ASSUME WellTyped, Undisturbed, NEW a \in Attempts, Stream(a) \/ (End(a) /\ ~Finish(a))
    PROVE  Undisturbed'
<1>1. att[a] \in Locals(a) /\ (att[a].phase \in {"aborting", "draining"} => att[a].end # "none")
  BY DEF WellTyped, Working
<1>2. /\ \E k : Works(a, att[a], k) /\ Set(a, k)
      /\ UNCHANGED <<run, log, failures>>
      /\ UNCHANGED reply \/ StageItem(a)
  BY <1>1, WorkIs DEF End, Ends
<1>3. PICK k : Works(a, att[a], k) /\ Set(a, k)
  BY <1>2
<1>4. att[a].phase \in Working /\ ~Gone(a)
  BY <1>3, GoneIs DEF Works
<1>5. Booked(a, att[a]) /\ run.status = "live"
  BY <1>4 DEF Undisturbed, Calm
<1>6. k \in Locals(a) /\ Booked(a, k) /\ k.phase \in Working /\ k.phase \notin {"new", "claimed"}
  BY <1>3, <1>5 DEF Works, Carries, Working
<1>7. /\ att'[a] = k /\ \A b \in Attempts : Calm(b)'
      /\ \A b \in Attempts \ {a} : att'[b] = att[b]
  BY <1>2, <1>3, <1>4, <1>6, AttemptCalm
<1>8. (\A b \in Attempts : Windowed(b)') /\ Unrequested(log', 0)
  BY <1>2, <1>4, <1>5, <1>6, <1>7, SameWindows
<1>9. ReplyOwned'
  <2>1. CASE UNCHANGED reply
    BY <2>1 DEF Undisturbed, ReplyOwned
  <2>2. CASE StageItem(a)
    <3>1. reply' \in [attempt : {a}, status : {"running"}, parts : Seq(Parts({a}))]
      BY <1>1, <2>2, StagedReplyType DEF WellTyped
    <3> QED BY <3>1 DEF ReplyOwned
  <2> QED BY <1>2, <2>1, <2>2
<1> QED BY <1>7, <1>8, <1>9 DEF Undisturbed

LEMMA FinishUndisturbed ==
    ASSUME WellTyped, Undisturbed, NEW a \in Attempts, Finish(a)
    PROVE  Undisturbed'
<1>1. /\ att[a] \in Locals(a) /\ att[a].phase = "settling" /\ ~Gone(a) /\ att[a].chain = <<>>
      /\ att[a].end # "none"
  BY DEF Finish, WellTyped, Gone, Working
<1>2. run.status = "live" /\ a = run.active /\ Fenced(a) /\ Booked(a, att[a])
  BY <1>1 DEF Undisturbed, Calm, Fenced
<1>3. PICK k, l : k = [att[a] EXCEPT !.phase = "ended"] /\ l = att[a]
  OBVIOUS
<1>4. Set(a, k)
  BY <1>3 DEF Finish
<1>5. Carries(a, att[a], k, "ended", att[a].end) /\ k.chain = <<>> /\ k.phase = "ended"
  <2>1. Carries(a, att[a], k, "ended", att[a].end)
    BY <1>1, <1>3, RephasedIs DEF Phases
  <2>2. k.chain = <<>>
    BY <1>1, <1>3 DEF Locals
  <2> QED BY <2>1, <2>2 DEF Carries
<1>6. ASSUME run'.active = run.active
      PROVE  /\ att'[a] = k /\ \A b \in Attempts : Calm(b)'
             /\ \A b \in Attempts \ {a} : att'[b] = att[b]
  <2>1. run.active \in Nat /\ run'.active \in Nat /\ run'.active >= run.active
    <3>1. run.active \in Nat
      BY AttemptsAre DEF WellTyped
    <3> QED BY <1>6, <3>1
  <2>2. /\ att'[a] = k
        /\ \A b \in Attempts \ {a} : Calm(b)' /\ att'[b] = att[b] /\ Gone(b)
    <3>1. \A b \in Attempts \ {a} : Gone(b)
      BY <1>1, OneAtWork
    <3> QED BY <1>4, <2>1, <3>1, OthersCalm
  <2>3. Calm(a)'
    BY <1>2, <1>5, <1>6, <2>1, <2>2 DEF Calm, Gone, Carries
  <2> QED BY <2>2, <2>3
<1>7. run \in [status : RunStatuses, active : 0..MaxAttempts]
  BY DEF WellTyped
<1>8. CASE l.failed
  <2>1. SettleFromLog("failed")
    BY <1>2, <1>3, <1>8 DEF Finish
  <2>2. run'.active = run.active /\ run'.status # "live" /\ reply' = RebuiltReply("failed")
    BY <1>7, <2>1 DEF SettleFromLog
  <2>3. ReplyOwned'
    BY <1>2, <2>2, RebuiltReplyOwned
  <2> QED BY <1>6, <2>2, <2>3 DEF Undisturbed
<1>9. CASE ~l.failed /\ l.end = "completed" /\ Rebuild(log).open # {}
  <2>1. run' = run /\ log' = log /\ reply' = LiveReply(a)
    BY <1>2, <1>3, <1>9 DEF Finish
  <2>2. /\ att'[a] = k /\ \A b \in Attempts : Calm(b)'
        /\ \A b \in Attempts \ {a} : att'[b] = att[b]
    BY <1>6, <2>1
  <2>3. (\A b \in Attempts : Windowed(b)') /\ Unrequested(log', 0)
    BY <1>2, <1>5, <2>1, <2>2, SameWindows DEF Working
  <2>4. ReplyOwned'
    BY <1>1, <2>1, LiveReplyOwned
  <2> QED BY <2>2, <2>3, <2>4 DEF Undisturbed
<1>10. CASE ~l.failed /\ ~(l.end = "completed" /\ Rebuild(log).open # {})
  <2>1. run' = [run EXCEPT !.status = l.end] /\ reply' = LiveReply(a)
    BY <1>2, <1>3, <1>10 DEF Finish
  <2>2. run'.active = run.active /\ run'.status # "live"
    <3>1. l.end # "live"
      BY <1>1, <1>3, LocalFields
    <3> QED BY <1>7, <2>1, <3>1
  <2>3. ReplyOwned'
    BY <1>1, <2>1, LiveReplyOwned
  <2> QED BY <1>6, <2>2, <2>3 DEF Undisturbed
<1> QED BY <1>8, <1>9, <1>10

LEMMA PersistUndisturbed ==
    ASSUME WellTyped, Undisturbed, NEW a \in Attempts, Persist(a) \/ PersistFails(a)
    PROVE  Undisturbed'
<1>1. att[a] \in Locals(a) /\ att[a].chain # <<>>
  BY DEF WellTyped, Persist, PersistFails
<1>2. ~Gone(a) /\ att[a].phase \in Working
  <2>1. ~Gone(a)
    BY <1>1 DEF Undisturbed, Calm
  <2>2. att[a].phase # "claimed"
    <3>1. [FreshAttempt EXCEPT !.phase = "claimed"].chain = <<>>
      BY DEF FreshAttempt
    <3> QED BY <1>1, <3>1 DEF Undisturbed, Calm
  <2> QED BY <2>1, <2>2, GoneIs
<1>3. run.status = "live" /\ a = run.active /\ Booked(a, att[a])
  BY <1>2 DEF Undisturbed, Calm
<1>0. PICK failed \in BOOLEAN : \E k : WrittenOff(a, att[a], failed, k) /\ Set(a, k)
  <2>1. TRUE \in BOOLEAN /\ att[a].failed \in BOOLEAN
    BY <1>1, LocalFields
  <2>2. CASE Persist(a)
    BY <1>1, <2>1, <2>2, WrittenIs DEF Persist
  <2>3. CASE PersistFails(a)
    BY <1>1, <2>1, <2>3, WrittenIs DEF PersistFails
  <2> QED BY <2>2, <2>3
<1>4. PICK k : WrittenOff(a, att[a], failed, k) /\ Set(a, k)
  BY <1>0
<1>5. k \in Locals(a) /\ Booked(a, k) /\ k.phase \in Working /\ k.phase \notin {"new", "claimed"}
  <2>1. Booked(a, k)
    BY <1>1, <1>3, <1>4, WrittenKeeps
  <2> QED BY <1>2, <1>4, <2>1 DEF WrittenOff, Working
<1>6. UNCHANGED <<run, reply>>
  BY DEF Persist, PersistFails
<1>7. /\ att'[a] = k /\ \A b \in Attempts : Calm(b)'
      /\ \A b \in Attempts \ {a} : att'[b] = att[b]
  BY <1>2, <1>4, <1>5, <1>6, AttemptCalm
<1>8. (\A b \in Attempts : Windowed(b)') /\ Unrequested(log', 0)
  <2>1. CASE PersistFails(a)
    <3>1. log' = log
      BY <2>1 DEF PersistFails
    <3> QED BY <1>2, <1>3, <1>5, <1>6, <1>7, <3>1, SameWindows
  <2>2. CASE Persist(a)
    <3>1. PICK e : e = Head(att[a].chain)
      OBVIOUS
    <3>2. e \in StreamEvents({a}) /\ log' = Append(log, e)
      <4>1. att[a].chain \in Seq(StreamEvents({a}))
        BY <1>1, LocalFields
      <4>2. Head(att[a].chain) \in StreamEvents({a})
        BY <1>1, <4>1
      <4> QED BY <2>2, <3>1, <4>2 DEF Persist
    <3>3. e \in StreamEvents(Attempts)
      <4>1. StreamEvents({a}) \subseteq StreamEvents(Attempts)
        BY OneOfMany
      <4> QED BY <3>2, <4>1
    <3>4. log \in Seq(Events(Attempts))
      BY DEF WellTyped
    <3>5. ASSUME NEW b \in Attempts PROVE Windowed(b)'
      <4>1. Windowed(b)
        BY <1>3 DEF Undisturbed
      <4>2. /\ AttemptWindow(log', b) = IF Open(log, b) THEN Append(AttemptWindow(log, b), e)
                                        ELSE AttemptWindow(log, b)
            /\ Open(log', b) <=> Open(log, b)
            /\ Unrequested(log', b) <=> Unrequested(log, b)
        BY <3>2, <3>3, <3>4, StreamedWindow
      <4>3. AttemptWindow(log', b) \in Seq(Events({b}))
        <5>1. CASE ~Open(log, b)
          BY <4>1, <4>2, <5>1 DEF Windowed
        <5>2. CASE Open(log, b)
          <6>1. b = a
            BY <1>3, <4>1, <5>2 DEF Windowed
          <6>2. e \in Events({b})
            BY <3>2, <6>1 DEF Events
          <6>3. AttemptWindow(log, b) \in Seq(Events({b}))
            BY <4>1 DEF Windowed
          <6> QED BY <4>2, <5>2, <6>2, <6>3
        <5> QED BY <5>1, <5>2
      <4>4. (att'[b].phase \in Working => att[b].phase \in Working)
            /\ (att'[b].phase \in {"new", "claimed"} => att[b].phase \in {"new", "claimed"})
        BY <1>2, <1>5, <1>7
      <4> QED BY <1>6, <4>1, <4>2, <4>3, <4>4 DEF Windowed
    <3>6. Unrequested(log', 0)
      <4>1. Unrequested(log, 0)
        BY <1>3 DEF Undisturbed
      <4> QED BY <3>2, <3>3, <3>4, <4>1, StreamedWindow
    <3> QED BY <3>5, <3>6
  <2> QED BY <2>1, <2>2
<1>9. ReplyOwned'
  BY <1>6 DEF Undisturbed, ReplyOwned
<1> QED BY <1>7, <1>8, <1>9 DEF Undisturbed

LEMMA CrashUndisturbed ==
    ASSUME WellTyped, Undisturbed, NEW a \in Attempts, Crash(a)
    PROVE  Undisturbed'
<1>1. PICK k : k = [FreshAttempt EXCEPT !.phase = "dead"]
  OBVIOUS
<1>2. k \in Locals(a) /\ Booked(a, k) /\ k.phase = "dead" /\ k.chain = <<>>
  <2>1. k \in Locals(a) /\ Booked(a, k)
    BY <1>1, FreshIs DEF Phases
  <2> QED BY <1>1, <2>1 DEF FreshAttempt
<1>3. ~Gone(a) /\ Set(a, k) /\ UNCHANGED <<run, log, reply>>
  BY <1>1 DEF Crash, storeVars
<1>4. run.status = "live"
  BY <1>3 DEF Undisturbed, Calm
<1>5. /\ att'[a] = k /\ \A b \in Attempts : Calm(b)'
      /\ \A b \in Attempts \ {a} : att'[b] = att[b]
  BY <1>2, <1>3, AttemptCalm
<1>6. (\A b \in Attempts : Windowed(b)') /\ Unrequested(log', 0)
  BY <1>2, <1>3, <1>4, <1>5, SameWindows DEF Working
<1>7. ReplyOwned'
  BY <1>3 DEF Undisturbed, ReplyOwned
<1> QED BY <1>5, <1>6, <1>7 DEF Undisturbed

LEMMA OutsideUndisturbed ==
    ASSUME WellTyped, Undisturbed, ~MayOverlap, NEW end \in {"failed", "expired"},
           SettleOutside(end)
    PROVE  Undisturbed'
<1>1. /\ run.status = "live" /\ \A b \in Attempts : Gone(b)
      /\ run' = [run EXCEPT !.status = end] /\ reply' = RebuiltReply(end) /\ att' = att
  BY DEF SettleOutside, SettleFromLog, Quiet
<1>2. run'.active = run.active /\ run'.status # "live"
  BY <1>1 DEF WellTyped
<1>3. ASSUME NEW b \in Attempts PROVE Calm(b)'
  BY <1>1, <1>2 DEF Undisturbed, Calm, Gone
<1>4. ReplyOwned'
  BY <1>1, RebuiltReplyOwned
<1> QED BY <1>2, <1>3, <1>4 DEF Undisturbed

LEMMA UndisturbedInit == Init => Undisturbed
<1> SUFFICES ASSUME Init PROVE Undisturbed
  OBVIOUS
<1>1. /\ run = [status |-> "live", active |-> 0] /\ log = <<>> /\ reply = NoReply
      /\ \A a \in Attempts : att[a] = FreshAttempt
  BY DEF Init
<1>2. log \in Seq(Events(Attempts)) /\ Len(log) = 0 /\ run.active = 0
  BY <1>1
<1>3. ASSUME NEW a PROVE Unrequested(log, a) /\ ~Open(log, a) /\ AttemptWindow(log, a) = <<>>
  <2>1. Unrequested(log, a) /\ ~Open(log, a)
    BY <1>2 DEF Unrequested, Open
  <2> QED BY <1>2, <2>1, WindowUnrequested
<1>4. ASSUME NEW a \in Attempts PROVE Calm(a) /\ Windowed(a)
  <2>1. att[a] = [FreshAttempt EXCEPT !.phase = "new"]
    BY <1>1, FreshUnclaimed
  <2>2. att[a].phase = "new" /\ att[a].chain = <<>>
    BY <1>1 DEF FreshAttempt
  <2>3. Booked(a, att[a])
    BY <2>1, FreshIs DEF Phases
  <2>4. <<>> \in Seq(Events({a}))
    OBVIOUS
  <2> QED BY <1>2, <1>3, <2>1, <2>2, <2>3, <2>4 DEF Calm, Windowed, Gone, Working
<1>5. ReplyOwned
  <2>1. <<>> \in Seq(Parts({0}))
    OBVIOUS
  <2> QED BY <1>1, <2>1 DEF ReplyOwned, NoReply
<1> QED BY <1>3, <1>4, <1>5 DEF Undisturbed

LEMMA UndisturbedStep ==
    ASSUME WellTyped, Undisturbed, ~MayOverlap, [Next]_vars
    PROVE  Undisturbed'
<1>1. ASSUME UNCHANGED vars PROVE Undisturbed'
  BY <1>1 DEF vars, Undisturbed, Calm, Windowed, ReplyOwned, Gone, Booked, BookedAt
<1>2. ASSUME NEW a \in Attempts, End(a) PROVE Undisturbed'
  BY <1>2, FinishUndisturbed, WorkUndisturbed
<1>3. ASSUME NEW a \in Attempts,
             \/ Claim(a) \/ Dispatch(a) \/ Stream(a)
             \/ Persist(a) \/ PersistFails(a) \/ Crash(a)
      PROVE  Undisturbed'
  BY <1>3, ClaimUndisturbed, DispatchUndisturbed, WorkUndisturbed, PersistUndisturbed,
     CrashUndisturbed
<1> QED BY <1>1, <1>2, <1>3, OutsideUndisturbed DEF Next

(* Where a stalled attempt does not live on after the next claim, the      *)
(* events of one attempt never merge into the reply of another: a window   *)
(* of the log holds its attempt's events only, whatever crashes, fails or  *)
(* settles the Run.                                                        *)
THEOREM ReplyNeverMixesAttempts ==
    ASSUME ~MayOverlap
    PROVE  Spec => [](Undisturbed /\ ReplyIsOneAttempt)
<1>1. WellTyped /\ Undisturbed => ReplyIsOneAttempt
  <2> SUFFICES ASSUME WellTyped, Undisturbed, NEW p \in Range(reply.parts)
               PROVE  PartFrom(p, reply.attempt)
    BY DEF ReplyIsOneAttempt
  <2>1. p \in Parts({reply.attempt})
    <3>1. reply.parts \in Seq(Parts({reply.attempt}))
      BY DEF Undisturbed, ReplyOwned
    <3> QED BY <3>1 DEF Range
  <2>2. CASE p.kind = "tool"
    <3>1. p.call \in CallsOf({reply.attempt})
      BY <2>1, <2>2, PartKinds DEF ToolParts
    <3> QED BY <2>2, <3>1 DEF PartFrom, CallsOf
  <2>3. CASE p.kind \in {"text", "reasoning"}
    <3>1. p.toks \in Seq(TokensOf({reply.attempt}))
      BY <2>1, <2>3, PartKinds DEF CharParts
    <3>2. \A t \in Range(p.toks) : t \in TokensOf({reply.attempt})
      BY <3>1 DEF Range
    <3> QED BY <2>3, <3>2 DEF PartFrom, TokensOf
  <2>4. CASE p.kind \notin {"tool", "text", "reasoning"}
    BY <2>4 DEF PartFrom
  <2> QED BY <2>2, <2>3, <2>4
<1>2. Init => WellTyped /\ Undisturbed
  BY WellTypedInit, UndisturbedInit
<1>3. WellTyped /\ Undisturbed /\ [Next]_vars => (WellTyped /\ Undisturbed)'
  BY WellTypedStep, UndisturbedStep
<1> QED BY <1>1, <1>2, <1>3, PTL DEF Spec

-----------------------------------------------------------------------------
(* What the rebuilt reply holds of the calls it has seen: a place for each *)
(* open one, an outcome for each other one.                                *)

Consistent(r) ==
    /\ r.open \subseteq r.seen
    /\ r.open \subseteq PendingIn(r.coll.parts)
    /\ r.coll.settled = r.seen \ r.open
    /\ r.seen \ r.open \subseteq CallsIn(r.coll.parts)

OpenAfter(r, e) ==
    IF e.type = "tool.requested" /\ e.call \notin r.seen THEN r.open \cup {e.call}
    ELSE IF e.type = "tool.completed" THEN r.open \ {e.call} ELSE r.open
SeenAfter(r, e) == IF e.type = "tool.requested" THEN r.seen \cup {e.call} ELSE r.seen

Applied(r, e, q) ==
    /\ q.open = OpenAfter(r, e) /\ q.seen = SeenAfter(r, e)
    /\ Consistent(r) => Consistent(q)

LEMMA ApplyEventBooks ==
    ASSUME NEW A, NEW r \in Rebuilders(A), NEW e \in Events(A) \cup Completions
    PROVE  Applied(r, e, ApplyEvent(r, e))
<1>0. /\ r.coll \in Collectors(A) /\ r.open \in SUBSET CallsOf(A)
      /\ r.seen \in SUBSET CallsOf(A)
  BY DEF Rebuilders
<1>1. ASSUME NEW coll, SameBooks(r.coll, coll),
             e.type \notin {"tool.requested", "tool.completed"}
      PROVE  Applied(r, e, [r EXCEPT !.coll = coll])
  <2>1. PICK q : q = [r EXCEPT !.coll = coll]
    OBVIOUS
  <2>2. q.coll = coll /\ q.open = r.open /\ q.seen = r.seen
    BY <2>1 DEF Rebuilders
  <2>3. q.open = OpenAfter(r, e) /\ q.seen = SeenAfter(r, e)
    BY <1>1, <2>2 DEF OpenAfter, SeenAfter
  <2>4. Consistent(r) => Consistent(q)
    BY <1>1, <2>2 DEF Consistent, SameBooks
  <2> QED BY <2>1, <2>3, <2>4 DEF Applied
<1>2. ASSUME e.type = "tool.requested", e.call \in CallsOf(A), e.step \in Nat
      PROVE  Applied(r, e, ApplyEvent(r, e))
  <2>1. CASE e.call \in r.seen
    <3>1. ApplyEvent(r, e) = r
      BY <1>2, <2>1, ApplyEventIs
    <3>2. r.open = OpenAfter(r, e) /\ r.seen = SeenAfter(r, e)
      BY <1>2, <2>1 DEF OpenAfter, SeenAfter
    <3> QED BY <3>1, <3>2 DEF Applied
  <2>2. CASE e.call \notin r.seen
    <3>1. PICK coll : coll = ReserveTool(r.coll, e.call, e.step)
      OBVIOUS
    <3>2. Reserved(r.coll, e.call, coll)
      BY <1>0, <1>2, <3>1, ReserveToolBooks
    <3>3. PICK q : q = [r EXCEPT !.coll = coll, !.open = r.open \cup {e.call},
                                 !.seen = r.seen \cup {e.call}]
      OBVIOUS
    <3>4. q.coll = coll /\ q.open = r.open \cup {e.call} /\ q.seen = r.seen \cup {e.call}
      BY <3>3 DEF Rebuilders
    <3>5. ApplyEvent(r, e) = q
      BY <1>2, <2>2, <3>1, <3>3, ApplyEventIs
    <3>6. q.open = OpenAfter(r, e) /\ q.seen = SeenAfter(r, e)
      BY <1>2, <2>2, <3>4 DEF OpenAfter, SeenAfter
    <3>7. Consistent(r) => Consistent(q)
      BY <2>2, <3>2, <3>4 DEF Consistent, Reserved
    <3> QED BY <3>5, <3>6, <3>7 DEF Applied
  <2> QED BY <2>1, <2>2
<1>3. ASSUME e.type = "tool.completed", e.result \in Results
      PROVE  Applied(r, e, ApplyEvent(r, e))
  <2>1. CASE e.call \notin r.open
    <3>1. ApplyEvent(r, e) = r
      BY <1>3, <2>1, ApplyEventIs
    <3>2. r.open = OpenAfter(r, e) /\ r.seen = SeenAfter(r, e)
      BY <1>3, <2>1 DEF OpenAfter, SeenAfter
    <3> QED BY <3>1, <3>2 DEF Applied
  <2>2. CASE e.call \in r.open
    <3>1. PICK coll : coll = SettleTool(r.coll, e.call, e.result)
      OBVIOUS
    <3>2. Consistent(r) => SettledIn(r.coll, e.call, coll)
      <4> SUFFICES ASSUME Consistent(r) PROVE SettledIn(r.coll, e.call, coll)
        OBVIOUS
      <4>1. e.call \in CallsOf(A) /\ e.call \notin r.coll.settled
        BY <1>0, <2>2 DEF Consistent
      <4> QED BY <1>0, <1>3, <3>1, <4>1, SettleToolBooks
    <3>3. PICK q : q = [r EXCEPT !.coll = coll, !.open = r.open \ {e.call}]
      OBVIOUS
    <3>4. q.coll = coll /\ q.open = r.open \ {e.call} /\ q.seen = r.seen
      BY <3>3 DEF Rebuilders
    <3>5. ApplyEvent(r, e) = q
      BY <1>3, <2>2, <3>1, <3>3, ApplyEventIs
    <3>6. q.open = OpenAfter(r, e) /\ q.seen = SeenAfter(r, e)
      BY <1>3, <3>4 DEF OpenAfter, SeenAfter
    <3>7. Consistent(r) => Consistent(q)
      BY <2>2, <3>2, <3>4 DEF Consistent, SettledIn
    <3> QED BY <3>5, <3>6, <3>7 DEF Applied
  <2> QED BY <2>1, <2>2
<1>4. ASSUME ApplyEvent(r, e) = r, e.type \notin {"tool.requested", "tool.completed"}
      PROVE  Applied(r, e, ApplyEvent(r, e))
  BY <1>4 DEF Applied, OpenAfter, SeenAfter
<1>5. CASE e \in StreamEvents(A)
  <2>1. /\ e.type \in StreamTypes /\ e.toks \in Seq(TokensOf(A)) /\ e.id \in Ids
        /\ e.step \in Nat
        /\ e.type \in CallTypes => e.call \in CallsOf(A)
        /\ e.type = "tool.completed" => e.result \in Results
    BY <1>5 DEF StreamEvents
  <2>2. CASE e.type = "model.delta"
    <3>1. PICK coll : coll = CollectText(r.coll, e.toks, e.id, e.step)
      OBVIOUS
    <3>2. SameBooks(r.coll, coll)
      BY <2>1, <1>0, <3>1, CollectTextBooks
    <3>3. ApplyEvent(r, e) = [r EXCEPT !.coll = coll]
      BY <2>2, <3>1, ApplyEventIs
    <3> QED BY <2>2, <3>2, <3>3, <1>1
  <2>3. CASE e.type = "reasoning.delta" /\ e.toks # <<>>
    <3>1. PICK coll : coll = CollectReasoning(r.coll, e.toks, e.id, e.step)
      OBVIOUS
    <3>2. SameBooks(r.coll, coll)
      BY <2>1, <1>0, <3>1, CollectReasoningBooks
    <3>3. ApplyEvent(r, e) = [r EXCEPT !.coll = coll]
      BY <2>3, <3>1, ApplyEventIs
    <3> QED BY <2>3, <3>2, <3>3, <1>1
  <2>4. CASE e.type = "reasoning.delta" /\ e.toks = <<>>
    <3>1. PICK coll : coll = CollectWithheld(r.coll, e.id, e.step)
      OBVIOUS
    <3>2. SameBooks(r.coll, coll)
      BY <2>1, <1>0, <3>1, CollectWithheldBooks
    <3>3. ApplyEvent(r, e) = [r EXCEPT !.coll = coll]
      BY <2>4, <3>1, ApplyEventIs
    <3> QED BY <2>4, <3>2, <3>3, <1>1
  <2>5. CASE e.type = "run.step_cap_reached"
    <3>1. PICK coll : coll = CollectPart(r.coll, CapNotice)
      OBVIOUS
    <3>2. CapNotice \in NoticeParts \cup ItemParts
      BY DEF CapNotice, NoticeParts
    <3>3. SameBooks(r.coll, coll)
      BY <1>0, <3>1, <3>2, CollectPartBooks
    <3>4. ApplyEvent(r, e) = [r EXCEPT !.coll = coll]
      BY <2>5, <3>1, ApplyEventIs
    <3> QED BY <2>5, <3>3, <3>4, <1>1
  <2>6. CASE e.type = "tool.requested"
    BY <2>1, <2>6, <1>2 DEF CallTypes
  <2>7. CASE e.type = "tool.completed"
    BY <2>1, <2>7, <1>3
  <2>8. CASE e.type = "tool.started"
    <3>1. ApplyEvent(r, e) = r
      BY <2>8, ApplyEventIs
    <3> QED BY <2>8, <3>1, <1>4
  <2> QED BY <2>1, <2>2, <2>3, <2>4, <2>5, <2>6, <2>7, <2>8 DEF StreamTypes, CallTypes
<1>6. CASE e \in Marks
  <2>1. e.type \in {"run.started", "run.terminal", "model.requested"}
    BY <1>6 DEF Marks
  <2>2. ApplyEvent(r, e) = r
    BY <2>1, ApplyEventIs
  <2> QED BY <2>1, <2>2, <1>4
<1>7. CASE e \in Completions
  <2>1. e.type = "tool.completed" /\ e.result \in Results
    BY <1>7 DEF Completions, StreamEvents
  <2> QED BY <2>1, <1>3
<1> QED BY <1>5, <1>6, <1>7 DEF Events

(* Every reply rebuilt from a log is consistent, and has seen the calls    *)
(* the log requests.                                                       *)
LEMMA RebuildConsistent ==
    ASSUME NEW A
    PROVE  \A s \in Seq(Events(A) \cup Completions) :
              Consistent(Rebuild(s)) /\ Rebuild(s).seen = RequestedIn(s)
<1> DEFINE T == Events(A) \cup Completions
           G == {s \in Seq(T) : Consistent(Rebuild(s)) /\ Rebuild(s).seen = RequestedIn(s)}
<1>1. <<>> \in G
  <2>1. Consistent(NothingRebuilt) /\ NothingRebuilt.seen = {}
    BY DEF NothingRebuilt, Consistent, EmptyCollector
  <2>2. <<>> \in Seq(T)
    OBVIOUS
  <2> QED BY <2>1, <2>2, RebuildNone, RequestedNone
<1>2. ASSUME NEW s \in Seq(T), NEW e \in T, s \in G PROVE Append(s, e) \in G
  <2>1. PICK t, r, q : t = Append(s, e) /\ r = Rebuild(s) /\ q = ApplyEvent(r, e)
    OBVIOUS
  <2>2. t \in Seq(T) /\ Rebuild(t) = q
    BY <2>1, RebuildAppend
  <2>3. Applied(r, e, q)
    BY <2>1, RebuildType, ApplyEventBooks
  <2>4. /\ e.type = "tool.requested" => RequestedIn(t) = RequestedIn(s) \cup {e.call}
        /\ e.type # "tool.requested" => RequestedIn(t) = RequestedIn(s)
    BY <2>1, RequestedAppend
  <2>5. Consistent(q) /\ q.seen = RequestedIn(t)
    BY <1>2, <2>1, <2>3, <2>4 DEF Applied, SeenAfter
  <2> QED BY <2>1, <2>2, <2>5
<1>3. \A s \in Seq(T) : s \in G
  <2> HIDE DEF G, T
  <2> QED BY <1>1, <1>2, EverySequence
<1> QED BY <1>3

LEMMA RebuildGrows ==
    ASSUME NEW A, NEW s \in Seq(Events(A) \cup Completions), NEW e \in Events(A) \cup Completions
    PROVE  /\ Rebuild(Append(s, e)).open = OpenAfter(Rebuild(s), e)
           /\ Rebuild(Append(s, e)).seen = SeenAfter(Rebuild(s), e)
<1>1. Rebuild(Append(s, e)) = ApplyEvent(Rebuild(s), e)
  BY RebuildAppend
<1>2. Applied(Rebuild(s), e, ApplyEvent(Rebuild(s), e))
  BY RebuildType, ApplyEventBooks
<1> QED BY <1>1, <1>2 DEF Applied

(* Completions close their calls and open none.                            *)
ClosedBy(s, t) ==
    /\ \A call : call \in Rebuild(s \o t).open <=>
          call \in Rebuild(s).open /\ \A i \in 1..Len(t) : t[i].call # call
    /\ Rebuild(s \o t).seen = Rebuild(s).seen

LEMMA CompletionsClose ==
    ASSUME NEW A, NEW s \in Seq(Events(A) \cup Completions)
    PROVE  \A t \in Seq(Completions) : ClosedBy(s, t)
<1> DEFINE T == Events(A) \cup Completions
           G == {t \in Seq(Completions) : ClosedBy(s, t)}
<1>1. <<>> \in G
  <2>1. s \o <<>> = s /\ Len(<<>>) = 0 /\ <<>> \in Seq(Completions)
    OBVIOUS
  <2> QED BY <2>1 DEF ClosedBy
<1>2. ASSUME NEW t \in Seq(Completions), NEW e \in Completions, t \in G
      PROVE  Append(t, e) \in G
  <2>1. PICK u, v : u = Append(t, e) /\ v = s \o t
    OBVIOUS
  <2>2. v \in Seq(T) /\ s \o u = Append(v, e) /\ u \in Seq(Completions)
    <3>1. t \in Seq(T)
      OBVIOUS
    <3>2. v \in Seq(T)
      BY <2>1, <3>1
    <3>3. s \o u = Append(v, e)
      BY <2>1, <3>1
    <3> QED BY <2>1, <3>2, <3>3
  <2>3. e.type = "tool.completed"
    BY DEF Completions
  <2>4. /\ Rebuild(s \o u).open = Rebuild(v).open \ {e.call}
        /\ Rebuild(s \o u).seen = Rebuild(v).seen
    <3>1. e \in T
      OBVIOUS
    <3>2. /\ Rebuild(Append(v, e)).open = OpenAfter(Rebuild(v), e)
          /\ Rebuild(Append(v, e)).seen = SeenAfter(Rebuild(v), e)
      BY <2>2, <3>1, RebuildGrows
    <3> QED BY <2>2, <2>3, <3>2 DEF OpenAfter, SeenAfter
  <2>5. \A call : (\A i \in 1..Len(u) : u[i].call # call) <=>
                    (\A i \in 1..Len(t) : t[i].call # call) /\ e.call # call
    <3>1. PICK n : n = Len(t)
      OBVIOUS
    <3>2. n \in Nat /\ Len(u) = n + 1 /\ u[n + 1] = e /\ \A i \in 1..n : u[i] = t[i]
      BY <2>1, <3>1, AppendIs
    <3>3. \A i : i \in 1..(n + 1) <=> i \in 1..n \/ i = n + 1
      BY <3>2
    <3> QED BY <3>1, <3>2, <3>3
  <2>6. ClosedBy(s, u)
    BY <1>2, <2>1, <2>4, <2>5 DEF ClosedBy
  <2> QED BY <2>1, <2>2, <2>6
<1>3. \A t \in Seq(Completions) : t \in G
  <2> HIDE DEF G
  <2> QED BY <1>1, <1>2, EverySequence
<1> QED BY <1>3

(* The calls of a list of parts go with its tool parts, whose order does   *)
(* not matter.                                                             *)
LEMMA CallsMonotone ==
    ASSUME NEW T, NEW s \in Seq(T), NEW t \in Seq(T),
           \A p \in Range(s) : p.kind = "tool" => p \in Range(t)
    PROVE  CallsIn(s) \subseteq CallsIn(t)
<1>1. ASSUME NEW i \in DOMAIN s, s[i].kind = "tool"
      PROVE  \E j \in DOMAIN t : t[j] = s[i]
  BY <1>1 DEF Range
<1> QED BY <1>1 DEF CallsIn

LEMMA ShownCalls ==
    ASSUME NEW A, NEW c \in Collectors(A)
    PROVE  CallsIn(c.parts) \subseteq CallsIn(PartsOf(c))
<1>1. c.parts \in Seq(Parts(A))
  BY DEF Collectors
<1>2. PICK u : u = Without(c.parts, {"pending-tool"})
  OBVIOUS
<1>3. /\ u \in Seq(Parts(A))
      /\ Range(u) = {p \in Range(c.parts) : p.kind \notin {"pending-tool"}}
  BY <1>1, <1>2, WithoutKeeps
<1>4. CallsIn(c.parts) \subseteq CallsIn(u)
  BY <1>1, <1>3, CallsMonotone
<1> QED BY <1>2, <1>4 DEF PartsOf

(* The items stored on a reply take no call from what is rebuilt.          *)
LEMMA PlacedCalls ==
    ASSUME NEW T, NEW rebuilt \in Seq(T), NEW snapshot \in Seq(T)
    PROVE  CallsIn(rebuilt) \subseteq CallsIn(PlaceStoredItems(rebuilt, snapshot))
<1>1. PICK u : u = PlaceStoredItems(rebuilt, snapshot)
  OBVIOUS
<1>2. u \in Seq(T) /\ Range(rebuilt) \subseteq Range(u)
  BY <1>1, PlaceStoredRange
<1>3. CallsIn(rebuilt) \subseteq CallsIn(u)
  BY <1>2, CallsMonotone
<1> QED BY <1>1, <1>3

(* The settled log leaves no call open.                                    *)
LEMMA SettledLogClosed ==
    ASSUME NEW s \in Seq(Events(Attempts))
    PROVE  Rebuild((s \o LogCompletions(s)) \o <<Event("run.terminal")>>).open = {}
<1>1. PICK t, u, e : t = LogCompletions(s) /\ u = s \o t /\ e = Event("run.terminal")
  OBVIOUS
<1>2. t \in Seq(Completions)
      /\ \A call : call \in Rebuild(s).open <=> \E i \in 1..Len(t) : t[i].call = call
  BY <1>1, LogCompletionsAre
<1>3. s \in Seq(Events(Attempts) \cup Completions)
  OBVIOUS
<1>4. Rebuild(u).open = {}
  <2>1. ClosedBy(s, t)
    BY <1>2, <1>3, CompletionsClose
  <2>2. \A call : call \notin Rebuild(u).open
    <3> SUFFICES ASSUME NEW call \in Rebuild(u).open PROVE FALSE
      OBVIOUS
    <3>1. call \in Rebuild(s).open /\ \A i \in 1..Len(t) : t[i].call # call
      BY <1>1, <2>1 DEF ClosedBy
    <3>2. PICK i \in 1..Len(t) : t[i].call = call
      BY <1>2, <3>1
    <3> QED BY <3>1, <3>2
  <2> QED BY <2>2
<1>5. e \in Events(Attempts) \cup Completions /\ u \in Seq(Events(Attempts) \cup Completions)
  BY <1>1, <1>2, <1>3, MarksAre DEF Events
<1>6. Rebuild(Append(u, e)).open = OpenAfter(Rebuild(u), e)
  BY <1>5, RebuildGrows
<1>7. OpenAfter(Rebuild(u), e) = Rebuild(u).open
  <2>1. e.type = "run.terminal"
    BY <1>1 DEF Event
  <2> QED BY <2>1 DEF OpenAfter
<1>8. u \o <<e>> = Append(u, e)
  BY <1>5
<1> QED BY <1>1, <1>4, <1>6, <1>7, <1>8

(* Nor does the window of an attempt, once the completions of the whole    *)
(* log go into it.                                                         *)
LEMMA SettledWindowClosed ==
    ASSUME NEW s \in Seq(Events(Attempts)), NEW A, NEW w \in Seq(Events(A)),
           Rebuild(w).open \subseteq Rebuild(s).open
    PROVE  RequestedIn(w) \subseteq CallsIn(RebuiltParts(w \o LogCompletions(s)))
<1>1. PICK t, u : t = LogCompletions(s) /\ u = w \o t
  OBVIOUS
<1>2. t \in Seq(Completions)
      /\ \A call : call \in Rebuild(s).open <=> \E i \in 1..Len(t) : t[i].call = call
  BY <1>1, LogCompletionsAre
<1>3. w \in Seq(Events(A) \cup Completions) /\ u \in Seq(Events(A) \cup Completions)
  BY <1>1, <1>2
<1>4. Rebuild(u).open = {} /\ Rebuild(u).seen = Rebuild(w).seen
  <2>1. ClosedBy(w, t)
    BY <1>2, <1>3, CompletionsClose
  <2>2. \A call : call \notin Rebuild(u).open
    <3> SUFFICES ASSUME NEW call \in Rebuild(u).open PROVE FALSE
      OBVIOUS
    <3>1. call \in Rebuild(w).open /\ \A i \in 1..Len(t) : t[i].call # call
      BY <1>1, <2>1 DEF ClosedBy
    <3>2. PICK i \in 1..Len(t) : t[i].call = call
      BY <1>2, <3>1
    <3> QED BY <3>1, <3>2
  <2> QED BY <1>1, <2>1, <2>2 DEF ClosedBy
<1>5. Consistent(Rebuild(u)) /\ Rebuild(w).seen = RequestedIn(w)
  BY <1>3, RebuildConsistent
<1>6. RequestedIn(w) \subseteq CallsIn(Rebuild(u).coll.parts)
  BY <1>4, <1>5 DEF Consistent
<1>7. CallsIn(Rebuild(u).coll.parts) \subseteq CallsIn(PartsOf(Rebuild(u).coll))
  BY <1>3, RebuildType, ShownCalls DEF Rebuilders
<1> QED BY <1>1, <1>6, <1>7 DEF RebuiltParts

(* A settlement adds no request to any window.                             *)
LEMMA SettledRequests ==
    ASSUME NEW s \in Seq(Events(Attempts)), NEW b
    PROVE  RequestedIn(AttemptWindow((s \o LogCompletions(s)) \o <<Event("run.terminal")>>, b))
             = RequestedIn(AttemptWindow(s, b))
<1> DEFINE E == Events(Attempts)
           Same(t) == RequestedIn(AttemptWindow(t, b)) = RequestedIn(AttemptWindow(s, b))
           G == {t \in Seq(Completions) : Same(s \o t)}
<1>0. Completions \subseteq StreamEvents(Attempts) /\ StreamEvents(Attempts) \subseteq E
  BY DEF Completions, Events
<1>1. ASSUME NEW t \in Seq(E), NEW e \in E, e.type # "tool.requested", ~Claims(e),
             ~Requests(e, b), Same(t)
      PROVE  Same(Append(t, e))
  <2>1. CASE Open(t, b)
    <3>1. AttemptWindow(Append(t, e), b) = Append(AttemptWindow(t, b), e)
      BY <1>1, <2>1, WindowGrows
    <3>2. AttemptWindow(t, b) \in Seq(E)
      BY WindowType
    <3> QED BY <1>1, <3>1, <3>2, RequestedAppend
  <2>2. CASE ~Open(t, b)
    BY <1>1, <2>2, WindowStays
  <2> QED BY <2>1, <2>2
<1>2. <<>> \in G
  <2>1. s \o <<>> = s /\ <<>> \in Seq(Completions)
    OBVIOUS
  <2> QED BY <2>1
<1>3. ASSUME NEW t \in Seq(Completions), NEW e \in Completions, t \in G
      PROVE  Append(t, e) \in G
  <2>1. PICK u, v : u = Append(t, e) /\ v = s \o t
    OBVIOUS
  <2>2. t \in Seq(E) /\ v \in Seq(E) /\ s \o u = Append(v, e) /\ u \in Seq(Completions)
    <3>1. t \in Seq(E)
      BY <1>0
    <3>2. v \in Seq(E)
      BY <2>1, <3>1
    <3>3. s \o u = Append(v, e)
      BY <1>0, <2>1, <3>1
    <3> QED BY <2>1, <3>1, <3>2, <3>3
  <2>3. e \in E /\ e.type # "tool.requested" /\ ~Claims(e) /\ ~Requests(e, b)
    <3>1. e \in StreamEvents(Attempts) /\ e.type = "tool.completed"
      BY DEF Completions
    <3> QED BY <1>0, <3>1, StreamedIs
  <2>4. Same(v)
    BY <1>3, <2>1
  <2>5. Same(Append(v, e))
    <3> HIDE DEF Same, E
    <3> QED BY <1>1, <2>2, <2>3, <2>4
  <2> QED BY <2>1, <2>2, <2>5
<1>4. \A t \in Seq(Completions) : t \in G
  <2> HIDE DEF G
  <2> QED BY <1>2, <1>3, EverySequence
<1>5. PICK u, e : u = s \o LogCompletions(s) /\ e = Event("run.terminal")
  OBVIOUS
<1>6. Same(u) /\ u \in Seq(E)
  <2>1. LogCompletions(s) \in Seq(Completions) /\ LogCompletions(s) \in Seq(E)
    BY <1>0, LogCompletionsAre
  <2> QED BY <1>4, <1>5, <2>1
<1>7. e \in E /\ e.type # "tool.requested" /\ ~Claims(e) /\ ~Requests(e, b)
  <2>1. e.type = "run.terminal"
    BY <1>5 DEF Event
  <2> QED BY <1>5, <2>1, MarksAre DEF Events
<1>8. Same(Append(u, e))
  <2> HIDE DEF Same, E
  <2> QED BY <1>1, <1>6, <1>7
<1>9. u \o <<e>> = Append(u, e)
  BY <1>6, <1>7
<1> QED BY <1>5, <1>8, <1>9

-----------------------------------------------------------------------------
(* What the log knows of the calls of an attempt, and what a turn that     *)
(* settles without an answer has closed.                                   *)

Agrees(s, a) ==
    /\ Rebuild(AttemptWindow(s, a)).open \subseteq Rebuild(s).open
    /\ Rebuild(s).seen \cap CallsOf({a}) \subseteq Rebuild(AttemptWindow(s, a)).seen

Known(a) ==
    /\ att[a].phase \in Working =>
          \A c \in Calls : att[a].calls[c] = "none" =>
                              <<a, c>> \notin RequestedIn(AttemptWindow(log, a))
    /\ att[a].phase = "settling" /\ ~att[a].failed /\ att[a].end # "completed" =>
          NothingOpen(att[a])

Accounted ==
    run.status = "live" =>
      /\ reply.status \in {"none", "running", "completed"}
      /\ \A a \in Attempts : Agrees(log, a) /\ Known(a)

LEMMA MarkRebuilt ==
    ASSUME NEW s \in Seq(Events(Attempts)), NEW e \in Marks
    PROVE  /\ Rebuild(Append(s, e)).open = Rebuild(s).open
           /\ Rebuild(Append(s, e)).seen = Rebuild(s).seen
<1>1. e \in Events(Attempts) \cup Completions /\ s \in Seq(Events(Attempts) \cup Completions)
  BY DEF Events
<1>2. /\ Rebuild(Append(s, e)).open = OpenAfter(Rebuild(s), e)
      /\ Rebuild(Append(s, e)).seen = SeenAfter(Rebuild(s), e)
  BY <1>1, RebuildGrows
<1>3. e.type \notin {"tool.requested", "tool.completed"}
  BY DEF Marks
<1> QED BY <1>2, <1>3 DEF OpenAfter, SeenAfter

LEMMA MarkAgrees ==
    ASSUME NEW s \in Seq(Events(Attempts)), NEW e \in Marks, NEW b,
           AttemptWindow(Append(s, e), b) = AttemptWindow(s, b), Agrees(s, b)
    PROVE  Agrees(Append(s, e), b)
  BY MarkRebuilt DEF Agrees

(* The window of a call's attempt gains and loses the call with the log.   *)
LEMMA StreamedAgrees ==
    ASSUME NEW s \in Seq(Events(Attempts)), NEW a \in Attempts, NEW e \in StreamEvents({a}),
           NEW b \in Attempts, Open(s, b) <=> b = a,
           AttemptWindow(s, b) \in Seq(Events({b})), Agrees(s, b)
    PROVE  /\ Agrees(Append(s, e), b)
           /\ b = a => AttemptWindow(Append(s, e), b) = Append(AttemptWindow(s, b), e)
           /\ b # a => AttemptWindow(Append(s, e), b) = AttemptWindow(s, b)
<1>1. PICK t, r, w, q, v : /\ t = Append(s, e) /\ r = Rebuild(s) /\ w = Rebuild(AttemptWindow(s, b))
                           /\ q = Rebuild(t) /\ v = Rebuild(AttemptWindow(t, b))
  OBVIOUS
<1>2. e \in StreamEvents(Attempts)
  <2>1. StreamEvents({a}) \subseteq StreamEvents(Attempts)
    BY OneOfMany
  <2> QED BY <2>1
<1>3. /\ b = a => AttemptWindow(t, b) = Append(AttemptWindow(s, b), e)
      /\ b # a => AttemptWindow(t, b) = AttemptWindow(s, b)
  BY <1>1, <1>2, StreamedWindow
<1>4. q.open = OpenAfter(r, e) /\ q.seen = SeenAfter(r, e)
  <2>1. e \in Events(Attempts) \cup Completions /\ s \in Seq(Events(Attempts) \cup Completions)
    BY <1>2 DEF Events
  <2> QED BY <1>1, <2>1, RebuildGrows
<1>5. w.open \subseteq r.open /\ r.seen \cap CallsOf({b}) \subseteq w.seen
  BY <1>1 DEF Agrees
<1>6. AttemptWindow(s, b) \in Seq(Events({b}) \cup Completions)
  <2>1. Events({b}) \subseteq Events({b}) \cup Completions
    OBVIOUS
  <2>2. Seq(Events({b})) \subseteq Seq(Events({b}) \cup Completions)
    BY <2>1, SeqMonotone
  <2> QED BY <2>2
<1>7. e.type \in {"tool.requested", "tool.completed"} => e.call \in CallsOf({a})
  BY DEF StreamEvents, CallTypes
<1>8. r.open \subseteq r.seen
  <2>1. s \in Seq(Events(Attempts) \cup Completions)
    OBVIOUS
  <2> QED BY <1>1, <2>1, RebuildConsistent DEF Consistent
<1>9. v.open \subseteq q.open /\ q.seen \cap CallsOf({b}) \subseteq v.seen
  <2>1. CASE b = a
    <3>1. v.open = OpenAfter(w, e) /\ v.seen = SeenAfter(w, e)
      <4>1. e \in Events({b}) \cup Completions
        BY <2>1 DEF Events
      <4>2. ASSUME NEW u, u \in Seq(Events({b}) \cup Completions)
            PROVE  /\ Rebuild(Append(u, e)).open = OpenAfter(Rebuild(u), e)
                   /\ Rebuild(Append(u, e)).seen = SeenAfter(Rebuild(u), e)
        BY <4>1, <4>2, RebuildGrows
      <4>3. AttemptWindow(t, b) = Append(AttemptWindow(s, b), e)
        BY <1>3, <2>1
      <4> QED BY <1>1, <1>6, <4>2, <4>3
    <3>2. CASE e.type = "tool.requested"
      <4>1. e.call \notin w.seen => e.call \notin r.seen
        BY <1>5, <1>7, <2>1, <3>2
      <4> QED BY <1>4, <1>5, <3>1, <3>2, <4>1 DEF OpenAfter, SeenAfter
    <3>3. CASE e.type # "tool.requested"
      BY <1>4, <1>5, <3>1, <3>3 DEF OpenAfter, SeenAfter
    <3> QED BY <3>2, <3>3
  <2>2. CASE b # a
    <3>1. v = w
      BY <1>1, <1>3, <2>2
    <3>2. w.open \subseteq CallsOf({b})
      BY <1>1, <1>6, RebuildType DEF Rebuilders
    <3>3. CallsOf({a}) \cap CallsOf({b}) = {}
      BY <2>2 DEF CallsOf
    <3>4. CASE e.type = "tool.requested"
      BY <1>4, <1>5, <1>7, <3>1, <3>3, <3>4 DEF OpenAfter, SeenAfter
    <3>5. CASE e.type = "tool.completed"
      BY <1>4, <1>5, <1>7, <3>1, <3>2, <3>3, <3>5 DEF OpenAfter, SeenAfter
    <3>6. CASE e.type \notin {"tool.requested", "tool.completed"}
      BY <1>4, <1>5, <3>1, <3>6 DEF OpenAfter, SeenAfter
    <3> QED BY <3>4, <3>5, <3>6
  <2> QED BY <2>1, <2>2
<1> QED BY <1>1, <1>3, <1>9 DEF Agrees

LEMMA ClaimAccounted ==
    ASSUME WellTyped, Accounted, NEW a \in Attempts, Claim(a)
    PROVE  Accounted'
<1>1. PICK e, k : e = Event("run.started") /\ k = [att[a] EXCEPT !.phase = "claimed"]
  OBVIOUS
<1>2. /\ run.status = "live" /\ log' = Append(log, e) /\ Set(a, k) /\ reply' = reply
  BY <1>1 DEF Claim
<1>3. log \in Seq(Events(Attempts)) /\ e \in Marks /\ att[a] \in Locals(a)
  BY <1>1, MarksAre DEF WellTyped
<1>4. k.phase = "claimed"
  BY <1>1, <1>3 DEF Locals
<1>5. att'[a] = k /\ \A b \in Attempts \ {a} : att'[b] = att[b]
  BY <1>2, SetIs DEF WellTyped
<1>6. ASSUME NEW b \in Attempts PROVE Agrees(log', b) /\ Known(b)'
  <2>1. Agrees(log, b) /\ Known(b)
    BY <1>2 DEF Accounted
  <2>2. AttemptWindow(log', b) = AttemptWindow(log, b)
    BY <1>1, <1>2, <1>3, ClaimedWindow
  <2>3. Agrees(log', b)
    BY <1>2, <1>3, <2>1, <2>2, MarkAgrees
  <2>4. Known(b)'
    <3>1. CASE b = a
      BY <1>4, <1>5, <3>1 DEF Known, Working
    <3>2. CASE b # a
      BY <1>5, <2>1, <2>2, <3>2 DEF Known
    <3> QED BY <3>1, <3>2
  <2> QED BY <2>3, <2>4
<1> QED BY <1>2, <1>6 DEF Accounted

LEMMA DispatchAccounted ==
    ASSUME WellTyped, Undisturbed, Accounted, NEW a \in Attempts, Dispatch(a)
    PROVE  Accounted' /\ (EveryCallHasOutcome' \/ run'.status = "live")
<1>1. att[a] \in Locals(a) /\ att[a].phase = "claimed" /\ ~Gone(a)
  BY DEF Dispatch, WellTyped, Gone
<1>2. run.status = "live" /\ a = run.active /\ Fenced(a)
  BY <1>1 DEF Undisturbed, Calm, Fenced
<1>3. CASE reply.status = "completed"
  <2>1. run' = [run EXCEPT !.status = "completed"] /\ reply' = reply
    BY <1>2, <1>3 DEF Dispatch
  <2>2. run'.status = "completed"
    BY <2>1 DEF WellTyped
  <2> QED BY <1>3, <2>1, <2>2 DEF Accounted, EveryCallHasOutcome
<1>4. CASE reply.status # "completed"
  <2>1. PICK k, e : k = [att[a] EXCEPT !.phase = "streaming"]
                    /\ e = [Event("model.requested") EXCEPT !.attempt = a]
    OBVIOUS
  <2>2. /\ run' = run /\ reply' = ResetReply(a) /\ Set(a, k) /\ log' = Append(log, e)
    BY <1>2, <1>4, <2>1 DEF Dispatch
  <2>3. k.phase = "streaming"
    BY <1>1, <2>1 DEF Locals
  <2>4. att'[a] = k /\ \A b \in Attempts \ {a} : att'[b] = att[b]
    BY <2>2, SetIs DEF WellTyped
  <2>5. log \in Seq(Events(Attempts)) /\ Unrequested(log, a) /\ e \in Marks
        /\ \A b \in Attempts : Windowed(b)
    <3>1. a \in Nat
      BY AttemptsAre
    <3> QED BY <1>1, <1>2, <2>1, <3>1, MarksAre DEF Undisturbed, WellTyped, Windowed
  <2>6. Agrees(log', a) /\ Known(a)'
    <3>1. AttemptWindow(log', a) = <<e>> /\ AttemptWindow(log, a) = <<>>
      BY <2>1, <2>2, <2>5, RequestedWindow, WindowUnrequested
    <3>2. <<e>> = Append(<<>>, e) /\ <<>> \in Seq(Events(Attempts))
          /\ e \in Events(Attempts) /\ e.type # "tool.requested"
      BY <2>5 DEF Events, Marks
    <3>3. Rebuild(<<>>).open = {} /\ Rebuild(<<>>).seen = {}
      BY RebuildNone DEF NothingRebuilt
    <3>4. RequestedIn(<<e>>) = {}
      <4>1. Range(<<e>>) = {e}
        BY DEF Range
      <4> QED BY <3>2, <4>1 DEF RequestedIn
    <3>5. Rebuild(<<e>>).open = {} /\ Rebuild(<<e>>).seen = {}
      BY <2>5, <3>2, <3>3, MarkRebuilt
    <3>6. Rebuild(log').open = Rebuild(log).open /\ Rebuild(log').seen = Rebuild(log).seen
      BY <2>2, <2>5, MarkRebuilt
    <3>7. Agrees(log, a)
      BY <1>2 DEF Accounted
    <3>8. Agrees(log', a)
      BY <3>1, <3>3, <3>5, <3>6, <3>7 DEF Agrees
    <3> QED BY <2>3, <2>4, <3>1, <3>4, <3>8 DEF Known
  <2>7. ASSUME NEW b \in Attempts \ {a} PROVE Agrees(log', b) /\ Known(b)'
    <3>1. Windowed(b) /\ ~Open(log, b) /\ Agrees(log, b) /\ Known(b)
      BY <1>2, <2>5 DEF Windowed, Accounted
    <3>2. AttemptWindow(log', b) = AttemptWindow(log, b)
      BY <2>1, <2>2, <2>5, <3>1, RequestedWindow
    <3>3. Agrees(log', b)
      BY <2>2, <2>5, <3>1, <3>2, MarkAgrees
    <3> QED BY <2>4, <3>1, <3>2, <3>3 DEF Known
  <2>8. reply'.status = "running"
    BY <2>2 DEF ResetReply
  <2> QED BY <1>2, <2>2, <2>6, <2>7, <2>8 DEF Accounted
<1> QED BY <1>3, <1>4

LEMMA WorkAccounted ==
    ASSUME WellTyped, Undisturbed, Accounted, NEW a \in Attempts, Stream(a) \/ (End(a) /\ ~Finish(a))
    PROVE  Accounted' /\ run' = run
<1>1. att[a] \in Locals(a) /\ (att[a].phase \in {"aborting", "draining"} => att[a].end # "none")
  BY DEF WellTyped, Working
<1>2. /\ \E k : Works(a, att[a], k) /\ Set(a, k)
      /\ UNCHANGED <<run, log, failures>>
      /\ UNCHANGED reply \/ StageItem(a)
  BY <1>1, WorkIs DEF End, Ends
<1>3. PICK k : Works(a, att[a], k) /\ Set(a, k)
  BY <1>2
<1>4. run.status = "live"
  <2>1. ~Gone(a)
    BY <1>3, GoneIs DEF Works
  <2> QED BY <2>1 DEF Undisturbed, Calm
<1>5. att'[a] = k /\ \A b \in Attempts \ {a} : att'[b] = att[b]
  BY <1>3, SetIs DEF WellTyped
<1>6. ASSUME NEW b \in Attempts PROVE Agrees(log', b) /\ Known(b)'
  <2>1. Agrees(log, b) /\ Known(b) /\ log' = log
    BY <1>2, <1>4 DEF Accounted
  <2>2. CASE b = a
    <3>1. \A c \in Calls : k.calls[c] = "none" => att[a].calls[c] = "none"
      BY <1>3 DEF Works, Carries, Remembers
    <3> QED BY <1>3, <1>5, <2>1, <2>2, <3>1 DEF Known, Works
  <2>3. CASE b # a
    BY <1>5, <2>1, <2>3 DEF Known
  <2> QED BY <2>1, <2>2, <2>3
<1>7. reply'.status \in {"none", "running", "completed"}
  <2>1. CASE UNCHANGED reply
    BY <1>4, <2>1 DEF Accounted
  <2>2. CASE StageItem(a)
    <3>1. reply' \in [attempt : {a}, status : {"running"}, parts : Seq(Parts({a}))]
      BY <1>1, <2>2, StagedReplyType DEF WellTyped
    <3> QED BY <3>1
  <2> QED BY <1>2, <2>1, <2>2
<1> QED BY <1>2, <1>6, <1>7 DEF Accounted

LEMMA PersistAccounted ==
    ASSUME WellTyped, Undisturbed, Accounted, NEW a \in Attempts, Persist(a) \/ PersistFails(a)
    PROVE  Accounted' /\ run' = run
<1>1. att[a] \in Locals(a) /\ att[a].chain # <<>> /\ att[a].chain \in Seq(StreamEvents({a}))
  BY LocalFields DEF WellTyped, Persist, PersistFails
<1>2. ~Gone(a) /\ att[a].phase \in Working
  <2>1. ~Gone(a)
    BY <1>1 DEF Undisturbed, Calm
  <2>2. att[a].phase # "claimed"
    <3>1. [FreshAttempt EXCEPT !.phase = "claimed"].chain = <<>>
      BY DEF FreshAttempt
    <3> QED BY <1>1, <3>1 DEF Undisturbed, Calm
  <2> QED BY <2>1, <2>2, GoneIs
<1>3. run.status = "live" /\ a = run.active /\ Booked(a, att[a])
  BY <1>2 DEF Undisturbed, Calm
<1>0. PICK failed \in BOOLEAN : \E k : /\ WrittenOff(a, att[a], failed, k) /\ Set(a, k)
                                       /\ failed \/ ~att[a].failed
  <2>1. TRUE \in BOOLEAN /\ att[a].failed \in BOOLEAN
    BY <1>1, LocalFields
  <2>2. CASE Persist(a)
    BY <1>1, <2>1, <2>2, WrittenIs DEF Persist
  <2>3. CASE PersistFails(a)
    BY <1>1, <2>1, <2>3, WrittenIs DEF PersistFails
  <2> QED BY <2>2, <2>3
<1>4. PICK k : /\ WrittenOff(a, att[a], failed, k) /\ Set(a, k)
               /\ failed \/ ~att[a].failed
  BY <1>0
<1>5. Remembers(att[a], k) /\ Remembers(k, att[a]) /\ (NothingOpen(att[a]) => NothingOpen(k))
  BY <1>1, <1>4, WrittenKeeps
<1>6. att'[a] = k /\ \A b \in Attempts \ {a} : att'[b] = att[b]
  BY <1>4, SetIs DEF WellTyped
<1>7. UNCHANGED <<run, reply>>
  BY DEF Persist, PersistFails
<1>8. ASSUME NEW b \in Attempts,
             Agrees(log', b),
             b # a => AttemptWindow(log', b) = AttemptWindow(log, b),
             \A c \in Calls : b = a /\ k.calls[c] = "none" =>
                 <<a, c>> \notin RequestedIn(AttemptWindow(log', a))
      PROVE  Agrees(log', b) /\ Known(b)'
  <2>1. Known(b)
    BY <1>3 DEF Accounted
  <2>2. CASE b = a
    BY <1>4, <1>5, <1>6, <1>8, <2>1, <2>2 DEF Known, WrittenOff
  <2>3. CASE b # a
    BY <1>6, <1>8, <2>1, <2>3 DEF Known
  <2> QED BY <1>8, <2>2, <2>3
<1>9. \A b \in Attempts : Agrees(log', b) /\ Known(b)'
  <2> SUFFICES ASSUME NEW b \in Attempts PROVE Agrees(log', b) /\ Known(b)'
    OBVIOUS
  <2>1. Agrees(log, b) /\ Known(a) /\ \A c \in Calls : k.calls[c] = "none" => att[a].calls[c] = "none"
    BY <1>3, <1>5 DEF Accounted, Remembers
  <2>2. CASE PersistFails(a)
    <3>1. log' = log
      BY <2>2 DEF PersistFails
    <3> QED BY <1>2, <1>8, <2>1, <3>1 DEF Known
  <2>3. CASE Persist(a)
    <3>1. PICK e : e = Head(att[a].chain)
      OBVIOUS
    <3>2. e \in StreamEvents({a}) /\ log' = Append(log, e)
      <4>1. Head(att[a].chain) \in StreamEvents({a})
        BY <1>1
      <4> QED BY <2>3, <3>1, <4>1 DEF Persist
    <3>3. log \in Seq(Events(Attempts))
      BY DEF WellTyped
    <3>4. ASSUME NEW d \in Attempts
          PROVE  (Open(log, d) <=> d = a) /\ AttemptWindow(log, d) \in Seq(Events({d}))
      BY <1>2, <1>3 DEF Undisturbed, Windowed
    <3>5. Agrees(log', b) /\ (b # a => AttemptWindow(log', b) = AttemptWindow(log, b))
      BY <2>1, <3>2, <3>3, <3>4, StreamedAgrees
    <3>6. AttemptWindow(log', a) = Append(AttemptWindow(log, a), e)
      <4>1. Agrees(log, a)
        BY <1>3 DEF Accounted
      <4> QED BY <3>2, <3>3, <3>4, <4>1, StreamedAgrees
    <3>7. ASSUME NEW c \in Calls, k.calls[c] = "none"
          PROVE  <<a, c>> \notin RequestedIn(AttemptWindow(log', a))
      <4>1. att[a].calls[c] = "none" /\ <<a, c>> \notin RequestedIn(AttemptWindow(log, a))
        BY <1>2, <2>1, <3>7 DEF Known
      <4>2. <<a, c>> \notin RequestedIn(att[a].chain)
        BY <1>3, <4>1 DEF Booked, BookedAt
      <4>3. e.type = "tool.requested" => e.call # <<a, c>>
        BY <1>1, <3>1, <4>2, RequestedHead
      <4>4. AttemptWindow(log, a) \in Seq(Events({a})) /\ e \in Events({a})
        BY <3>2, <3>4 DEF Events
      <4> QED BY <3>6, <4>1, <4>3, <4>4, RequestedAppend
    <3> QED BY <1>8, <3>5, <3>7
  <2> QED BY <2>2, <2>3
<1> QED BY <1>3, <1>7, <1>9 DEF Accounted

LEMMA CrashAccounted ==
    ASSUME WellTyped, Accounted, NEW a \in Attempts, Crash(a)
    PROVE  Accounted' /\ run' = run
<1>1. PICK k : k = [FreshAttempt EXCEPT !.phase = "dead"]
  OBVIOUS
<1>2. k.phase = "dead" /\ Set(a, k) /\ UNCHANGED <<run, log, reply>>
  BY <1>1 DEF Crash, storeVars, FreshAttempt
<1>3. att'[a] = k /\ \A b \in Attempts \ {a} : att'[b] = att[b]
  BY <1>2, SetIs DEF WellTyped
<1>4. ASSUME NEW b \in Attempts, Known(b) PROVE Known(b)'
  <2>1. CASE b = a
    BY <1>2, <1>3, <2>1 DEF Known, Working
  <2>2. CASE b # a
    BY <1>2, <1>3, <1>4, <2>2 DEF Known
  <2> QED BY <2>1, <2>2
<1> QED BY <1>2, <1>4 DEF Accounted

(* A settlement from the log, and one by the turn itself.                  *)
LEMMA SettleFromLogOutcomes ==
    ASSUME WellTyped, Undisturbed, Accounted, run.status = "live", NEW end \in {"failed", "expired"},
           SettleFromLog(end)
    PROVE  EveryCallHasOutcome' /\ run'.status # "live"
<1>1. /\ run' = [run EXCEPT !.status = end] /\ reply' = RebuiltReply(end)
      /\ log' = (IF reply.status = "completed" THEN log
                 ELSE log \o LogCompletions(log)) \o <<Event("run.terminal")>>
  BY DEF SettleFromLog
<1>2. run'.status # "live"
  BY <1>1 DEF WellTyped
<1>3. CASE reply.status = "completed"
  BY <1>1, <1>3 DEF RebuiltReply, EveryCallHasOutcome
<1>4. ASSUME reply.status # "completed",
             RequestedIn(AttemptWindow(log, reply'.attempt)) \subseteq CallsIn(reply'.parts)
      PROVE  EveryCallHasOutcome'
  <2>1. log \in Seq(Events(Attempts))
    BY DEF WellTyped
  <2>2. Rebuild(log').open = {}
    BY <1>1, <1>4, <2>1, SettledLogClosed
  <2>3. RequestedIn(AttemptWindow(log', reply'.attempt)) = RequestedIn(AttemptWindow(log, reply'.attempt))
    BY <1>1, <1>4, <2>1, SettledRequests
  <2> QED BY <1>4, <2>2, <2>3 DEF EveryCallHasOutcome
<1>5. CASE reply.status = "none"
  <2>1. reply' = reply /\ reply'.attempt = 0 /\ Unrequested(log, 0)
    BY <1>1, <1>5 DEF RebuiltReply, Undisturbed, ReplyOwned
  <2>2. AttemptWindow(log, 0) = <<>>
    BY <2>1, WindowUnrequested DEF WellTyped
  <2> QED BY <1>2, <1>4, <1>5, <2>1, <2>2, RequestedNone
<1>6. CASE reply.status = "running"
  <2>1. PICK a \in Attempts : a = reply.attempt
    BY <1>6 DEF Undisturbed, ReplyOwned
  <2>2. PICK w, rebuilt, parts : /\ w = AttemptWindow(log, a)
                                 /\ rebuilt = RebuiltParts(w \o LogCompletions(log))
                                 /\ parts = PlaceStoredItems(rebuilt, reply.parts)
    OBVIOUS
  <2>3. w \in Seq(Events({a})) /\ Rebuild(w).open \subseteq Rebuild(log).open
        /\ log \in Seq(Events(Attempts)) /\ reply.parts \in Seq(Parts({a}))
    BY <2>1, <2>2 DEF Undisturbed, Windowed, Accounted, Agrees, WellTyped, ReplyOwned
  <2>4. RequestedIn(w) \subseteq CallsIn(rebuilt)
    BY <2>2, <2>3, SettledWindowClosed
  <2>5. rebuilt \in Seq(Parts({a}))
    <3>1. LogCompletions(log) \in Seq(Completions)
      BY <2>3, LogCompletionsAre
    <3>2. w \o LogCompletions(log) \in Seq(Events({a}) \cup Completions)
      <4>1. PICK t, E : t = LogCompletions(log) /\ E = Events({a})
        OBVIOUS
      <4>2. w \in Seq(E) /\ t \in Seq(Completions)
        BY <2>3, <3>1, <4>1
      <4>3. w \o t \in Seq(E \cup Completions)
        BY <4>2
      <4> QED BY <4>1, <4>3
    <3> QED BY <2>2, <3>2, RebuiltPartsType
  <2>6. CallsIn(rebuilt) \subseteq CallsIn(parts)
    BY <2>2, <2>3, <2>5, PlacedCalls
  <2>7. reply' = [reply EXCEPT !.status = end, !.parts = parts]
    BY <1>1, <1>6, <2>1, <2>2 DEF RebuiltReply
  <2>8. reply'.attempt = a /\ reply'.parts = parts
    BY <2>1, <2>7 DEF WellTyped
  <2> QED BY <1>2, <1>4, <1>6, <2>2, <2>4, <2>6, <2>8
<1> QED BY <1>2, <1>3, <1>5, <1>6 DEF Accounted

LEMMA FinishAccounted ==
    ASSUME WellTyped, Undisturbed, Accounted, NEW a \in Attempts, Finish(a)
    PROVE  Accounted' /\ (EveryCallHasOutcome' \/ run'.status = "live")
<1>1. /\ att[a] \in Locals(a) /\ att[a].phase = "settling" /\ ~Gone(a)
      /\ att[a].end # "none"
  BY DEF Finish, WellTyped, Gone, Working
<1>2. run.status = "live" /\ a = run.active /\ Fenced(a) /\ Booked(a, att[a])
  BY <1>1 DEF Undisturbed, Calm, Fenced
<1>3. PICK l, k : l = att[a] /\ k = [att[a] EXCEPT !.phase = "ended"]
  OBVIOUS
<1>4. k.phase = "ended" /\ Set(a, k)
  BY <1>1, <1>3 DEF Finish, Locals
<1>5. att'[a] = k /\ \A b \in Attempts \ {a} : att'[b] = att[b]
  BY <1>4, SetIs DEF WellTyped
<1>6. CASE l.failed
  <2>1. SettleFromLog("failed")
    BY <1>2, <1>3, <1>6 DEF Finish
  <2> QED BY <1>2, <2>1, SettleFromLogOutcomes DEF Accounted
<1>7. CASE ~l.failed /\ l.end = "completed" /\ Rebuild(log).open # {}
  <2>1. run' = run /\ log' = log /\ reply' = LiveReply(a)
    BY <1>2, <1>3, <1>7 DEF Finish
  <2>2. reply'.status = "completed"
    BY <1>3, <1>7, <2>1 DEF LiveReply
  <2>3. ASSUME NEW b \in Attempts PROVE Agrees(log', b) /\ Known(b)'
    <3>1. Agrees(log, b) /\ Known(b)
      BY <1>2 DEF Accounted
    <3>2. CASE b = a
      BY <1>4, <1>5, <2>1, <3>1, <3>2 DEF Known, Working
    <3>3. CASE b # a
      BY <1>5, <2>1, <3>1, <3>3 DEF Known
    <3> QED BY <3>2, <3>3
  <2> QED BY <1>2, <2>1, <2>2, <2>3 DEF Accounted
<1>8. CASE ~l.failed /\ ~(l.end = "completed" /\ Rebuild(log).open # {})
  <2>1. /\ run' = [run EXCEPT !.status = l.end] /\ reply' = LiveReply(a)
        /\ log' = log \o LogCompletions(log) \o <<Event("run.terminal")>>
    BY <1>2, <1>3, <1>8 DEF Finish
  <2>2. run'.status # "live"
    <3>1. l.end # "live"
      BY <1>1, <1>3, LocalFields
    <3> QED BY <2>1, <3>1 DEF WellTyped
  <2>3. reply'.status = l.end /\ reply'.attempt = a /\ reply'.parts = PartsOf(l.coll)
    BY <1>3, <2>1 DEF LiveReply
  <2>4. CASE l.end = "completed"
    BY <2>2, <2>3, <2>4 DEF Accounted, EveryCallHasOutcome
  <2>5. CASE l.end # "completed"
    <3>1. log \in Seq(Events(Attempts)) /\ AttemptWindow(log, a) \in Seq(Events({a}))
      BY <1>2 DEF WellTyped, Undisturbed, Windowed
    <3>2. Rebuild(log').open = {}
      BY <2>1, <3>1, SettledLogClosed
    <3>3. RequestedIn(AttemptWindow(log', a)) = RequestedIn(AttemptWindow(log, a))
      BY <2>1, <3>1, SettledRequests
    <3>4. RequestedIn(AttemptWindow(log, a)) \subseteq CallsOf({a})
      <4>1. AttemptWindow(log, a) \in Seq(Events({a}) \cup Completions)
        <5>1. Events({a}) \subseteq Events({a}) \cup Completions
          OBVIOUS
        <5>2. Seq(Events({a})) \subseteq Seq(Events({a}) \cup Completions)
          BY <5>1, SeqMonotone
        <5> QED BY <3>1, <5>2
      <4>2. Rebuild(AttemptWindow(log, a)).seen \subseteq CallsOf({a})
        BY <4>1, RebuildType DEF Rebuilders
      <4> QED BY <4>1, <4>2, RebuildConsistent
    <3>5. Known(a) /\ l.calls \in [Calls -> CallState] /\ l.coll \in Collectors({a})
      BY <1>1, <1>2, <1>3, LocalFields DEF Accounted
    <3>6. ASSUME NEW c \in Calls, <<a, c>> \in RequestedIn(AttemptWindow(log, a))
          PROVE  <<a, c>> \in CallsIn(l.coll.parts)
      <4>1. l.calls[c] = "settled"
        BY <1>1, <1>3, <1>8, <2>5, <3>5, <3>6 DEF Known, NothingOpen, Working
      <4> QED BY <1>2, <1>3, <4>1 DEF Booked, BookedAt
    <3>7. RequestedIn(AttemptWindow(log, a)) \subseteq CallsIn(PartsOf(l.coll))
      <4>1. CallsIn(l.coll.parts) \subseteq CallsIn(PartsOf(l.coll))
        BY <3>5, ShownCalls
      <4> QED BY <3>4, <3>6, <4>1 DEF CallsOf
    <3> QED BY <2>2, <2>3, <3>2, <3>3, <3>7 DEF Accounted, EveryCallHasOutcome
  <2> QED BY <2>4, <2>5
<1> QED BY <1>6, <1>7, <1>8

(* Once it is settled, nothing touches the Run, its log or its reply.      *)
LEMMA SettledRests ==
    ASSUME WellTyped, Undisturbed, run.status # "live"
    PROVE  ~Next
<1>1. \A a \in Attempts : Gone(a) /\ att[a].chain = <<>>
  BY DEF Undisturbed, Calm
<1>2. ASSUME NEW a \in Attempts PROVE att[a].phase \in {"new", "ended", "dead"}
  BY <1>1 DEF Gone
<1>3. ASSUME NEW a \in Attempts, Stream(a) \/ (End(a) /\ ~Finish(a)) PROVE FALSE
  <2>1. att[a] \in Locals(a) /\ (att[a].phase \in {"aborting", "draining"} => att[a].end # "none")
    BY DEF WellTyped, Working
  <2>2. \E k : Works(a, att[a], k) /\ Set(a, k)
    BY <1>3, <2>1, WorkIs DEF End, Ends
  <2> QED BY <1>2, <2>2 DEF Works, Working
<1>4. ASSUME NEW a \in Attempts PROVE ~Finish(a) /\ ~Dispatch(a)
  BY <1>2 DEF Finish, Dispatch
<1>5. ASSUME NEW a \in Attempts
      PROVE  ~Claim(a) /\ ~Persist(a) /\ ~PersistFails(a) /\ ~Crash(a)
  BY <1>1 DEF Claim, Persist, PersistFails, Crash
<1> QED BY <1>3, <1>4, <1>5 DEF Next, SettleOutside

LEMMA AccountedInit == Init => Accounted
<1> SUFFICES ASSUME Init PROVE Accounted
  OBVIOUS
<1>1. log = <<>> /\ reply.status = "none" /\ \A a \in Attempts : att[a].phase = "new"
  BY DEF Init, NoReply, FreshAttempt
<1>2. ASSUME NEW a \in Attempts PROVE Agrees(log, a) /\ Known(a)
  <2>1. Unrequested(log, a) /\ log \in Seq(Events(Attempts))
    BY <1>1 DEF Unrequested
  <2>2. AttemptWindow(log, a) = <<>>
    BY <2>1, WindowUnrequested
  <2>3. Agrees(log, a)
    BY <1>1, <2>2, RebuildNone DEF Agrees, NothingRebuilt
  <2> QED BY <1>1, <2>3 DEF Known, Working
<1> QED BY <1>1, <1>2 DEF Accounted

LEMMA AccountedStep ==
    ASSUME WellTyped, Undisturbed, Accounted, EveryCallHasOutcome, [Next]_vars
    PROVE  Accounted' /\ EveryCallHasOutcome'
<1>1. CASE UNCHANGED vars
  BY <1>1 DEF vars, Accounted, Known, EveryCallHasOutcome, Settled
<1>2. CASE Next
  <2>1. run.status = "live"
    BY <1>2, SettledRests
  <2>2. run'.status = "live" => EveryCallHasOutcome'
    BY DEF EveryCallHasOutcome, Settled
  <2>3. ASSUME run' = run, Accounted' PROVE Accounted' /\ EveryCallHasOutcome'
    BY <2>1, <2>2, <2>3
  <2>4. ASSUME NEW a \in Attempts, Claim(a) PROVE Accounted' /\ EveryCallHasOutcome'
    <3>1. run'.status = "live"
      BY <2>1, <2>4 DEF Claim, WellTyped
    <3> QED BY <2>2, <2>4, <3>1, ClaimAccounted
  <2>5. ASSUME NEW a \in Attempts, Dispatch(a) \/ Finish(a)
        PROVE  Accounted' /\ EveryCallHasOutcome'
    BY <2>2, <2>5, DispatchAccounted, FinishAccounted
  <2>6. ASSUME NEW a \in Attempts,
               \/ Stream(a) \/ (End(a) /\ ~Finish(a)) \/ Persist(a) \/ PersistFails(a) \/ Crash(a)
        PROVE  Accounted' /\ EveryCallHasOutcome'
    <3>1. Accounted' /\ run' = run
      BY <2>6, WorkAccounted, PersistAccounted, CrashAccounted
    <3> QED BY <2>3, <3>1
  <2>7. ASSUME NEW end \in {"failed", "expired"}, SettleOutside(end)
        PROVE  Accounted' /\ EveryCallHasOutcome'
    <3>1. SettleFromLog(end)
      BY <2>7 DEF SettleOutside
    <3> QED BY <2>1, <3>1, SettleFromLogOutcomes DEF Accounted
  <2> QED BY <1>2, <2>4, <2>5, <2>6, <2>7 DEF Next
<1> QED BY <1>1, <1>2

(* Where attempts do not overlap, a Run that settled without an answer     *)
(* leaves no call open: not one its log requested, whichever attempt made  *)
(* it and wherever that died, nor one of the attempt its reply shows.      *)
THEOREM SettledCallsHaveOutcomes ==
    ASSUME ~MayOverlap
    PROVE  Spec => []EveryCallHasOutcome
<1> DEFINE IInv == WellTyped /\ Undisturbed /\ Accounted /\ EveryCallHasOutcome
<1>1. Init => IInv
  <2>1. Init => EveryCallHasOutcome
    BY DEF Init, EveryCallHasOutcome, Settled
  <2> QED BY <2>1, WellTypedInit, UndisturbedInit, AccountedInit
<1>2. IInv /\ [Next]_vars => IInv'
  BY WellTypedStep, UndisturbedStep, AccountedStep
<1>3. IInv => EveryCallHasOutcome
  OBVIOUS
<1> QED BY <1>1, <1>2, <1>3, PTL DEF Spec

=============================================================================
