--------------------------- MODULE SequenceLemmas ---------------------------
(***************************************************************************)
(* What the proofs about byte streams and about texts need of sequences:   *)
(* least elements, what FlattenSeq() makes of a sequence of sequences, and *)
(* functions that read a sequence from some position to its end.           *)
(***************************************************************************)
EXTENDS SequencesExt, SequenceTheorems, WellFoundedInduction, TLAPS

(* A non-empty set of naturals has the least element that Min returns. *)
LEMMA MinOfNat ==
  ASSUME NEW S \in SUBSET Nat, S # {}
  PROVE  Min(S) \in S /\ \A y \in S : Min(S) <= y
  <1> DEFINE less == {ss \in Nat \X Nat : ss[1] < ss[2]}
  <1>1. IsWellFoundedOn(less, Nat)
    BY NatLessThanWellFounded DEF OpToRel
  <1> HIDE DEF less
  <1>2. PICK x \in S : \A y \in S : ~(<<y, x>> \in less)
    BY <1>1, WFMin, Zenon
  <1>3. ASSUME NEW y \in S PROVE x <= y
    <2>1. x \in Nat /\ y \in Nat
      OBVIOUS
    <2>2. y < x => <<y, x>> \in less
      BY <2>1 DEF less
    <2>3. ~(y < x)
      BY <1>2, <2>2
    <2> QED BY <2>1, <2>3
  <1>4. \A y \in S : x <= y
    BY <1>3
  <1> QED BY <1>4 DEF Min

(* FlattenSeq() of the community modules is defined by recursion over a    *)
(* sequence. That the recursion has a solution for every sequence, and     *)
(* what that solution is, follows from the least length without one.       *)

(* The sequences that FlattenSeq() puts together, from the left. *)
Flattens(s, f) ==
  f = [i \in 1..Len(s) |-> IF i = 1 THEN s[1] ELSE f[i - 1] \o s[i]]

(* There is such a function for every sequence of sequences.               *)
LEMMA FlattenExists ==
  ASSUME NEW S, NEW s \in Seq(Seq(S))
  PROVE  \E f : Flattens(s, f)
  <1> DEFINE Upto(n, f) == f = [i \in 1..n |-> IF i = 1 THEN s[1] ELSE f[i - 1] \o s[i]]
             bad == {n \in Nat : ~ \E f : Upto(n, f)}
  <1>1. Len(s) \in Nat
    OBVIOUS
  <1>2. ASSUME bad # {} PROVE FALSE
    <2>1. bad \in SUBSET Nat
      OBVIOUS
    <2>2. PICK n \in bad : \A k \in bad : n <= k
      <3> HIDE DEF bad
      <3> QED BY <1>2, <2>1, MinOfNat
    <2>3. n \in Nat /\ ~ \E f : Upto(n, f)
      OBVIOUS
    <2>4. n # 0
      <3>1. Upto(0, <<>>)
        BY SMT
      <3> QED BY <2>3, <3>1
    <2>5. n - 1 \in Nat /\ ~(n <= n - 1)
      BY <2>3, <2>4
    <2>6. PICK f : Upto(n - 1, f)
      BY <2>2, <2>5
    <2> DEFINE g == [i \in 1..n |-> IF i = n THEN (IF n = 1 THEN s[1] ELSE f[n - 1] \o s[n]) ELSE f[i]]
    <2>7. Upto(n, g)
      <3>1. ASSUME NEW i \in 1..n
            PROVE  g[i] = IF i = 1 THEN s[1] ELSE g[i - 1] \o s[i]
        <4>1. CASE i = n
          <5>1. i # 1 => i - 1 \in 1..n /\ i - 1 # n
            BY <2>3, <4>1
          <5>2. i # 1 => g[i - 1] = f[i - 1]
            BY <5>1
          <5>3. g[i] = IF n = 1 THEN s[1] ELSE f[n - 1] \o s[n]
            BY <4>1
          <5> QED BY <4>1, <5>2, <5>3
        <4>2. CASE i # n
          <5>1. i \in 1..(n - 1)
            BY <2>3, <4>2
          <5>2. f[i] = IF i = 1 THEN s[1] ELSE f[i - 1] \o s[i]
            BY <2>6, <5>1
          <5>3. g[i] = f[i]
            BY <4>2
          <5>4. i # 1 => i - 1 \in 1..n /\ i - 1 # n
            BY <2>3, <5>1
          <5>5. i # 1 => g[i - 1] = f[i - 1]
            BY <5>4
          <5> QED BY <5>2, <5>3, <5>5
        <4> QED BY <4>1, <4>2
      <3>2. g = [i \in 1..n |-> g[i]]
        OBVIOUS
      <3>3. [i \in 1..n |-> g[i]] = [i \in 1..n |-> IF i = 1 THEN s[1] ELSE g[i - 1] \o s[i]]
        <4> HIDE DEF g
        <4> QED BY <3>1, Zenon
      <3> HIDE DEF g
      <3> QED BY <3>2, <3>3
    <2> QED BY <2>3, <2>7
  <1>3. Len(s) \notin bad
    BY <1>2
  <1>4. \E f : Upto(Len(s), f)
    BY <1>1, <1>3
  <1> QED BY <1>4 DEF Flattens

(* FlattenSeq() is its last value.                                         *)
LEMMA FlattenDef ==
  ASSUME NEW S, NEW s \in Seq(Seq(S)), s # <<>>
  PROVE  \E f : Flattens(s, f) /\ FlattenSeq(s) = f[Len(s)]
  <1> DEFINE flat == CHOOSE f : f = [i \in 1..Len(s) |-> IF i = 1 THEN s[i] ELSE f[i - 1] \o s[i]]
  <1>1. PICK f : Flattens(s, f)
    BY FlattenExists
  <1>2. f = [i \in 1..Len(s) |-> IF i = 1 THEN s[i] ELSE f[i - 1] \o s[i]]
    BY <1>1 DEF Flattens
  <1>3. flat = [i \in 1..Len(s) |-> IF i = 1 THEN s[i] ELSE flat[i - 1] \o s[i]]
    BY <1>2
  <1>4. FlattenSeq(s) = flat[Len(s)]
    BY DEF FlattenSeq
  <1> HIDE DEF flat
  <1>5. Flattens(s, flat)
    BY <1>3 DEF Flattens
  <1> QED BY <1>4, <1>5

(* What it puts together has the same elements.                            *)
LEMMA FlattenTypes ==
  ASSUME NEW S, NEW s \in Seq(Seq(S)), NEW f, Flattens(s, f), NEW n \in 1..Len(s)
  PROVE  f[n] \in Seq(S)
  <1> DEFINE bad == {i \in 1..Len(s) : f[i] \notin Seq(S)}
  <1>1. \A i \in 1..Len(s) : s[i] \in Seq(S)
    OBVIOUS
  <1>2. ASSUME bad # {} PROVE FALSE
    <2>1. PICK i \in bad : \A k \in bad : i <= k
      <3>1. bad \in SUBSET Nat
        OBVIOUS
      <3> HIDE DEF bad
      <3> QED BY <1>2, <3>1, MinOfNat
    <2>2. i \in 1..Len(s) /\ f[i] = IF i = 1 THEN s[1] ELSE f[i - 1] \o s[i]
      BY DEF Flattens
    <2>3. i # 1
      BY <1>1, <2>2
    <2>4. i - 1 \in 1..Len(s) /\ ~(i <= i - 1)
      BY <2>2, <2>3
    <2>5. f[i - 1] \in Seq(S)
      BY <2>1, <2>4
    <2>6. f[i - 1] \o s[i] \in Seq(S)
      BY <1>1, <2>2, <2>5
    <2> QED BY <2>2, <2>3, <2>6
  <1> QED BY <1>2

(* t is what follows the first element of s.                               *)
Behind(s, t) == Len(s) = Len(t) + 1 /\ \A i \in 1..Len(t) : t[i] = s[i + 1]

(* The first sequence comes first in what FlattenSeq() makes, and what the *)
(* others make follows it.                                                 *)
LEMMA FlattenFront ==
  ASSUME NEW S, NEW s \in Seq(Seq(S)), NEW t \in Seq(Seq(S)), Behind(s, t)
  PROVE  /\ FlattenSeq(t) \in Seq(S)
         /\ FlattenSeq(s) = s[1] \o FlattenSeq(t)
  <1>0. \A x, y, z \in Seq(S) : (x \o y) \o z = x \o (y \o z)
    BY ConcatAssociative
  <1>1. s # <<>> /\ Len(t) \in Nat /\ s[1] \in Seq(S) /\ Len(s) = Len(t) + 1
    BY DEF Behind
  <1>2. PICK f : Flattens(s, f) /\ FlattenSeq(s) = f[Len(s)]
    BY <1>1, FlattenDef
  <1>3. CASE Len(t) = 0
    <2>1. t = <<>> /\ FlattenSeq(t) = <<>>
      BY <1>3 DEF FlattenSeq
    <2>2. Len(s) = 1
      BY <1>1, <1>3
    <2>3. f[1] = s[1]
      BY <1>2, <2>2 DEF Flattens
    <2>4. FlattenSeq(s) = s[1]
      BY <1>2, <2>2, <2>3
    <2>5. s[1] \o <<>> = s[1]
      BY <1>1, ConcatEmptySeq
    <2>6. FlattenSeq(t) \in Seq(S)
      <3>1. <<>> \in Seq(S)
        OBVIOUS
      <3> QED BY <2>1, <3>1, Zenon
    <2> QED BY <2>1, <2>4, <2>5, <2>6
  <1>4. CASE Len(t) # 0
    <2>1. t # <<>>
      BY <1>4
    <2>2. PICK g : Flattens(t, g) /\ FlattenSeq(t) = g[Len(t)]
      BY <2>1, FlattenDef
    <2>3. \A i \in 1..Len(t) : g[i] \in Seq(S) /\ s[i + 1] \in Seq(S)
      BY <2>2, FlattenTypes DEF Behind
    <2>4. Len(t) \in 1..Len(t)
      BY <1>1, <1>4
    <2> DEFINE same(i) == f[i + 1] = s[1] \o g[i]
               bad == {i \in 1..Len(t) : ~same(i)}
    <2>5. ASSUME bad # {} PROVE FALSE
      <3> HIDE DEF same
      <3>1. PICK i \in bad : \A k \in bad : i <= k
        <4>1. bad \in SUBSET Nat
          OBVIOUS
        <4> HIDE DEF bad
        <4> QED BY <2>5, <4>1, MinOfNat
      <3>2. i \in 1..Len(t) /\ i + 1 \in 1..Len(s) /\ i + 1 # 1 /\ (i + 1) - 1 = i
        BY <1>1
      <3>3. \A k \in 1..Len(t) : k < i => same(k)
        BY <3>1, <3>2
      <3>4. ~same(i)
        OBVIOUS
      <3> HIDE DEF bad
      <3>5. f[i + 1] = f[i] \o s[i + 1]
        <4>1. f[i + 1] = f[(i + 1) - 1] \o s[i + 1]
          BY <1>2, <3>2 DEF Flattens
        <4> QED BY <3>2, <4>1
      <3>6. g[i] = IF i = 1 THEN t[1] ELSE g[i - 1] \o t[i]
        BY <2>2, <3>2 DEF Flattens
      <3>7. CASE i = 1
        <4>1. f[1] = s[1]
          BY <1>1, <1>2 DEF Flattens
        <4>2. t[1] = s[1 + 1]
          BY <3>2, <3>7 DEF Behind
        <4>3. g[1] = s[1 + 1]
          BY <3>6, <3>7, <4>2
        <4>4. f[1 + 1] = s[1] \o s[1 + 1]
          BY <3>5, <3>7, <4>1
        <4> QED BY <3>4, <3>7, <4>3, <4>4 DEF same
      <3>8. CASE i # 1
        <4>1. i - 1 \in 1..Len(t) /\ i - 1 < i /\ (i - 1) + 1 = i
          BY <3>2, <3>8
        <4>2. f[(i - 1) + 1] = s[1] \o g[i - 1]
          BY <3>3, <4>1 DEF same
        <4>3. f[i] = s[1] \o g[i - 1]
          BY <4>1, <4>2
        <4>4. g[i - 1] \in Seq(S) /\ s[i + 1] \in Seq(S)
          BY <2>3, <3>2, <4>1
        <4>5. f[i + 1] = (s[1] \o g[i - 1]) \o s[i + 1]
          BY <3>5, <4>3
        <4>6. (s[1] \o g[i - 1]) \o s[i + 1] = s[1] \o (g[i - 1] \o s[i + 1])
          <5> HIDE DEF bad
          <5> QED BY <1>0, <1>1, <4>4
        <4>7. t[i] = s[i + 1]
          BY <3>2 DEF Behind
        <4>8. g[i] = g[i - 1] \o s[i + 1]
          BY <3>6, <3>8, <4>7
        <4> QED BY <3>4, <4>5, <4>6, <4>8 DEF same
      <3> QED BY <3>7, <3>8
    <2>6. f[Len(t) + 1] = s[1] \o g[Len(t)]
      BY <2>4, <2>5
    <2>7. g[Len(t)] \in Seq(S)
      BY <2>3, <2>4
    <2> QED BY <1>1, <1>2, <2>2, <2>6, <2>7
  <1> QED BY <1>3, <1>4

-----------------------------------------------------------------------------
(* A set of sequences that has the empty one, and with each sequence those *)
(* that have one more element in front, has all.                           *)
LEMMA ByFront ==
  ASSUME NEW S, NEW P, <<>> \in P,
         \A c \in S, s \in Seq(S) : s \in P => <<c>> \o s \in P
  PROVE  \A s \in Seq(S) : s \in P
  <1> DEFINE bad == {n \in Nat : \E s \in Seq(S) : Len(s) = n /\ s \notin P}
  <1>1. ASSUME bad # {} PROVE FALSE
    <2>1. PICK n \in bad : \A k \in bad : n <= k
      <3>1. bad \in SUBSET Nat
        OBVIOUS
      <3> HIDE DEF bad
      <3> QED BY <1>1, <3>1, MinOfNat
    <2>2. PICK s \in Seq(S) : Len(s) = n /\ s \notin P
      OBVIOUS
    <2>3. s # <<>>
      BY <2>2
    <2>4. s[1] \in S /\ Tail(s) \in Seq(S) /\ Len(Tail(s)) = n - 1 /\ n - 1 \in Nat
      BY <2>2, <2>3
    <2>5. Tail(s) \in P
      <3>1. n - 1 \notin bad
        <4>1. n \in Nat
          OBVIOUS
        <4>2. ~(n <= n - 1)
          BY <4>1
        <4> HIDE DEF bad
        <4> QED BY <2>1, <4>2
      <3> QED BY <2>4, <3>1
    <2>6. s = <<s[1]>> \o Tail(s)
      BY <2>3
    <2> QED BY <2>2, <2>4, <2>5, <2>6
  <1>2. ASSUME NEW s \in Seq(S) PROVE s \in P
    BY <1>1
  <1> QED BY <1>2

-----------------------------------------------------------------------------
(* Every element of a sequence replaced by a sequence.                     *)
Joined(tok, s) == FlattenSeq([i \in DOMAIN s |-> tok[s[i]]])

LEMMA JoinedNone ==
  ASSUME NEW tok
  PROVE  Joined(tok, <<>>) = <<>>
  <1>1. [i \in DOMAIN <<>> |-> tok[<<>>[i]]] = <<>>
    OBVIOUS
  <1> QED BY <1>1 DEF Joined, FlattenSeq

LEMMA JoinedFront ==
  ASSUME NEW S, NEW T, NEW tok \in [S -> Seq(T)], NEW c \in S, NEW s \in Seq(S)
  PROVE  /\ Joined(tok, <<c>> \o s) = tok[c] \o Joined(tok, s)
         /\ Joined(tok, s) \in Seq(T)
  <1> DEFINE u == <<c>> \o s
             a == [i \in DOMAIN u |-> tok[u[i]]]
             b == [i \in DOMAIN s |-> tok[s[i]]]
  <1>1. /\ u \in Seq(S) /\ Len(u) = Len(s) + 1 /\ Len(s) \in Nat
        /\ DOMAIN u = 1..Len(u) /\ DOMAIN s = 1..Len(s)
        /\ u[1] = c
        /\ \A i \in 1..Len(s) : u[i + 1] = s[i] /\ i + 1 \in 1..Len(u)
    OBVIOUS
  <1>2. \A i \in 1..Len(u) : tok[u[i]] \in Seq(T)
    BY <1>1
  <1>3. \A i \in 1..Len(s) : tok[s[i]] \in Seq(T)
    OBVIOUS
  <1> HIDE DEF u
  <1>4. a \in Seq(Seq(T)) /\ Len(a) = Len(u)
    BY <1>1, <1>2
  <1>5. b \in Seq(Seq(T)) /\ Len(b) = Len(s)
    BY <1>1, <1>3
  <1>6. Len(a) = Len(b) + 1
    BY <1>1, <1>4, <1>5
  <1>7. a[1] = tok[c]
    BY <1>1
  <1>8. \A i \in 1..Len(b) : b[i] = a[i + 1]
    BY <1>1, <1>5
  <1> HIDE DEF a, b
  <1>9. Behind(a, b)
    BY <1>6, <1>8 DEF Behind
  <1>10. FlattenSeq(b) \in Seq(T) /\ FlattenSeq(a) = a[1] \o FlattenSeq(b)
    BY <1>4, <1>5, <1>9, FlattenFront
  <1> QED BY <1>7, <1>10 DEF Joined, u, a, b

LEMMA JoinedType ==
  ASSUME NEW S, NEW T, NEW tok \in [S -> Seq(T)], NEW s \in Seq(S)
  PROVE  Joined(tok, s) \in Seq(T)
  <1>1. CASE S = {}
    <2>1. s = <<>>
      BY <1>1
    <2>2. <<>> \in Seq(T)
      OBVIOUS
    <2> QED BY <2>1, <2>2, JoinedNone, Zenon
  <1>2. CASE S # {}
    <2>1. PICK c \in S : TRUE
      BY <1>2
    <2> QED BY <2>1, JoinedFront
  <1> QED BY <1>1, <1>2

(* Two sequences joined are what joins them one after the other.           *)
LEMMA JoinedConcat ==
  ASSUME NEW S, NEW T, NEW tok \in [S -> Seq(T)], NEW y \in Seq(S)
  PROVE  \A x \in Seq(S) : Joined(tok, x \o y) = Joined(tok, x) \o Joined(tok, y)
  <1> DEFINE P == {x \in Seq(S) : Joined(tok, x \o y) = Joined(tok, x) \o Joined(tok, y)}
  <1>0. \A x \in Seq(S) : Joined(tok, x) \in Seq(T)
    BY JoinedType
  <1>1. <<>> \in P
    <2>1. <<>> \in Seq(S) /\ <<>> \o y = y
      BY ConcatEmptySeq
    <2>2. <<>> \o Joined(tok, y) = Joined(tok, y)
      BY <1>0, ConcatEmptySeq
    <2> QED BY <2>1, <2>2, JoinedNone
  <1>2. ASSUME NEW c \in S, NEW x \in Seq(S), x \in P PROVE <<c>> \o x \in P
    <2>1. Joined(tok, x \o y) = Joined(tok, x) \o Joined(tok, y)
      BY <1>2
    <2>2. <<c>> \o x \in Seq(S) /\ x \o y \in Seq(S) /\ <<c>> \in Seq(S)
      OBVIOUS
    <2> HIDE DEF P
    <2>3. (<<c>> \o x) \o y = <<c>> \o (x \o y)
      BY <2>2, ConcatAssociative
    <2>4. /\ Joined(tok, <<c>> \o (x \o y)) = tok[c] \o Joined(tok, x \o y)
          /\ Joined(tok, x \o y) \in Seq(T)
      BY <2>2, JoinedFront
    <2>5. /\ Joined(tok, <<c>> \o x) = tok[c] \o Joined(tok, x)
          /\ Joined(tok, x) \in Seq(T)
      BY JoinedFront
    <2>6. tok[c] \in Seq(T)
      OBVIOUS
    <2>7. (tok[c] \o Joined(tok, x)) \o Joined(tok, y) = tok[c] \o (Joined(tok, x) \o Joined(tok, y))
      BY <1>0, <2>6, ConcatAssociative
    <2> QED BY <2>1, <2>2, <2>3, <2>4, <2>5, <2>7 DEF P
  <1> HIDE DEF P
  <1>3. \A x \in Seq(S) : x \in P
    BY <1>1, <1>2, ByFront
  <1> QED BY <1>3 DEF P

(* D takes the sequence of every element to another one.                   *)
Takes(D, S, T, tok, tok2) ==
  D[<<>>] = <<>> /\ \A c \in S, y \in Seq(T) : D[tok[c] \o y] = tok2[c] \o D[y]

(* Then it takes all that they make to what the others make.               *)
TakesAll(D, S, tok, tok2) == \A s \in Seq(S) : D[Joined(tok, s)] = Joined(tok2, s)

LEMMA JoinedThrough ==
  ASSUME NEW S, NEW T, NEW T2, NEW tok \in [S -> Seq(T)], NEW tok2 \in [S -> Seq(T2)], NEW D,
         Takes(D, S, T, tok, tok2)
  PROVE  TakesAll(D, S, tok, tok2)
  <1> DEFINE P == {s \in Seq(S) : D[Joined(tok, s)] = Joined(tok2, s)}
  <1>1. <<>> \in P
    BY JoinedNone DEF Takes
  <1>2. ASSUME NEW c \in S, NEW s \in Seq(S), s \in P PROVE <<c>> \o s \in P
    <2>1. D[Joined(tok, s)] = Joined(tok2, s)
      BY <1>2
    <2>2. <<c>> \o s \in Seq(S)
      OBVIOUS
    <2> HIDE DEF P
    <2>3. Joined(tok, <<c>> \o s) = tok[c] \o Joined(tok, s) /\ Joined(tok, s) \in Seq(T)
      BY JoinedFront
    <2>4. Joined(tok2, <<c>> \o s) = tok2[c] \o Joined(tok2, s) /\ Joined(tok2, s) \in Seq(T2)
      BY JoinedFront
    <2>5. D[tok[c] \o Joined(tok, s)] = tok2[c] \o D[Joined(tok, s)]
      BY <2>3 DEF Takes
    <2> QED BY <2>1, <2>2, <2>3, <2>4, <2>5 DEF P
  <1> HIDE DEF P
  <1>3. \A s \in Seq(S) : s \in P
    BY <1>1, <1>2, ByFront
  <1> QED BY <1>3 DEF P, TakesAll

(* Where every element stands for itself nothing changes.                  *)
LEMMA JoinedOnes ==
  ASSUME NEW S, NEW tok, \A c \in S : tok[c] = <<c>>
  PROVE  \A s \in Seq(S) : Joined(tok, s) = s
  <1> DEFINE P == {s \in Seq(S) : Joined(tok, s) = s}
             one == [c \in S |-> <<c>>]
  <1>0. one \in [S -> Seq(S)] /\ \A c \in S : one[c] = <<c>>
    OBVIOUS
  <1>1. ASSUME NEW s \in Seq(S) PROVE Joined(tok, s) = Joined(one, s)
    <2>1. \A i \in DOMAIN s : s[i] \in S
      OBVIOUS
    <2>2. \A i \in DOMAIN s : tok[s[i]] = one[s[i]]
      BY <1>0, <2>1
    <2>3. [i \in DOMAIN s |-> tok[s[i]]] = [i \in DOMAIN s |-> one[s[i]]]
      BY <2>2, Zenon
    <2> QED BY <2>3 DEF Joined
  <1> HIDE DEF one
  <1>2. <<>> \in P
    BY JoinedNone
  <1>3. ASSUME NEW c \in S, NEW s \in Seq(S), s \in P PROVE <<c>> \o s \in P
    <2>1. Joined(tok, s) = s
      BY <1>3
    <2>2. <<c>> \o s \in Seq(S)
      OBVIOUS
    <2> HIDE DEF P
    <2>3. Joined(one, <<c>> \o s) = one[c] \o Joined(one, s) /\ Joined(one, s) \in Seq(S)
      BY <1>0, JoinedFront
    <2> QED BY <1>0, <1>1, <2>1, <2>2, <2>3 DEF P
  <1> HIDE DEF P
  <1>4. \A s \in Seq(S) : s \in P
    BY <1>2, <1>3, ByFront
  <1> QED BY <1>4 DEF P

(* What takes the sequence of every element back to the element takes all  *)
(* that they make back to what it was made of.                             *)
ReadsBack(D, S, tok) == \A s \in Seq(S) : D[Joined(tok, s)] = s

LEMMA JoinedBack ==
  ASSUME NEW S, NEW T, NEW tok \in [S -> Seq(T)], NEW D,
         Takes(D, S, T, tok, [c \in S |-> <<c>>])
  PROVE  ReadsBack(D, S, tok)
  <1> DEFINE one == [c \in S |-> <<c>>]
  <1>1. one \in [S -> Seq(S)] /\ \A c \in S : one[c] = <<c>>
    OBVIOUS
  <1>2. Takes(D, S, T, tok, one)
    OBVIOUS
  <1> HIDE DEF one
  <1>3. TakesAll(D, S, tok, one)
    BY <1>1, <1>2, JoinedThrough
  <1>4. \A s \in Seq(S) : Joined(one, s) = s
    BY <1>1, JoinedOnes
  <1> QED BY <1>3, <1>4 DEF TakesAll, ReadsBack

-----------------------------------------------------------------------------
(* A recursion that reads n places from the left to the right: at place i  *)
(* it makes head[i] and goes on at next[i]; behind the last one it makes   *)
(* nothing.                                                                *)
Scans(f, n, last, head, next) ==
  f = [i \in 1..last |-> IF i > n THEN <<>> ELSE head[i] \o f[next[i]]]

(* There is such a function, from every place on.                          *)
LEMMA ScanExists ==
  ASSUME NEW n \in Nat, NEW last \in Nat, n < last, NEW head, NEW next,
         \A i \in 1..n : next[i] \in (i + 1)..last
  PROVE  \E f : Scans(f, n, last, head, next)
  <1> DEFINE from(k, f) == f = [i \in k..last |-> IF i > n THEN <<>> ELSE head[i] \o f[next[i]]]
             bad == {j \in Nat : j < last /\ ~ \E f : from(last - j, f)}
  <1>1. ASSUME bad # {} PROVE FALSE
    <2>1. PICK j \in bad : \A m \in bad : j <= m
      <3>1. bad \in SUBSET Nat
        OBVIOUS
      <3> HIDE DEF bad
      <3> QED BY <1>1, <3>1, MinOfNat
    <2>2. j \in Nat /\ j < last /\ ~ \E f : from(last - j, f)
      OBVIOUS
    <2> DEFINE k == last - j
    <2>3. k \in 1..last
      BY <2>2
    <2>4. j # 0
      <3>1. from(last, [i \in last..last |-> <<>>])
        OBVIOUS
      <3>2. j = 0 => last - j = last
        OBVIOUS
      <3> QED BY <2>2, <3>1, <3>2
    <2>5. PICK f : from(k + 1, f)
      <3>1. j - 1 \in Nat /\ j - 1 < last /\ ~(j <= j - 1) /\ last - (j - 1) = k + 1
        BY <2>2, <2>4
      <3>2. \E f : from(last - (j - 1), f)
        BY <2>1, <3>1
      <3> HIDE DEF from
      <3> QED BY <3>1, <3>2
    <2> DEFINE g == [i \in k..last |-> IF i = k THEN (IF k > n THEN <<>> ELSE head[k] \o f[next[k]])
                                      ELSE f[i]]
    <2>6. from(k, g)
      <3>1. ASSUME NEW i \in k..last
            PROVE  g[i] = IF i > n THEN <<>> ELSE head[i] \o g[next[i]]
        <4>1. i <= n => next[i] \in k..last /\ next[i] # k
          BY <2>3
        <4>2. i <= n => g[next[i]] = f[next[i]]
          BY <4>1
        <4>3. i # k => i \in (k + 1)..last
          BY <2>3
        <4>4. i # k => f[i] = IF i > n THEN <<>> ELSE head[i] \o f[next[i]]
          BY <2>5, <4>3
        <4>5. g[i] = IF i = k THEN (IF k > n THEN <<>> ELSE head[k] \o f[next[k]]) ELSE f[i]
          OBVIOUS
        <4>6. i \in Int
          BY <2>3
        <4> HIDE DEF g, k
        <4> QED BY <4>2, <4>4, <4>5, <4>6
      <3>2. g = [i \in k..last |-> g[i]]
        OBVIOUS
      <3>3. [i \in k..last |-> g[i]] = [i \in k..last |-> IF i > n THEN <<>> ELSE head[i] \o g[next[i]]]
        <4> HIDE DEF g, k
        <4> QED BY <3>1, Zenon
      <3> HIDE DEF g, k
      <3> QED BY <3>2, <3>3
    <2> HIDE DEF from, g
    <2> QED BY <2>2, <2>6
  <1>2. CASE last = 0
    BY <1>2
  <1>3. CASE last # 0
    <2>1. last - 1 \in Nat /\ last - 1 < last /\ last - (last - 1) = 1
      BY <1>3
    <2>2. \E f : from(last - (last - 1), f)
      BY <1>1, <2>1
    <2>3. PICK f : from(1, f)
      <3> HIDE DEF from
      <3> QED BY <2>1, <2>2
    <2> QED BY <2>3 DEF Scans
  <1> QED BY <1>2, <1>3

(* f and g are two such functions, and what g does at a place f does d     *)
(* places further; but f begins with one step over those d.                *)
Ahead(f, head, next, d, g, n, last, head2, next2) ==
  /\ n \in Nat /\ last \in Nat /\ n < last /\ d \in Nat \ {0}
  /\ Scans(f, d + n, d + last, head, next)
  /\ Scans(g, n, last, head2, next2)
  /\ \A i \in 1..n : /\ head[d + i] = head2[i] /\ next[d + i] = d + next2[i]
                     /\ next2[i] \in (i + 1)..last
  /\ next[1] = d + 1

(* Then f makes one head more, in front of what g makes.                   *)
OneHead(f, head, g) == f[1] = head[1] \o g[1]

LEMMA ScanToken ==
  ASSUME NEW f, NEW head, NEW next, NEW d, NEW g, NEW n, NEW last, NEW head2, NEW next2,
         Ahead(f, head, next, d, g, n, last, head2, next2)
  PROVE  OneHead(f, head, g)
  <1>0. /\ n \in Nat /\ last \in Nat /\ n < last /\ d \in Nat \ {0}
        /\ Scans(f, d + n, d + last, head, next)
        /\ Scans(g, n, last, head2, next2)
        /\ \A i \in 1..n : /\ head[d + i] = head2[i] /\ next[d + i] = d + next2[i]
                           /\ next2[i] \in (i + 1)..last
        /\ next[1] = d + 1
    BY DEF Ahead
  <1> DEFINE same(i) == f[d + i] = g[i]
             bad == {j \in Nat : j < last /\ ~same(last - j)}
  <1>1. ASSUME bad # {} PROVE FALSE
    <2> HIDE DEF same
    <2>1. PICK j \in bad : \A k \in bad : j <= k
      <3>1. bad \in SUBSET Nat
        OBVIOUS
      <3> HIDE DEF bad
      <3> QED BY <1>1, <3>1, MinOfNat
    <2> DEFINE i == last - j
    <2>2. j \in Nat /\ i \in 1..last /\ ~same(i)
      BY <1>0
    <2>3. \A k \in (i + 1)..last : same(k)
      <3> SUFFICES ASSUME NEW k \in (i + 1)..last PROVE same(k)
        OBVIOUS
      <3>1. last - k \in Nat /\ last - k < last /\ ~(j <= last - k) /\ last - (last - k) = k
        BY <1>0, <2>2
      <3>2. last - k \notin bad
        <4> HIDE DEF bad
        <4> QED BY <2>1, <3>1
      <3>3. same(last - (last - k))
        BY <3>1, <3>2
      <3> QED BY <3>1, <3>3
    <2> HIDE DEF bad, i
    <2>4. g[i] = IF i > n THEN <<>> ELSE head2[i] \o g[next2[i]]
      BY <1>0, <2>2 DEF Scans
    <2>5. d + i \in 1..(d + last) /\ (d + i > d + n <=> i > n)
      BY <1>0, <2>2
    <2>6. f[d + i] = IF d + i > d + n THEN <<>> ELSE head[d + i] \o f[next[d + i]]
      BY <1>0, <2>5 DEF Scans
    <2>7. i <= n => i \in 1..n
      BY <1>0, <2>2
    <2>8. i <= n => f[d + next2[i]] = g[next2[i]]
      BY <1>0, <2>3, <2>7 DEF same
    <2>9. i <= n => head[d + i] = head2[i] /\ next[d + i] = d + next2[i]
      BY <1>0, <2>7
    <2>10. i > n \/ i <= n
      BY <1>0, <2>2
    <2> QED BY <2>2, <2>4, <2>5, <2>6, <2>8, <2>9, <2>10 DEF same
  <1>2. ASSUME NEW i \in 1..last PROVE same(i)
    <2>1. last - i \in Nat /\ last - i < last /\ last - (last - i) = i
      BY <1>0
    <2>2. same(last - (last - i))
      <3> HIDE DEF same
      <3> QED BY <1>1, <2>1
    <2> HIDE DEF same
    <2> QED BY <2>1, <2>2
  <1>3. 1 \in 1..last /\ 1 \in 1..(d + last) /\ ~(1 > d + n)
    BY <1>0
  <1>4. f[1] = head[1] \o f[next[1]]
    BY <1>0, <1>3 DEF Scans
  <1> QED BY <1>0, <1>2, <1>3, <1>4 DEF OneHead

-----------------------------------------------------------------------------
(* The least of the places where something is.                             *)
LEMMA MinIs ==
  ASSUME NEW S \in SUBSET Nat, NEW n \in S, \A k \in S : n <= k
  PROVE  Min(S) = n
  <1>1. Min(S) \in S /\ \A k \in S : Min(S) <= k
    BY MinOfNat
  <1>2. Min(S) \in Nat /\ n \in Nat /\ Min(S) <= n /\ n <= Min(S)
    BY <1>1
  <1> QED BY <1>2

LEMMA OneOfSeq ==
  ASSUME NEW s, NEW i \in Int
  PROVE  SubSeq(s, i, i) = <<s[i]>>
  <1>0. PICK S : S = {s[i]}
    OBVIOUS
  <1>1. \A k \in i..i : s[k] \in S
    BY <1>0
  <1>2. SubSeq(s, i, i) \in Seq(S) /\ Len(SubSeq(s, i, i)) = IF i <= i THEN i - i + 1 ELSE 0
    BY <1>1, SubSeqProperties
  <1>3. SubSeq(s, i, i) \in Seq(S) /\ Len(SubSeq(s, i, i)) = 1
    BY <1>2
  <1>4. PICK u : u = SubSeq(s, i, i)
    OBVIOUS
  <1>5. u \in Seq(S) /\ Len(u) = 1
    BY <1>3, <1>4
  <1>6. u = <<s[i]>>
    BY <1>0, <1>5
  <1> QED BY <1>4, <1>6

-----------------------------------------------------------------------------
(* A line break at the start is skipped in what is escaped as in the text. *)
LEMMA Dropped ==
  ASSUME NEW S, NEW x \in Seq(S), NEW y \in Seq(S)
  PROVE  SubSeq(x \o y, Len(x) + 1, Len(x \o y)) = y
  <1> DEFINE z == x \o y
  <1>1. z \in Seq(S) /\ Len(z) = Len(x) + Len(y) /\ Len(x) \in Nat /\ Len(y) \in Nat
    OBVIOUS
  <1>2. \A i \in 1..Len(y) : z[Len(x) + i] = y[i]
    OBVIOUS
  <1> HIDE DEF z
  <1>3. \A i \in (Len(x) + 1)..Len(z) : z[i] \in S
    BY <1>1
  <1>4. PICK u : u = SubSeq(z, Len(x) + 1, Len(z))
    OBVIOUS
  <1>5. /\ u \in Seq(S)
        /\ Len(u) = IF Len(x) + 1 <= Len(z) THEN Len(z) - (Len(x) + 1) + 1 ELSE 0
        /\ \A i \in 1..(Len(z) - (Len(x) + 1) + 1) : u[i] = z[(Len(x) + 1) + i - 1]
    <2>1. Len(x) + 1 \in Int /\ Len(z) \in Int
      BY <1>1
    <2> QED BY <1>3, <1>4, <2>1, SubSeqProperties
  <1>6. Len(u) = Len(y)
    BY <1>1, <1>5
  <1>7. ASSUME NEW i \in 1..Len(y) PROVE u[i] = y[i]
    <2>1. i \in 1..(Len(z) - (Len(x) + 1) + 1) /\ (Len(x) + 1) + i - 1 = Len(x) + i
      BY <1>1
    <2> QED BY <1>2, <1>5, <2>1
  <1>8. u = y
    BY <1>5, <1>6, <1>7
  <1> QED BY <1>4, <1>8 DEF z

(* A sequence that stands in another behind o elements.                    *)
LEMMA PieceOf ==
  ASSUME NEW S, NEW y \in Seq(S), NEW B, NEW o \in Nat,
         \A i \in 1..Len(y) : B[i + o] = y[i]
  PROVE  SubSeq(B, o + 1, o + Len(y)) = y
  <1>1. Len(y) \in Nat /\ o + 1 \in Int /\ o + Len(y) \in Int
    OBVIOUS
  <1>2. ASSUME NEW i \in (o + 1)..(o + Len(y)) PROVE B[i] \in S
    <2>1. i - o \in 1..Len(y) /\ (i - o) + o = i
      BY <1>1
    <2>2. B[(i - o) + o] = y[i - o]
      BY <2>1
    <2> QED BY <2>1, <2>2
  <1>3. PICK u : u = SubSeq(B, o + 1, o + Len(y))
    OBVIOUS
  <1>4. /\ u \in Seq(S)
        /\ Len(u) = IF o + 1 <= o + Len(y) THEN (o + Len(y)) - (o + 1) + 1 ELSE 0
        /\ \A i \in 1..((o + Len(y)) - (o + 1) + 1) : u[i] = B[(o + 1) + i - 1]
    BY <1>1, <1>2, <1>3, SubSeqProperties
  <1>5. Len(u) = Len(y)
    BY <1>1, <1>4
  <1>6. ASSUME NEW i \in 1..Len(y) PROVE u[i] = y[i]
    <2>1. i \in 1..((o + Len(y)) - (o + 1) + 1) /\ (o + 1) + i - 1 = i + o
      BY <1>1
    <2> QED BY <1>4, <2>1
  <1>7. u = y
    BY <1>4, <1>5, <1>6
  <1> QED BY <1>3, <1>7

(* What is made of such pieces is of their type.                           *)
LEMMA ScanType ==
  ASSUME NEW n \in Nat, NEW last \in Nat, n < last, NEW f, NEW head, NEW next, NEW T,
         Scans(f, n, last, head, next),
         \A i \in 1..n : next[i] \in (i + 1)..last /\ head[i] \in Seq(T)
  PROVE  f[1] \in Seq(T)
  <1> DEFINE bad == {j \in Nat : j < last /\ f[last - j] \notin Seq(T)}
  <1>1. ASSUME bad # {} PROVE FALSE
    <2>1. PICK j \in bad : \A m \in bad : j <= m
      <3>1. bad \in SUBSET Nat
        OBVIOUS
      <3> HIDE DEF bad
      <3> QED BY <1>1, <3>1, MinOfNat
    <2>2. PICK k : k = last - j
      OBVIOUS
    <2>3. j \in Nat /\ j < last /\ k \in 1..last /\ f[k] \notin Seq(T)
      BY <2>2
    <2>4. f[k] = IF k > n THEN <<>> ELSE head[k] \o f[next[k]]
      BY <2>3 DEF Scans
    <2>5. k <= n
      BY <2>3, <2>4
    <2>6. next[k] \in (k + 1)..last /\ head[k] \in Seq(T)
      BY <2>3, <2>5
    <2>7. PICK i : i = next[k]
      OBVIOUS
    <2>8. /\ last - i \in Nat /\ last - i < last /\ ~(j <= last - i)
          /\ last - (last - i) = i
      BY <2>2, <2>3, <2>6, <2>7
    <2>9. f[i] \in Seq(T)
      BY <2>1, <2>8
    <2> QED BY <2>3, <2>4, <2>5, <2>6, <2>7, <2>9
  <1>2. last - 1 \in Nat /\ last - 1 < last /\ last - (last - 1) = 1
    OBVIOUS
  <1> QED BY <1>1, <1>2

TwoInFront(a, b, y) == <<a>> \o (<<b>> \o y) = <<a, b>> \o y

LEMMA TwoAhead ==
  ASSUME NEW S, NEW a \in S, NEW b \in S, NEW y \in Seq(S)
  PROVE  TwoInFront(a, b, y)
  <1> DEFINE u == <<b>> \o y
             z == <<a, b>> \o y
  <1>1. u \in Seq(S) /\ Len(u) = Len(y) + 1 /\ u[1] = b /\ \A i \in 1..Len(y) : u[i + 1] = y[i]
    OBVIOUS
  <1>2. z \in Seq(S) /\ Len(z) = Len(y) + 2 /\ z[1] = a /\ z[2] = b /\ \A i \in 1..Len(y) : z[i + 2] = y[i]
    OBVIOUS
  <1> HIDE DEF u, z
  <1>3. PICK v : v = <<a>> \o u
    OBVIOUS
  <1>4. v \in Seq(S) /\ Len(v) = Len(u) + 1 /\ v[1] = a /\ \A i \in 1..Len(u) : v[i + 1] = u[i]
    BY <1>1, <1>3
  <1>5. Len(y) \in Nat
    OBVIOUS
  <1>6. Len(v) = Len(z)
    BY <1>1, <1>2, <1>4, <1>5
  <1>7. ASSUME NEW i \in 1..Len(z) PROVE v[i] = z[i]
    <2>1. i = 1 \/ i = 2 \/ i - 2 \in 1..Len(y)
      BY <1>2, <1>5
    <2>2. CASE i = 1
      BY <1>2, <1>4, <2>2
    <2>3. CASE i = 2
      <3>1. 1 \in 1..Len(u) /\ 1 + 1 = 2
        BY <1>1, <1>5
      <3>2. v[1 + 1] = u[1]
        BY <1>4, <3>1
      <3> QED BY <1>1, <1>2, <2>3, <3>1, <3>2
    <2>4. CASE i - 2 \in 1..Len(y)
      <3>1. (i - 2) + 1 \in 1..Len(u) /\ ((i - 2) + 1) + 1 = i /\ (i - 2) + 2 = i
        BY <1>1, <1>5, <2>4
      <3>2. v[((i - 2) + 1) + 1] = u[(i - 2) + 1]
        BY <1>4, <3>1
      <3>3. u[(i - 2) + 1] = y[i - 2] /\ z[(i - 2) + 2] = y[i - 2]
        BY <1>1, <1>2, <2>4
      <3> QED BY <3>1, <3>2, <3>3
    <2> QED BY <2>1, <2>2, <2>3, <2>4
  <1>8. v = z
    BY <1>2, <1>4, <1>6, <1>7
  <1> QED BY <1>3, <1>8 DEF u, z, TwoInFront

=============================================================================
