----------------------------- MODULE ListProofs -----------------------------
(***************************************************************************)
(* Lemmas about Lists, and what Negotiation makes of them.                 *)
(*                                                                         *)
(* Among is a recursive function, so what it returns is shown by induction *)
(* over the list: the set of the lengths for which the claim holds has no  *)
(* least number outside it (WFMin of WellFoundedInduction).                *)
(***************************************************************************)
EXTENDS Negotiation, WellFoundedInduction, TLAPS

----------------------------------------------------------------------------
(***************************************************************************)
(* Numbers.                                                                *)
(***************************************************************************)
\* A set of numbers has a least one.
LEMMA Smallest ==
  ASSUME NEW T, T \subseteq Nat, T # {}
  PROVE  \E x \in T : \A y \in T : x <= y
<1> DEFINE R == {p \in Nat \X Nat : p[1] < p[2]}
<1>1. IsWellFoundedOn(R, Nat)
  BY NatLessThanWellFounded DEF OpToRel
<1> HIDE DEF R
<1>2. PICK x \in T : \A y \in T : ~ (<<y, x>> \in R)
  BY <1>1, WFMin, Zenon
<1>3. \A y \in T : ~ (y < x)
  BY <1>2 DEF R
<1> QED BY <1>3

\* A bounded set of numbers has a greatest one.
LEMMA Greatest ==
  ASSUME NEW n \in Nat, NEW T \in SUBSET (1 .. n), T # {}
  PROVE  Max(T) \in T
<1> DEFINE D == {n - x : x \in T}
<1>1. D \subseteq Nat /\ D # {}
  <2>1. \A x \in T : n - x \in Nat
    OBVIOUS
  <2> QED BY <2>1
<1> HIDE DEF D
<1>2. PICK d \in D : \A e \in D : d <= e
  BY <1>1, Smallest
<1>3. PICK x \in T : d = n - x
  BY <1>2 DEF D
<1>4. \A y \in T : n - x <= n - y
  BY <1>2, <1>3 DEF D
<1>5. \A y \in T : x >= y
  BY <1>4
<1> QED BY <1>5 DEF Max

\* Induction over the natural numbers, for a set instead of a predicate.
LEMMA Induction ==
  ASSUME NEW T, 0 \in T, \A n \in Nat : n \in T => n + 1 \in T
  PROVE  Nat \subseteq T
<1> SUFFICES ASSUME ~ (Nat \subseteq T) PROVE FALSE
  OBVIOUS
<1>1. PICK x \in Nat \ T : \A y \in Nat \ T : x <= y
  BY Smallest
<1>2. x # 0 /\ x - 1 \in Nat
  BY <1>1
<1>3. x - 1 \in T
  BY <1>1, <1>2
<1> QED BY <1>1, <1>2, <1>3

----------------------------------------------------------------------------
(***************************************************************************)
(* Choosing from lists.                                                    *)
(***************************************************************************)
\* Position i is the first of the list whose entry is in the set.
IsFirst(i, list, set) ==
  i \in 1 .. Len(list) /\ list[i] \in set /\ \A j \in 1 .. i - 1 : list[j] \notin set

\* The entries of a sequence over a set are in the set.
LEMMA Entries ==
  ASSUME NEW S, NEW s \in Seq(S)
  PROVE  \A i \in 1 .. Len(s) : s[i] \in S
OBVIOUS

\* A sequence over a set is one over a larger set.
LEMMA SeqGrows == ASSUME NEW A, NEW B, A \subseteq B, NEW s \in Seq(A) PROVE s \in Seq(B)
<1>1. Len(s) \in Nat /\ \A i \in 1 .. Len(s) : s[i] \in B
  OBVIOUS
<1>2. s = [i \in 1 .. Len(s) |-> s[i]]
  OBVIOUS
<1>3. [i \in 1 .. Len(s) |-> s[i]] \in Seq(B)
  BY <1>1
<1> QED BY <1>2, <1>3

\* A list with an entry in the set has a first one.
LEMMA FirstExists ==
  ASSUME NEW S, NEW list \in Seq(S), NEW set, ToSet(list) \cap set # {}
  PROVE  \E i : IsFirst(i, list, set)
<1> DEFINE I == {i \in 1 .. Len(list) : list[i] \in set}
<1>1. I \subseteq Nat /\ I # {}
  BY DEF ToSet
<1> HIDE DEF I
<1>2. PICK i \in I : \A j \in I : i <= j
  BY <1>1, Smallest
<1> QED BY <1>2 DEF I, IsFirst

\* FirstIn is the entry at that position.
LEMMA FirstInIs ==
  ASSUME NEW S, NEW list \in Seq(S), NEW set, NEW i, IsFirst(i, list, set)
  PROVE  FirstIn(list, set) = list[i]
<1> DEFINE I == {j \in 1 .. Len(list) : list[j] \in set}
<1>1. i \in I /\ \A j \in I : i <= j
  BY DEF IsFirst
<1>2. Min(I) = i
  <2>1. \A k \in I : (\A j \in I : k <= j) => k = i
    BY <1>1
  <2> HIDE DEF I
  <2> QED BY <1>1, <2>1 DEF Min
<1>3. FirstIn(list, set) = IF (IF I # {} THEN Min(I) ELSE 0) = 0 THEN None ELSE list[IF I # {} THEN Min(I) ELSE 0]
  BY DEF FirstIn, SelectInSeq
<1> QED BY <1>1, <1>2, <1>3 DEF IsFirst

\* Without such an entry it is None.
LEMMA FirstInNone ==
  ASSUME NEW S, NEW list \in Seq(S), NEW set, ToSet(list) \cap set = {}
  PROVE  FirstIn(list, set) = None
<1> DEFINE I == {j \in 1 .. Len(list) : list[j] \in set}
<1>1. I = {}
  BY DEF ToSet
<1>2. FirstIn(list, set) = IF (IF I # {} THEN Min(I) ELSE 0) = 0 THEN None ELSE list[IF I # {} THEN Min(I) ELSE 0]
  BY DEF FirstIn, SelectInSeq
<1> QED BY <1>1, <1>2

\* FirstIn of a list is an entry that is in the set, or None.
LEMMA FirstInEither ==
  ASSUME NEW S, NEW list \in Seq(S), NEW set
  PROVE  IF ToSet(list) \cap set = {} THEN FirstIn(list, set) = None
         ELSE FirstIn(list, set) \in ToSet(list) \cap set
<1>1. CASE ToSet(list) \cap set = {}
  BY <1>1, FirstInNone
<1>2. CASE ToSet(list) \cap set # {}
  <2>1. PICK i : IsFirst(i, list, set)
    BY <1>2, FirstExists
  <2>2. FirstIn(list, set) = list[i]
    BY <2>1, FirstInIs
  <2> QED BY <1>2, <2>1, <2>2 DEF IsFirst, ToSet
<1> QED BY <1>1, <1>2

----------------------------------------------------------------------------
(***************************************************************************)
(* Among.                                                                  *)
(***************************************************************************)
\* The equation of the recursive function in Among.
Prefix(f, list, set, n) ==
  IF n = 0 THEN <<>> ELSE IF list[n] \in set THEN Append(f[n - 1], list[n]) ELSE f[n - 1]

\* A function satisfies it up to any number.
LEMMA KeptUpTo ==
  ASSUME NEW list, NEW set, NEW n \in Nat
  PROVE  \E f : DOMAIN f = 0 .. n /\ \A k \in 0 .. n : f[k] = Prefix(f, list, set, k)
<1> DEFINE Ok(f, m) == DOMAIN f = 0 .. m /\ \A k \in 0 .. m : f[k] = Prefix(f, list, set, k)
           T == {m \in Nat : \E f : Ok(f, m)}
<1>1. 0 \in T
  <2>1. Ok([k \in 0 .. 0 |-> <<>>], 0)
    BY DEF Prefix
  <2> QED BY <2>1
<1>2. ASSUME NEW m \in Nat, m \in T PROVE m + 1 \in T
  <2>1. PICK f : Ok(f, m)
    BY <1>2
  <2> DEFINE g == [k \in 0 .. m + 1 |-> IF k <= m THEN f[k] ELSE Prefix(f, list, set, m + 1)]
  <2>2. DOMAIN g = 0 .. m + 1
    OBVIOUS
  <2>3. ASSUME NEW k \in 0 .. m + 1 PROVE g[k] = Prefix(g, list, set, k)
    <3>1. CASE k <= m
      <4>1. g[k] = f[k] /\ f[k] = Prefix(f, list, set, k)
        BY <2>1, <3>1
      <4>2. k # 0 => g[k - 1] = f[k - 1]
        BY <3>1
      <4> QED BY <4>1, <4>2 DEF Prefix
    <3>2. CASE k = m + 1
      <4>1. g[k] = Prefix(f, list, set, k) /\ g[k - 1] = f[k - 1]
        BY <3>2
      <4> QED BY <4>1, <3>2 DEF Prefix
    <3> QED BY <3>1, <3>2
  <2>4. Ok(g, m + 1)
    BY <2>2, <2>3
  <2> HIDE DEF g
  <2>5. \E f_1 : Ok(f_1, m + 1)
    BY <2>4
  <2> QED BY <2>5
<1>3. n \in T
  <2> HIDE DEF T
  <2> QED BY <1>1, <1>2, Induction
<1> QED BY <1>3

\* So the function of Among does, up to the length of the list.
LEMMA AmongDef ==
  ASSUME NEW list, NEW set, Len(list) \in Nat
  PROVE  \E f : /\ DOMAIN f = 0 .. Len(list)
                /\ \A k \in 0 .. Len(list) : f[k] = Prefix(f, list, set, k)
                /\ Among(list, set) = f[Len(list)]
<1> DEFINE Body(f) == [n \in 0 .. Len(list) |-> Prefix(f, list, set, n)]
           g == CHOOSE f : f = Body(f)
<1>1. \E f : f = Body(f)
  <2>1. PICK f : DOMAIN f = 0 .. Len(list) /\ \A k \in 0 .. Len(list) : f[k] = Prefix(f, list, set, k)
    BY KeptUpTo
  <2> QED BY <2>1
<1>2. g = Body(g)
  BY <1>1
<1>3. Among(list, set) = g[Len(list)]
  BY DEF Among, Prefix
<1> QED BY <1>2, <1>3

\* What is known of the entries kept of the first n, for a part of the set:
\* they are the entries in the set, and the same one is the first in the part.
KeptFirst(kept, list, set, part, n) ==
  /\ kept \in Seq(ToSet(list))
  /\ ToSet(kept) = {list[i] : i \in 1 .. n} \cap set
  /\ \A i \in 1 .. n : IsFirst(i, list, part) => \E j : IsFirst(j, kept, part) /\ kept[j] = list[i]

LEMMA AmongKeeps ==
  ASSUME NEW S, NEW list \in Seq(S), NEW set, NEW part \in SUBSET set
  PROVE  KeptFirst(Among(list, set), list, set, part, Len(list))
<1>1. PICK f : /\ DOMAIN f = 0 .. Len(list)
               /\ \A k \in 0 .. Len(list) : f[k] = Prefix(f, list, set, k)
               /\ Among(list, set) = f[Len(list)]
  <2>1. Len(list) \in Nat
    OBVIOUS
  <2> QED BY <2>1, AmongDef
<1> DEFINE T == {n \in Nat : n <= Len(list) => KeptFirst(f[n], list, set, part, n)}
<1>2. 0 \in T
  <2>1. f[0] = <<>>
    BY <1>1 DEF Prefix
  <2>2. <<>> \in Seq(ToSet(list)) /\ ToSet(<<>>) = {} /\ 1 .. 0 = {}
    BY DEF ToSet
  <2>3. KeptFirst(<<>>, list, set, part, 0)
    BY <2>2 DEF KeptFirst
  <2> QED BY <2>1, <2>3
<1>3. ASSUME NEW n \in Nat, n \in T PROVE n + 1 \in T
  <2> SUFFICES ASSUME n + 1 <= Len(list) PROVE KeptFirst(f[n + 1], list, set, part, n + 1)
    OBVIOUS
  <2> DEFINE kept == f[n]
             x == list[n + 1]
  <2>1. KeptFirst(kept, list, set, part, n)
    BY <1>3
  <2>2. f[n + 1] = IF x \in set THEN Append(kept, x) ELSE kept
    <3>1. f[n + 1] = Prefix(f, list, set, n + 1) /\ (n + 1) - 1 = n /\ n + 1 # 0
      BY <1>1
    <3> QED BY <3>1 DEF Prefix
  <2>3. x \in ToSet(list) /\ {list[i] : i \in 1 .. n + 1} = {list[i] : i \in 1 .. n} \cup {x}
    <3>1. n + 1 \in DOMAIN list
      OBVIOUS
    <3>2. 1 .. n + 1 = 1 .. n \cup {n + 1}
      OBVIOUS
    <3> QED BY <3>1, <3>2 DEF ToSet
  <2> HIDE DEF kept, x
  <2>4. CASE x \notin set
    <3>1. \A i \in 1 .. n + 1 : IsFirst(i, list, part) => i \in 1 .. n
      BY <2>4 DEF IsFirst, x
    <3> QED BY <2>1, <2>2, <2>3, <2>4, <3>1 DEF KeptFirst
  <2>5. CASE x \in set
    <3> DEFINE longer == Append(kept, x)
    <3>1. /\ longer \in Seq(ToSet(list)) /\ Len(longer) = Len(kept) + 1 /\ Len(kept) \in Nat
          /\ \A j \in 1 .. Len(kept) : longer[j] = kept[j]
          /\ longer[Len(kept) + 1] = x
      BY <2>1, <2>3 DEF KeptFirst
    <3> HIDE DEF longer
    <3>2. ToSet(longer) = ToSet(kept) \cup {x}
      <4>1. DOMAIN kept = 1 .. Len(kept) /\ DOMAIN longer = 1 .. Len(kept) + 1
        BY <2>1, <3>1 DEF KeptFirst
      <4>2. 1 .. Len(kept) + 1 = 1 .. Len(kept) \cup {Len(kept) + 1}
        BY <3>1
      <4>3. ToSet(kept) \cup {x} \subseteq ToSet(longer)
        BY <3>1, <4>1, <4>2 DEF ToSet
      <4>4. \A k \in DOMAIN longer : longer[k] \in ToSet(kept) \cup {x}
        BY <3>1, <4>1, <4>2 DEF ToSet
      <4>5. ToSet(longer) \subseteq ToSet(kept) \cup {x}
        BY <4>4 DEF ToSet
      <4> QED BY <4>3, <4>5
    <3>3. ASSUME NEW i \in 1 .. n + 1, IsFirst(i, list, part)
          PROVE  \E j : IsFirst(j, longer, part) /\ longer[j] = list[i]
      <4>1. CASE i \in 1 .. n
        <5>1. PICK j : IsFirst(j, kept, part) /\ kept[j] = list[i]
          BY <2>1, <3>3, <4>1 DEF KeptFirst
        <5>2. j \in 1 .. Len(longer) /\ longer[j] = kept[j]
          BY <3>1, <5>1 DEF IsFirst
        <5>3. \A k \in 1 .. j - 1 : longer[k] = kept[k]
          BY <3>1, <5>1 DEF IsFirst
        <5> QED BY <5>1, <5>2, <5>3 DEF IsFirst
      <4>2. CASE i = n + 1
        <5>1. \A y \in ToSet(kept) : y \notin part
          BY <2>1, <3>3, <4>2 DEF KeptFirst, IsFirst
        <5>2. \A j \in 1 .. Len(kept) : kept[j] \notin part
          BY <5>1, <2>1 DEF ToSet, KeptFirst
        <5>3. x \in part /\ list[i] = x
          BY <3>3, <4>2 DEF IsFirst, x
        <5>4. IsFirst(Len(kept) + 1, longer, part)
          BY <3>1, <5>2, <5>3 DEF IsFirst
        <5> QED BY <3>1, <5>3, <5>4
      <4> QED BY <4>1, <4>2
    <3>4. ToSet(longer) = {list[i] : i \in 1 .. n + 1} \cap set
      BY <2>1, <2>3, <2>5, <3>2 DEF KeptFirst
    <3>5. KeptFirst(longer, list, set, part, n + 1)
      BY <3>1, <3>3, <3>4 DEF KeptFirst
    <3> QED BY <2>2, <2>5, <3>5 DEF longer
  <2> QED BY <2>4, <2>5
<1>4. Len(list) \in T
  <2> HIDE DEF T
  <2> QED BY <1>2, <1>3, Induction
<1> QED BY <1>1, <1>4

\* Among returns the entries of the list that are in the set.
LEMMA AmongIs ==
  ASSUME NEW S, NEW list \in Seq(S), NEW set
  PROVE  Among(list, set) \in Seq(ToSet(list)) /\ ToSet(Among(list, set)) = ToSet(list) \cap set
<1>1. KeptFirst(Among(list, set), list, set, {}, Len(list))
  BY AmongKeeps
<1> QED BY <1>1 DEF KeptFirst, ToSet

\* The entries of two lists, one after the other.
LEMMA SetOfConcat ==
  ASSUME NEW S, NEW s \in Seq(S), NEW t \in Seq(S)
  PROVE  s \o t \in Seq(S) /\ ToSet(s \o t) = ToSet(s) \cup ToSet(t)
<1> DEFINE u == s \o t
<1>1. Len(s) \in Nat /\ Len(t) \in Nat /\ u \in Seq(S) /\ Len(u) = Len(s) + Len(t)
  OBVIOUS
<1>2. \A j \in 1 .. Len(s) + Len(t) : u[j] = IF j <= Len(s) THEN s[j] ELSE t[j - Len(s)]
  OBVIOUS
<1> HIDE DEF u
<1>3. \A j \in 1 .. Len(s) : j \in 1 .. Len(u) /\ u[j] = s[j]
  BY <1>1, <1>2
<1>4. \A j \in 1 .. Len(t) : j + Len(s) \in 1 .. Len(u) /\ u[j + Len(s)] = t[j]
  <2> SUFFICES ASSUME NEW j \in 1 .. Len(t)
               PROVE  j + Len(s) \in 1 .. Len(u) /\ u[j + Len(s)] = t[j]
    OBVIOUS
  <2>1. j + Len(s) \in 1 .. Len(s) + Len(t) /\ ~(j + Len(s) <= Len(s)) /\ (j + Len(s)) - Len(s) = j
    BY <1>1
  <2> QED BY <1>1, <1>2, <2>1
<1>5. ToSet(s) \cup ToSet(t) \subseteq ToSet(u)
  <2>1. DOMAIN u = 1 .. Len(u) /\ DOMAIN s = 1 .. Len(s) /\ DOMAIN t = 1 .. Len(t)
    BY <1>1
  <2>2. ToSet(s) \subseteq ToSet(u)
    BY <1>3, <2>1 DEF ToSet
  <2>3. ToSet(t) \subseteq ToSet(u)
    BY <1>4, <2>1 DEF ToSet
  <2> QED BY <2>2, <2>3
<1>6. ASSUME NEW j \in 1 .. Len(u) PROVE u[j] \in ToSet(s) \cup ToSet(t)
  <2>1. CASE j <= Len(s)
    BY <1>1, <1>2, <2>1 DEF ToSet
  <2>2. CASE j > Len(s)
    <3>1. j - Len(s) \in 1 .. Len(t) /\ u[j] = t[j - Len(s)]
      BY <1>1, <1>2, <2>2
    <3> QED BY <3>1 DEF ToSet
  <2> QED BY <1>1, <2>1, <2>2
<1>7. ToSet(u) \subseteq ToSet(s) \cup ToSet(t)
  BY <1>1, <1>6 DEF ToSet
<1> QED BY <1>1, <1>5, <1>7 DEF u

\* Whatever follows it, the first of its entries in a part of the set is the
\* first of the list's.
LEMMA AmongFirst ==
  ASSUME NEW S, NEW list \in Seq(S), NEW more \in Seq(S), NEW set, NEW part \in SUBSET set,
         ToSet(more) \cap part = {}
  PROVE  FirstIn(Among(list, set) \o more, part) = FirstIn(list, part)
<1> DEFINE kept == Among(list, set)
           all == kept \o more
<1>1. KeptFirst(kept, list, set, part, Len(list))
  BY AmongKeeps
<1> HIDE DEF kept
<1>2. kept \in Seq(S) /\ ToSet(kept) = ToSet(list) \cap set
  BY <1>1 DEF KeptFirst, ToSet
<1>3. /\ all \in Seq(S) /\ Len(all) = Len(kept) + Len(more) /\ Len(kept) \in Nat
      /\ \A j \in 1 .. Len(kept) : all[j] = kept[j]
      /\ \A j \in Len(kept) + 1 .. Len(all) : j - Len(kept) \in 1 .. Len(more) /\ all[j] = more[j - Len(kept)]
  <2>1. Len(kept) \in Nat /\ Len(more) \in Nat /\ all \in Seq(S) /\ Len(all) = Len(kept) + Len(more)
    BY <1>2
  <2>2. \A j \in 1 .. Len(kept) + Len(more) : all[j] = IF j <= Len(kept) THEN kept[j] ELSE more[j - Len(kept)]
    BY <1>2
  <2> HIDE DEF all
  <2> QED BY <2>1, <2>2
<1> HIDE DEF all
<1>4. CASE ToSet(list) \cap part = {}
  <2>1. \A j \in 1 .. Len(kept) : kept[j] \in ToSet(kept)
    BY <1>2 DEF ToSet
  <2>2. \A j \in 1 .. Len(more) : more[j] \in ToSet(more)
    BY DEF ToSet
  <2>3. ASSUME NEW j \in 1 .. Len(all) PROVE all[j] \notin part
    <3>1. CASE j <= Len(kept)
      BY <1>2, <1>3, <1>4, <2>1, <3>1
    <3>2. CASE j > Len(kept)
      <4>1. j \in Len(kept) + 1 .. Len(all)
        BY <1>3, <3>2
      <4> QED BY <1>3, <2>2, <4>1
    <3> QED BY <1>3, <3>1, <3>2
  <2>4. ToSet(all) \cap part = {}
    BY <1>3, <2>3 DEF ToSet
  <2> QED BY <1>3, <1>4, <2>4, FirstInNone DEF all, kept
<1>5. CASE ToSet(list) \cap part # {}
  <2>1. PICK i : IsFirst(i, list, part)
    BY <1>5, FirstExists
  <2>2. PICK j : IsFirst(j, kept, part) /\ kept[j] = list[i]
    BY <1>1, <2>1 DEF KeptFirst, IsFirst
  <2>3. IsFirst(j, all, part) /\ all[j] = list[i]
    <3>1. j \in 1 .. Len(kept) /\ kept[j] \in part /\ \A k \in 1 .. j - 1 : kept[k] \notin part
      BY <2>2 DEF IsFirst
    <3>2. j \in 1 .. Len(all) /\ \A k \in 1 .. j - 1 : k \in 1 .. Len(kept)
      BY <1>3, <3>1
    <3> QED BY <1>3, <2>2, <3>1, <3>2 DEF IsFirst
  <2>4. FirstIn(all, part) = all[j]
    BY <1>3, <2>3, FirstInIs
  <2>5. FirstIn(list, part) = list[i]
    BY <2>1, FirstInIs
  <2> QED BY <2>3, <2>4, <2>5 DEF all, kept
<1> QED BY <1>4, <1>5

\* What is kept of the first n entries depends on these only.
IsKept(f, list, set, n) == \A k \in 0 .. n : f[k] = Prefix(f, list, set, k)
Alike(s, A, t, B, n)    == \A k \in 1 .. n : s[k] = t[k] /\ (s[k] \in A <=> t[k] \in B)

LEMMA KeptSame ==
  ASSUME NEW f, NEW g, NEW s, NEW t, NEW A, NEW B, NEW n \in Nat,
         IsKept(f, s, A, n), IsKept(g, t, B, n), Alike(s, A, t, B, n)
  PROVE  f[n] = g[n]
<1> DEFINE T == {m \in Nat : m <= n => f[m] = g[m]}
<1>1. 0 \in T
  BY DEF Prefix, IsKept
<1>2. ASSUME NEW m \in Nat, m \in T PROVE m + 1 \in T
  <2> SUFFICES ASSUME m + 1 <= n PROVE f[m + 1] = g[m + 1]
    OBVIOUS
  <2>1. m + 1 \in 1 .. n /\ m + 1 # 0 /\ (m + 1) - 1 = m /\ f[m] = g[m]
    BY <1>2
  <2>2. f[m + 1] = Prefix(f, s, A, m + 1) /\ g[m + 1] = Prefix(g, t, B, m + 1)
    BY <2>1 DEF IsKept
  <2>3. s[m + 1] = t[m + 1] /\ (s[m + 1] \in A <=> t[m + 1] \in B)
    BY <2>1 DEF Alike
  <2> QED BY <2>1, <2>2, <2>3 DEF Prefix
<1>3. n \in T
  <2> HIDE DEF T
  <2> QED BY <1>1, <1>2, Induction
<1> QED BY <1>3

\* Among asks only which entries are in the set.
LEMMA AmongSame ==
  ASSUME NEW S, NEW list \in Seq(S), NEW A, NEW B, \A i \in 1 .. Len(list) : list[i] \in A <=> list[i] \in B
  PROVE  Among(list, A) = Among(list, B)
<1>0. Len(list) \in Nat
  OBVIOUS
<1>1. PICK f : IsKept(f, list, A, Len(list)) /\ Among(list, A) = f[Len(list)]
  BY <1>0, AmongDef DEF IsKept
<1>2. PICK g : IsKept(g, list, B, Len(list)) /\ Among(list, B) = g[Len(list)]
  BY <1>0, AmongDef DEF IsKept
<1>3. f[Len(list)] = g[Len(list)]
  <2>1. Alike(list, A, list, B, Len(list))
    BY DEF Alike
  <2> QED BY <1>0, <1>1, <1>2, <2>1, KeptSame
<1> QED BY <1>1, <1>2, <1>3

\* An entry more at the end.
LEMMA AmongAppend ==
  ASSUME NEW S, NEW list \in Seq(S), NEW x \in S, NEW set
  PROVE  Among(Append(list, x), set) = IF x \in set THEN Append(Among(list, set), x) ELSE Among(list, set)
<1> DEFINE longer == Append(list, x)
           n == Len(list)
<1>0. n \in Nat /\ Len(longer) = n + 1 /\ longer[n + 1] = x /\ \A k \in 1 .. n : longer[k] = list[k]
  OBVIOUS
<1> HIDE DEF longer
<1>1. PICK f : IsKept(f, list, set, n) /\ Among(list, set) = f[n]
  BY <1>0, AmongDef DEF IsKept
<1>2. PICK g : IsKept(g, longer, set, n + 1) /\ Among(longer, set) = g[n + 1]
  <2>1. Len(longer) \in Nat
    BY <1>0
  <2> QED BY <1>0, <2>1, AmongDef DEF IsKept
<1> HIDE DEF n
<1>3. g[n] = f[n]
  <2>1. IsKept(g, longer, set, n)
    BY <1>0, <1>2 DEF IsKept
  <2>2. Alike(longer, set, list, set, n)
    BY <1>0 DEF Alike
  <2> QED BY <1>0, <1>1, <2>1, <2>2, KeptSame
<1>4. g[n + 1] = IF x \in set THEN Append(g[n], x) ELSE g[n]
  <2>1. g[n + 1] = Prefix(g, longer, set, n + 1) /\ n + 1 # 0 /\ (n + 1) - 1 = n
    BY <1>0, <1>2 DEF IsKept
  <2> QED BY <1>0, <2>1 DEF Prefix
<1> QED BY <1>1, <1>2, <1>3, <1>4 DEF longer

\* The numbers up to n.
UpTo(n) == [i \in 1 .. n |-> i]

LEMMA UpToNext ==
  ASSUME NEW n \in Nat
  PROVE  UpTo(n) \in Seq(Nat) /\ Len(UpTo(n)) = n /\ UpTo(n + 1) = Append(UpTo(n), n + 1)
<1>1. UpTo(n) \in Seq(Nat) /\ Len(UpTo(n)) = n
  BY DEF UpTo
<1>2. Append(UpTo(n), n + 1) = [i \in 1 .. n + 1 |-> IF i <= n THEN i ELSE n + 1]
  BY <1>1 DEF UpTo
<1> QED BY <1>1, <1>2 DEF UpTo

\* A number above all others of a set comes last.
LEMMA AmongLast ==
  ASSUME NEW n \in Nat, NEW p \in 1 .. n, NEW A \in SUBSET (1 .. p - 1)
  PROVE  Among(UpTo(n), A \cup {p}) = Append(Among(UpTo(n), A), p)
<1> DEFINE L(m) == Among(UpTo(m), A)
           M(m) == Among(UpTo(m), A \cup {p})
           T == {m \in Nat : M(m) = IF m < p THEN L(m) ELSE Append(L(m), p)}
<1>0. \A m \in Nat : /\ L(m + 1) = IF m + 1 \in A THEN Append(L(m), m + 1) ELSE L(m)
                     /\ M(m + 1) = IF m + 1 \in A \cup {p} THEN Append(M(m), m + 1) ELSE M(m)
  <2> SUFFICES ASSUME NEW m \in Nat
               PROVE  /\ L(m + 1) = IF m + 1 \in A THEN Append(L(m), m + 1) ELSE L(m)
                      /\ M(m + 1) = IF m + 1 \in A \cup {p} THEN Append(M(m), m + 1) ELSE M(m)
    OBVIOUS
  <2>1. UpTo(m) \in Seq(Nat) /\ UpTo(m + 1) = Append(UpTo(m), m + 1)
    BY UpToNext
  <2>2. m + 1 \in Nat
    OBVIOUS
  <2>3. ASSUME NEW set
        PROVE  Among(UpTo(m + 1), set)
                 = IF m + 1 \in set THEN Append(Among(UpTo(m), set), m + 1) ELSE Among(UpTo(m), set)
    <3> DEFINE list == UpTo(m)
               x    == m + 1
    <3>1. list \in Seq(Nat) /\ x \in Nat
      BY <2>1, <2>2
    <3> HIDE DEF list, x
    <3>2. Among(Append(list, x), set) = IF x \in set THEN Append(Among(list, set), x) ELSE Among(list, set)
      BY <3>1, AmongAppend
    <3> QED BY <2>1, <3>2 DEF list, x
  <2> QED BY <2>3
<1>1. 0 \in T
  <2>1. UpTo(0) \in Seq(Nat) /\ Len(UpTo(0)) = 0
    BY UpToNext
  <2>2. L(0) = M(0)
    BY <2>1, AmongSame
  <2> HIDE DEF L, M
  <2> QED BY <2>2
<1>2. ASSUME NEW m \in Nat, m \in T PROVE m + 1 \in T
  <2> HIDE DEF L, M
  <2>1. CASE m + 1 < p
    <3>1. m + 1 \in A \cup {p} <=> m + 1 \in A
      BY <2>1
    <3>2. M(m) = L(m)
      BY <1>2, <2>1
    <3>3. M(m + 1) = L(m + 1)
      BY <1>0, <3>1, <3>2
    <3> QED BY <2>1, <3>3
  <2>2. CASE m + 1 = p
    <3>1. m + 1 \notin A
      BY <2>2
    <3>2. M(m) = L(m)
      BY <1>2, <2>2
    <3>3. M(m + 1) = Append(L(m + 1), p)
      BY <1>0, <2>2, <3>1, <3>2
    <3> QED BY <2>2, <3>3
  <2>3. CASE m + 1 > p
    <3>1. m + 1 \notin A \cup {p}
      BY <2>3
    <3>2. M(m) = Append(L(m), p)
      BY <1>2, <2>3
    <3>3. M(m + 1) = Append(L(m + 1), p)
      BY <1>0, <3>1, <3>2
    <3> QED BY <2>3, <3>3
  <2> QED BY <2>1, <2>2, <2>3
<1>3. n \in T
  <2> HIDE DEF T
  <2> QED BY <1>1, <1>2, Induction
<1>4. M(n) = Append(L(n), p)
  <2> HIDE DEF L, M
  <2> QED BY <1>3
<1> QED BY <1>4

----------------------------------------------------------------------------
(***************************************************************************)
(* Versions and hellos.                                                    *)
(***************************************************************************)
\* The versions of the program, the highest first.
LEMMA Versions ==
  /\ AllVersions \in Seq(Nat) /\ Len(AllVersions) = 5
  /\ ToSet(AllVersions) = {768, 769, 770, 771, 772}
  /\ \A i, j \in 1 .. 5 : i <= j => AllVersions[j] <= AllVersions[i]
BY DEF AllVersions, VersionSSL30, VersionTLS10, VersionTLS11, VersionTLS12, VersionTLS13, ToSet

LEMMA VersionNumbers == ToSet(AllVersions) \subseteq Nat
BY Versions

\* The first of them in a set is the highest in it.
LEMMA HighestFirst ==
  ASSUME NEW V \in SUBSET ToSet(AllVersions), V # {}
  PROVE  FirstIn(AllVersions, V) \in V /\ \A v \in V : v <= FirstIn(AllVersions, V)
<1>1. PICK i : IsFirst(i, AllVersions, V)
  <2>1. ToSet(AllVersions) \cap V # {}
    OBVIOUS
  <2> QED BY <2>1, Versions, FirstExists
<1>2. FirstIn(AllVersions, V) = AllVersions[i]
  BY <1>1, Versions, FirstInIs
<1>3. ASSUME NEW v \in V PROVE v <= AllVersions[i]
  <2>1. PICK j \in 1 .. 5 : v = AllVersions[j]
    BY Versions DEF ToSet
  <2>2. i <= j
    BY <1>1, <2>1, Versions DEF IsFirst
  <2> QED BY <1>1, <2>1, <2>2, Versions DEF IsFirst
<1> QED BY <1>1, <1>2, <1>3 DEF IsFirst

\* What a configuration supports is a list of them, in the same order.
LEMMA Supported ==
  ASSUME NEW c, NEW isClient
  PROVE  LET versions == SupportedVersions(c, isClient)
         IN  /\ versions \in Seq(Nat) /\ ToSet(versions) \subseteq ToSet(AllVersions)
             /\ \A V \in SUBSET ToSet(versions) : FirstIn(versions, V) = FirstIn(AllVersions, V)
<1> DEFINE chosen == {v \in ToSet(AllVersions) :
                        /\ c.minVersion # None => v >= c.minVersion
                        /\ c.maxVersion # None => v <= c.maxVersion
                        /\ isClient => v >= VersionTLS10
                        /\ v = VersionTLS13 => Tls13}
           versions == SupportedVersions(c, isClient)
<1>1. versions = Among(AllVersions, chosen) /\ chosen \subseteq ToSet(AllVersions)
  BY DEF SupportedVersions
<1> HIDE DEF chosen, versions
<1>2. versions \in Seq(ToSet(AllVersions)) /\ ToSet(versions) = chosen
  <2>1. AllVersions \in Seq(Nat)
    BY Versions
  <2>2. /\ Among(AllVersions, chosen) \in Seq(ToSet(AllVersions))
        /\ ToSet(Among(AllVersions, chosen)) = ToSet(AllVersions) \cap chosen
    BY <2>1, AmongIs
  <2> QED BY <1>1, <2>2
<1>3. versions \in Seq(Nat)
  BY <1>2, VersionNumbers, SeqGrows
<1>4. ASSUME NEW V \in SUBSET ToSet(versions) PROVE FirstIn(versions, V) = FirstIn(AllVersions, V)
  <2>1. versions \o <<>> = versions
    BY <1>3
  <2>2. <<>> \in Seq(Nat) /\ ToSet(<<>>) \cap V = {} /\ V \in SUBSET chosen
    BY <1>2 DEF ToSet
  <2>3. FirstIn(Among(AllVersions, chosen) \o <<>>, V) = FirstIn(AllVersions, V)
    <3>1. AllVersions \in Seq(Nat)
      BY Versions
    <3> QED BY <2>2, <3>1, AmongFirst
  <2> QED BY <1>1, <2>1, <2>3
<1> QED BY <1>1, <1>2, <1>3, <1>4 DEF versions

\* The fields of a ClientHello that the laws are about.
LEMMA HelloIs ==
  ASSUME NEW c, MakeClientHello(c) # None
  PROVE  LET h == MakeClientHello(c)
         IN  /\ h.supportedVersions = SupportedVersions(c, TRUE) /\ h.supportedVersions # <<>>
             /\ h.vers \in Nat /\ \A v \in ToSet(h.supportedVersions) : v <= VersionTLS12 => v <= h.vers
             /\ \/ h.cipherSuites = AdvertisedSuites(c, h.vers) \o <<>>
                \/ h.cipherSuites = AdvertisedSuites(c, h.vers) \o DefaultCipherSuitesTLS13
             /\ h.supportedCurves = CurvePreferences(c)
             /\ h.vers >= VersionTLS12 => h.supportedSignatureAlgorithms = SupportedSignatureAlgorithms
             /\ h.serverName = HostnameInSNI(c.server)
<1> DEFINE versions == SupportedVersions(c, TRUE)
           legacy   == IF versions[1] > VersionTLS12 THEN VersionTLS12 ELSE versions[1]
           h        == MakeClientHello(c)
<1>1. versions # <<>>
  BY DEF MakeClientHello
<1>2. h = [vers |-> legacy,
           supportedVersions |-> versions,
           cipherSuites |-> AdvertisedSuites(c, legacy)
                              \o (IF versions[1] = VersionTLS13 THEN DefaultCipherSuitesTLS13 ELSE <<>>),
           supportedCurves |-> CurvePreferences(c),
           supportedSignatureAlgorithms |-> IF legacy >= VersionTLS12 THEN SupportedSignatureAlgorithms ELSE <<>>,
           alpnProtocols |-> c.protos,
           serverName |-> HostnameInSNI(c.server),
           keyShares |-> IF versions[1] = VersionTLS13 THEN <<CurvePreferences(c)[1]>> ELSE <<>>]
  BY <1>1 DEF MakeClientHello
<1>3. versions[1] \in Nat /\ \A v \in ToSet(versions) : v \in Nat /\ v <= versions[1]
  <2> DEFINE V == ToSet(versions)
  <2>1. versions \in Seq(Nat) /\ V \subseteq ToSet(AllVersions) /\ FirstIn(versions, V) = FirstIn(AllVersions, V)
    BY Supported
  <2> HIDE DEF versions
  <2>2. IsFirst(1, versions, V)
    BY <1>1, <2>1 DEF IsFirst, ToSet
  <2>3. FirstIn(versions, V) = versions[1]
    BY <2>1, <2>2, FirstInIs
  <2>4. V # {}
    BY <2>2 DEF IsFirst
  <2> HIDE DEF V
  <2>5. \A v \in V : v <= FirstIn(AllVersions, V)
    BY <2>1, <2>4, HighestFirst
  <2>6. V \subseteq Nat /\ versions[1] \in Nat
    <3>1. V \subseteq Nat
      BY <2>1, VersionNumbers
    <3>2. versions[1] \in V
      BY <2>2 DEF IsFirst
    <3> QED BY <3>1, <3>2
  <2> QED BY <2>1, <2>3, <2>5, <2>6 DEF V
<1> HIDE DEF versions
<1>4. legacy \in Nat /\ \A v \in ToSet(versions) : v <= VersionTLS12 => v <= legacy
  BY <1>3 DEF VersionTLS12
<1> HIDE DEF legacy
<1>5. /\ h.supportedVersions = versions /\ h.vers = legacy /\ h.supportedCurves = CurvePreferences(c)
      /\ h.serverName = HostnameInSNI(c.server)
      /\ h.supportedSignatureAlgorithms = IF legacy >= VersionTLS12 THEN SupportedSignatureAlgorithms ELSE <<>>
      /\ h.cipherSuites = AdvertisedSuites(c, legacy)
                            \o (IF versions[1] = VersionTLS13 THEN DefaultCipherSuitesTLS13 ELSE <<>>)
  BY <1>2
<1> HIDE DEF h
<1>6. \/ h.cipherSuites = AdvertisedSuites(c, h.vers) \o <<>>
      \/ h.cipherSuites = AdvertisedSuites(c, h.vers) \o DefaultCipherSuitesTLS13
  BY <1>5
<1> QED BY <1>1, <1>4, <1>5, <1>6 DEF versions, h
=============================================================================
