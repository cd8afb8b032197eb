--------------------------- MODULE RotationProofs ---------------------------
(* Theorems about Rotation: descriptors, names and the log's continuity.     *)
(*                                                                         *)
(* The argument is one token.  Between the opening of the log and its end    *)
(* exactly one of these owns the right to the next file: whoever prepares it *)
(* (the opening thread, later the rotator), the handle that keeps it         *)
(* prepared, the writer that swaps to it, the queue with the message about   *)
(* it, the rotator that renames it.  Hence no two rotations overlap, and      *)
(* files come and go in the order of their numbers.                          *)
EXTENDS RotationProperties, SequenceTheorems, FiniteSetTheorems, TLAPS

-----------------------------------------------------------------------------
(* Names and lines *)

LEMMA NameFacts ==
    /\ Base \in Names /\ MaxFiles \in Nat
    /\ \A f \in 1 .. MaxFiles : Temp(f) \in Names /\ Temp(f) # Base /\ Temp(f) \notin RotatedNames
    /\ \A f, g : Temp(f) = Temp(g) => f = g
    /\ \A r \in RotatedNames : r \in Names /\ r # Base /\ r # NoName /\ \A f : r # Temp(f)
    /\ NoName \notin Names
    /\ \A n \in Names : n = Base \/ n \in RotatedNames \/ \E f \in 1 .. MaxFiles : n = Temp(f)
<1>1. MaxFiles \in Nat
  BY RotationAssumption DEF MaxFiles
<1> QED BY <1>1 DEF Names, Base, Temp, RotatedNames, NoName

(* Natural numbers are well-founded: this stands in for induction.           *)
LEMMA NatMin == ASSUME NEW T \in SUBSET Nat, T # {}
                PROVE  \E x \in T : \A y \in T : x <= y
<1> DEFINE Less == {p \in Nat \X Nat : p[1] < p[2]}
<1>1. IsWellFoundedOn(Less, Nat)
  BY NatLessThanWellFounded DEF OpToRel
<1> HIDE DEF Less
<1>2. PICK x \in T : \A y \in T : <<y, x>> \notin Less
  BY <1>1, WFMin
<1>3. ASSUME NEW y \in T PROVE x <= y
  <2>1. <<y, x>> \in Less <=> y < x
    BY DEF Less
  <2> QED BY <2>1, <1>2
<1> QED BY <1>3

LEMMA MaxFacts == ASSUME NEW n \in Nat, NEW S \in SUBSET (1 .. n), S # {}
                  PROVE  Max(S) \in S /\ \A x \in S : x <= Max(S)
<1> DEFINE T == {n - x : x \in S}
<1>1. T \in SUBSET Nat /\ T # {}
  <2>1. \A x \in S : x \in 1 .. n /\ n - x \in Nat
    OBVIOUS
  <2> QED BY <2>1
<1>2. PICK y \in T : \A z \in T : y <= z
  BY <1>1, NatMin
<1>3. PICK m \in S : y = n - m
  OBVIOUS
<1>4. \A x \in S : x <= m
  BY <1>2, <1>3
<1>5. \E x \in S : \A z \in S : x >= z
  BY <1>4
<1>6. Max(S) \in S /\ \A z \in S : Max(S) >= z
  BY <1>5 DEF Max
<1> QED BY <1>6

LEMMA Interval == ASSUME NEW n \in Nat PROVE IsFiniteSet(1 .. n) /\ Cardinality(1 .. n) = n
<1>1. IsFiniteSet(1 .. n) /\ Cardinality(1 .. n) = IF 1 > n THEN 0 ELSE n - 1 + 1
  BY FS_Interval
<1>2. (IF 1 > n THEN 0 ELSE n - 1 + 1) = n
  OBVIOUS
<1> QED BY <1>1, <1>2

LEMMA StampFacts ==
    ASSUME where \in Seq(Nat), NEW f
    PROVE  /\ Stamp(f) \in Nat
           /\ LinesIn(f) # {} => /\ Stamp(f) \in DOMAIN where /\ where[Stamp(f)] = f
                                 /\ \A n \in LinesIn(f) : n <= Stamp(f)
<1>1. Len(where) \in Nat /\ DOMAIN where = 1 .. Len(where) /\ LinesIn(f) \in SUBSET (1 .. Len(where))
  BY DEF LinesIn
<1>2. CASE LinesIn(f) = {}
  BY <1>1, <1>2 DEF Stamp
<1>3. CASE LinesIn(f) # {}
  <2>1. Max(LinesIn(f)) \in LinesIn(f) /\ \A n \in LinesIn(f) : n <= Max(LinesIn(f))
    BY <1>1, <1>3, MaxFacts
  <2> QED BY <1>1, <1>3, <2>1 DEF Stamp, LinesIn
<1> QED BY <1>2, <1>3

Entries == [name : RotatedNames, stamp : Nat, size : Nat]

LEMMA EntryFacts ==
    ASSUME where \in Seq(Nat), NEW n \in RotatedNames
    PROVE  Entry(n) \in Entries /\ Entry(n).name = n
           /\ Entry(n).stamp = Stamp(dir[n])
<1>1. IsFiniteSet(LinesIn(dir[n]))
  <2>1. Len(where) \in Nat /\ LinesIn(dir[n]) \subseteq 1 .. Len(where)
    BY DEF LinesIn
  <2>2. IsFiniteSet(1 .. Len(where))
    BY <2>1, FS_Interval
  <2> QED BY <2>1, <2>2, FS_Subset
<1>2. Cardinality(LinesIn(dir[n])) \in Nat
  BY <1>1, FS_CardinalityType
<1>3. Stamp(dir[n]) \in Nat
  BY StampFacts
<1> QED BY <1>2, <1>3 DEF Entry, Entries

-----------------------------------------------------------------------------
(* What retention keeps *)

Nothing == [total |-> 0, kept |-> <<>>]
Looked(s, h, i, acc) ==
    IF Expired(s, i, acc.total, h) THEN acc
    ELSE [total |-> acc.total + s[i].size, kept |-> Append(acc.kept, s[i])]
Keeps(s, h, n, U) ==
    U = [i \in 0 .. n |-> IF i = 0 THEN Nothing ELSE Looked(s, h, i, U[i - 1])]

LEMMA KeepsAt == ASSUME NEW s, NEW h, NEW n \in Nat, NEW U, Keeps(s, h, n, U)
                 PROVE  /\ U[0] = Nothing
                        /\ \A i \in 1 .. n : U[i] = Looked(s, h, i, U[i - 1])
<1> DEFINE F(i) == IF i = 0 THEN Nothing ELSE Looked(s, h, i, U[i - 1])
<1>1. U = [i \in 0 .. n |-> F(i)]
  BY DEF Keeps
<1>2. \A i \in 0 .. n : U[i] = F(i)
  BY <1>1
<1> QED BY <1>2

LEMMA KeepsExists == ASSUME NEW s, NEW h, NEW n \in Nat
                     PROVE  \E U : Keeps(s, h, n, U)
<1> DEFINE Bad == {m \in Nat : ~ \E U : Keeps(s, h, m, U)}
<1> SUFFICES ASSUME Bad # {} PROVE FALSE
  OBVIOUS
<1>1. PICK m \in Bad : \A k \in Bad : m <= k
  BY NatMin
<1>2. m # 0
  <2>1. Keeps(s, h, 0, [i \in 0 .. 0 |-> Nothing])
    BY DEF Keeps
  <2> QED BY <2>1
<1>3. m - 1 \in Nat /\ m - 1 \notin Bad
  BY <1>1, <1>2
<1>4. PICK U : Keeps(s, h, m - 1, U)
  BY <1>3
<1> DEFINE V == [i \in 0 .. m |-> IF i = m THEN Looked(s, h, m, U[m - 1]) ELSE U[i]]
<1>5. ASSUME NEW i \in 0 .. m
      PROVE  V[i] = IF i = 0 THEN Nothing ELSE Looked(s, h, i, V[i - 1])
  <2>1. CASE i = m
    BY <2>1, <1>2
  <2>2. CASE i # m
    <3>1. i \in 0 .. m - 1 /\ V[i] = U[i] /\ (i # 0 => V[i - 1] = U[i - 1])
      BY <2>2, <1>3
    <3>2. CASE i = 0
      BY <3>1, <3>2, <1>3, <1>4, KeepsAt
    <3>3. CASE i # 0
      <4>1. i \in 1 .. m - 1
        BY <3>1, <3>3
      <4>2. U[i] = Looked(s, h, i, U[i - 1])
        BY <4>1, <1>3, <1>4, KeepsAt
      <4> QED BY <3>1, <3>3, <4>2
    <3> QED BY <3>2, <3>3
  <2> QED BY <2>1, <2>2
<1>6. Keeps(s, h, m, V)
  BY <1>5 DEF Keeps
<1> QED BY <1>6

(* Entry i of s stays as far as its place and its age go.                    *)
Stays(s, h, i) == ~(KeepFiles > 0 /\ i + KeepFiles <= Len(s)) /\ ~(s[i].stamp <= h)

(* k is what stays of the first n entries of s, at the places g.             *)
Picks(s, h, n, k, g) ==
    /\ g \in [1 .. Len(k) -> 1 .. n]
    /\ \A j \in 1 .. Len(k) : k[j] = s[g[j]] /\ Stays(s, h, g[j])
    /\ \A i, j \in 1 .. Len(k) : i < j => g[i] < g[j]
    /\ MaxTotal = 0 => \A i \in 1 .. n : Stays(s, h, i) => \E j \in 1 .. Len(k) : g[j] = i
FewKept(s, n, k) ==
    KeepFiles > 0 => Len(k) = 0 \/ Len(k) + Len(s) <= n + KeepFiles

LEMMA PicksNext ==
    ASSUME NEW s \in Seq(Entries), NEW h \in Nat, NEW n \in 1 .. Len(s), NEW k \in Seq(Entries),
           NEW g, Picks(s, h, n - 1, k, g), FewKept(s, n - 1, k), Stays(s, h, n)
    PROVE  /\ Append(k, s[n]) \in Seq(Entries) /\ FewKept(s, n, Append(k, s[n]))
           /\ \E f : Picks(s, h, n, Append(k, s[n]), f)
<1> DEFINE r == Append(k, s[n])
           f == [j \in 1 .. Len(r) |-> IF j = Len(r) THEN n ELSE g[j]]
<1>1. Len(k) \in Nat /\ Len(s) \in Nat /\ n \in Nat /\ s[n] \in Entries /\ KeepFiles \in Nat
  BY RotationAssumption
<1>2. /\ r \in Seq(Entries) /\ Len(r) = Len(k) + 1 /\ r[Len(k) + 1] = s[n]
      /\ \A i \in 1 .. Len(k) : r[i] = k[i]
  BY <1>1, AppendProperties
<1> HIDE DEF r
<1>3. /\ \A i \in 1 .. Len(k) : f[i] = g[i] /\ g[i] \in 1 .. n - 1
      /\ f[Len(k) + 1] = n /\ 1 .. Len(r) = (1 .. Len(k)) \cup {Len(k) + 1}
  <2>1. 1 .. Len(r) = (1 .. Len(k)) \cup {Len(k) + 1} /\ Len(k) + 1 \in 1 .. Len(r)
    BY <1>1, <1>2
  <2>2. \A i \in 1 .. Len(k) : i \in 1 .. Len(r) /\ i # Len(r)
    BY <1>1, <1>2
  <2>3. \A i \in 1 .. Len(k) : g[i] \in 1 .. n - 1
    BY DEF Picks
  <2>4. f[Len(k) + 1] = n
    BY <2>1, <1>2
  <2>5. \A i \in 1 .. Len(k) : f[i] = g[i]
    BY <2>2
  <2> QED BY <2>1, <2>3, <2>4, <2>5
<1>4. f \in [1 .. Len(r) -> 1 .. n]
  <2>1. \A x \in 1 .. n - 1 : x \in 1 .. n
    BY <1>1
  <2>2. n \in 1 .. n
    BY <1>1
  <2>3. \A i \in 1 .. Len(r) : f[i] \in 1 .. n
    <3> HIDE DEF f
    <3> QED BY <2>1, <2>2, <1>3
  <2> QED BY <2>3
<1> HIDE DEF f
<1>5. \A j \in 1 .. Len(r) : r[j] = s[f[j]] /\ Stays(s, h, f[j])
  BY <1>1, <1>2, <1>3 DEF Picks
<1>6. \A i, j \in 1 .. Len(r) : i < j => f[i] < f[j]
  <2> SUFFICES ASSUME NEW i \in 1 .. Len(r), NEW j \in 1 .. Len(r), i < j PROVE f[i] < f[j]
    OBVIOUS
  <2>1. i \in 1 .. Len(k)
    BY <1>1, <1>2
  <2>2. CASE j \in 1 .. Len(k)
    BY <2>1, <2>2, <1>3 DEF Picks
  <2>3. CASE j = Len(k) + 1
    <3>1. f[i] \in 1 .. n - 1 /\ f[j] = n
      BY <2>1, <2>3, <1>3
    <3> QED BY <3>1, <1>1
  <2> QED BY <2>2, <2>3, <1>3
<1>7. ASSUME MaxTotal = 0, NEW i \in 1 .. n, Stays(s, h, i) PROVE \E j \in 1 .. Len(r) : f[j] = i
  <2>1. CASE i = n
    BY <2>1, <1>3
  <2>2. CASE i # n
    <3>1. i \in 1 .. n - 1
      BY <2>2, <1>1
    <3>2. PICK j \in 1 .. Len(k) : g[j] = i
      BY <3>1, <1>7 DEF Picks
    <3> QED BY <3>2, <1>3
  <2> QED BY <2>1, <2>2
<1>8. FewKept(s, n, r)
  BY <1>1, <1>2 DEF FewKept, Stays
<1>9. Picks(s, h, n, r, f)
  BY <1>4, <1>5, <1>6, <1>7 DEF Picks
<1> QED BY <1>2, <1>8, <1>9 DEF r

LEMMA RetainedFacts ==
    ASSUME NEW s \in Seq(Entries), NEW h \in Nat
    PROVE  /\ Retained(s, h) \in Seq(Entries)
           /\ KeepFiles > 0 => Len(Retained(s, h)) <= KeepFiles
           /\ \E g : Picks(s, h, Len(s), Retained(s, h), g)
<1>1. Len(s) \in Nat
  OBVIOUS
<1>2. PICK U : Keeps(s, h, Len(s), U) /\ Retained(s, h) = U[Len(s)].kept
  <2> DEFINE W == CHOOSE W : Keeps(s, h, Len(s), W)
  <2>1. Keeps(s, h, Len(s), W)
    BY <1>1, KeepsExists
  <2>2. Retained(s, h) = W[Len(s)].kept
    BY DEF Retained, Keeps, Looked, Nothing
  <2> QED BY <2>1, <2>2
<1> DEFINE Fine(n) == /\ U[n].kept \in Seq(Entries) /\ FewKept(s, n, U[n].kept)
                      /\ \E g : Picks(s, h, n, U[n].kept, g)
           Bad == {n \in Nat : n <= Len(s) /\ ~Fine(n)}
<1>3. Fine(0)
  <2>1. U[0].kept = <<>>
    <3>1. U[0] = Nothing
      BY <1>1, <1>2, KeepsAt
    <3> QED BY <3>1 DEF Nothing
  <2>2. <<>> \in Seq(Entries) /\ Len(<<>>) = 0
    OBVIOUS
  <2>3. Picks(s, h, 0, <<>>, [j \in 1 .. 0 |-> 0])
    BY <2>2 DEF Picks
  <2>4. FewKept(s, 0, <<>>)
    BY <2>2 DEF FewKept
  <2> QED BY <2>1, <2>2, <2>3, <2>4
<1>4. ASSUME NEW n \in 1 .. Len(s), Fine(n - 1) PROVE Fine(n)
  <2> DEFINE k == U[n - 1].kept
  <2>1. U[n] = Looked(s, h, n, U[n - 1])
    BY <1>1, <1>2, KeepsAt
  <2>2. PICK g : Picks(s, h, n - 1, k, g)
    BY <1>4
  <2>3. k \in Seq(Entries) /\ FewKept(s, n - 1, k)
    BY <1>4
  <2>4. CASE Expired(s, n, U[n - 1].total, h)
    <3>1. U[n].kept = k
      BY <2>1, <2>4 DEF Looked
    <3>2. Len(k) \in Nat /\ KeepFiles \in Nat /\ MaxTotal \in Nat
      BY <2>3, RotationAssumption
    <3>3. MaxTotal = 0 => ~Stays(s, h, n)
      BY <2>4, <3>2 DEF Expired, Stays
    <3>4. Picks(s, h, n, k, g)
      <4>1. g \in [1 .. Len(k) -> 1 .. n]
        <5>1. \A j \in 1 .. Len(k) : g[j] \in 1 .. n - 1
          BY <2>2 DEF Picks
        <5>2. \A j \in 1 .. Len(k) : g[j] \in 1 .. n
          BY <5>1
        <5> QED BY <5>2, <2>2 DEF Picks
      <4>2. MaxTotal = 0 => \A i \in 1 .. n : Stays(s, h, i) => \E j \in 1 .. Len(k) : g[j] = i
        <5> SUFFICES ASSUME MaxTotal = 0, NEW i \in 1 .. n, Stays(s, h, i)
                     PROVE  \E j \in 1 .. Len(k) : g[j] = i
          OBVIOUS
        <5>1. i \in 1 .. n - 1
          BY <3>3
        <5> QED BY <5>1, <2>2 DEF Picks
      <4> QED BY <4>1, <4>2, <2>2 DEF Picks
    <3>5. FewKept(s, n, k)
      BY <2>3, <3>2, <1>1 DEF FewKept
    <3> QED BY <3>1, <3>4, <3>5, <2>3
  <2>5. CASE ~Expired(s, n, U[n - 1].total, h)
    <3>1. U[n].kept = Append(k, s[n])
      BY <2>1, <2>5 DEF Looked
    <3>2. Stays(s, h, n)
      BY <2>5 DEF Expired, Stays
    <3> HIDE DEF k
    <3>3. /\ Append(k, s[n]) \in Seq(Entries) /\ FewKept(s, n, Append(k, s[n]))
          /\ \E f : Picks(s, h, n, Append(k, s[n]), f)
      BY <2>2, <2>3, <3>2, PicksNext
    <3> QED BY <3>1, <3>3
  <2> QED BY <2>4, <2>5
<1> HIDE DEF Fine
<1>5. Bad = {}
  <2> SUFFICES ASSUME Bad # {} PROVE FALSE
    OBVIOUS
  <2>1. PICK n \in Bad : \A k \in Bad : n <= k
    BY NatMin
  <2>2. n \in 1 .. Len(s) /\ n - 1 \in Nat /\ n - 1 \notin Bad
    BY <2>1, <1>1, <1>3
  <2>3. Fine(n - 1)
    BY <2>2, <1>1
  <2> QED BY <2>2, <2>3, <1>4
<1>6. Fine(Len(s))
  BY <1>1, <1>5
<1>7. KeepFiles > 0 => Len(Retained(s, h)) <= KeepFiles
  <2>1. Len(Retained(s, h)) \in Nat /\ FewKept(s, Len(s), Retained(s, h))
    BY <1>2, <1>6 DEF Fine
  <2> QED BY <2>1, <1>1, RotationAssumption DEF FewKept
<1> QED BY <1>2, <1>6, <1>7 DEF Fine

LEMMA ByAgeFacts ==
    ASSUME NEW c \in Seq(Entries), NEW s \in ByAge(c)
    PROVE  /\ s \in Seq(Entries) /\ Len(s) = Len(c) /\ Sorted(s)
           /\ \E p \in Bijection(1 .. Len(c), 1 .. Len(c)) : \A i \in 1 .. Len(c) : s[i] = c[p[i]]
<1>1. Len(c) \in Nat /\ DOMAIN c = 1 .. Len(c) /\ \A i \in 1 .. Len(c) : c[i] \in Entries
  OBVIOUS
<1>2. PICK p \in Bijection(1 .. Len(c), 1 .. Len(c)) : s = [i \in 1 .. Len(c) |-> c[p[i]]]
  BY <1>1 DEF ByAge
<1>3. \A i \in 1 .. Len(c) : p[i] \in 1 .. Len(c)
  BY DEF Bijection, Injection
<1>4. s \in [1 .. Len(c) -> Entries]
  BY <1>1, <1>2, <1>3
<1>5. s \in Seq(Entries) /\ Len(s) = Len(c)
  BY <1>1, <1>4
<1> QED BY <1>2, <1>5 DEF ByAge

(* What both ways of retention do: some entries of the cache go, and the     *)
(* files of their names with them; without a limit of the total, no entry    *)
(* that goes is newer than one that stays.                                   *)
Chosen(g) ==
    /\ g \in [1 .. Len(cache') -> 1 .. Len(cache)]
    /\ \A j \in 1 .. Len(cache') : cache'[j] = cache[g[j]]
    /\ \A i, j \in 1 .. Len(cache') : g[i] = g[j] => i = j
    /\ Sorted(cache) /\ MaxTotal = 0 =>
         \A i \in 1 .. Len(cache) :
           (\A j \in 1 .. Len(cache') : g[j] # i) =>
             \A j \in 1 .. Len(cache') : cache[i].stamp <= cache'[j].stamp
Unlinked(X) ==
    /\ dir' = Unlink(dir, X)
    /\ X \cup NamesIn(cache') = NamesIn(cache)
    /\ (\A i, j \in 1 .. Len(cache) : cache[i].name = cache[j].name => i = j) =>
         X \cap NamesIn(cache') = {}
Forgets ==
    /\ cache' \in Seq(Entries) /\ (Sorted(cache) => Sorted(cache'))
    /\ Len(cache') <= Len(cache)
    /\ \E g : Chosen(g)
    /\ \E X : Unlinked(X)

LEMMA RetentionForgets ==
    ASSUME cache \in Seq(Entries), where \in Seq(Nat), ApplyRetention
    PROVE  Forgets /\ Sorted(cache') /\ (KeepFiles > 0 => Len(cache') <= KeepFiles)
<1>1. PICK h \in IF Ageing THEN 0 .. Len(where) ELSE {0}, s \in ByAge(cache) :
          cache' = Retained(s, h) /\ dir' = Unlink(dir, NamesIn(cache) \ NamesIn(cache'))
  BY DEF ApplyRetention
<1>2. h \in Nat /\ Len(cache) \in Nat
  <2>1. Len(where) \in Nat
    OBVIOUS
  <2> QED BY <2>1
<1>3. s \in Seq(Entries) /\ Len(s) = Len(cache) /\ Sorted(s)
  BY ByAgeFacts
<1>4. PICK p \in Bijection(1 .. Len(cache), 1 .. Len(cache)) :
          \A i \in 1 .. Len(cache) : s[i] = cache[p[i]]
  BY ByAgeFacts
<1>5. /\ cache' \in Seq(Entries)
      /\ KeepFiles > 0 => Len(cache') <= KeepFiles
  BY <1>1, <1>2, <1>3, RetainedFacts
<1>6. PICK q : Picks(s, h, Len(s), cache', q)
  BY <1>1, <1>2, <1>3, RetainedFacts
<1>7. \A j \in 1 .. Len(cache') : q[j] \in 1 .. Len(cache) /\ cache'[j] = s[q[j]] /\ Stays(s, h, q[j])
  BY <1>3, <1>6 DEF Picks
<1>8. /\ \A i \in 1 .. Len(cache) : p[i] \in 1 .. Len(cache)
      /\ \A i, j \in 1 .. Len(cache) : p[i] = p[j] => i = j
      /\ \A i \in 1 .. Len(cache) : \E j \in 1 .. Len(cache) : p[j] = i
  BY DEF Bijection, Injection, Surjection, IsInjective
<1>9. Len(cache') \in Nat
  BY <1>5
<1>10. \A i, j \in 1 .. Len(cache') : q[i] = q[j] => i = j
  <2> SUFFICES ASSUME NEW i \in 1 .. Len(cache'), NEW j \in 1 .. Len(cache'), q[i] = q[j], i # j
               PROVE  FALSE
    OBVIOUS
  <2>1. q[i] \in Nat /\ q[j] \in Nat
    BY <1>2, <1>7
  <2>2. (i < j => q[i] < q[j]) /\ (j < i => q[j] < q[i])
    BY <1>6 DEF Picks
  <2> QED BY <2>1, <2>2, <1>9
<1> DEFINE g == [j \in 1 .. Len(cache') |-> p[q[j]]]
<1>11. /\ g \in [1 .. Len(cache') -> 1 .. Len(cache)]
       /\ \A j \in 1 .. Len(cache') : cache'[j] = cache[g[j]]
       /\ \A i, j \in 1 .. Len(cache') : g[i] = g[j] => i = j
  BY <1>4, <1>7, <1>8, <1>10
<1>12. ASSUME MaxTotal = 0, NEW i \in 1 .. Len(cache), \A j \in 1 .. Len(cache') : g[j] # i,
              NEW k \in 1 .. Len(cache')
       PROVE  cache[i].stamp <= cache'[k].stamp
  <2>1. PICK a \in 1 .. Len(cache) : p[a] = i
    BY <1>8
  <2>2. \A j \in 1 .. Len(cache') : q[j] # a
    BY <1>12, <2>1
  <2>3. ~Stays(s, h, a)
    BY <1>3, <1>6, <1>12, <2>2 DEF Picks
  <2>4. s[a] = cache[i] /\ s[a] \in Entries /\ s[q[k]] \in Entries /\ cache'[k] = s[q[k]]
    BY <1>3, <1>4, <1>7, <2>1
  <2>5. s[a].stamp \in Nat /\ s[q[k]].stamp \in Nat
    BY <2>4 DEF Entries
  <2>6. Stays(s, h, q[k])
    BY <1>7
  <2>7. CASE s[a].stamp <= h
    BY <2>4, <2>5, <2>6, <2>7, <1>2 DEF Stays
  <2>8. CASE KeepFiles > 0 /\ a + KeepFiles <= Len(s)
    <3>1. q[k] \in 1 .. Len(cache) /\ KeepFiles \in Nat
      BY <1>7, RotationAssumption
    <3>2. a < q[k]
      BY <2>6, <2>8, <1>2, <1>3, <3>1 DEF Stays
    <3>3. a \in DOMAIN s /\ q[k] \in DOMAIN s
      BY <1>3, <3>1
    <3> QED BY <2>4, <3>2, <3>3, <1>3 DEF Sorted
  <2> QED BY <2>3, <2>7, <2>8 DEF Stays
<1> HIDE DEF g
<1>13. Chosen(g)
  BY <1>11, <1>12 DEF Chosen
<1>14. Sorted(cache')
  <2> SUFFICES ASSUME NEW i \in DOMAIN cache', NEW j \in DOMAIN cache', i < j
               PROVE  cache'[i].stamp <= cache'[j].stamp
    BY DEF Sorted
  <2>1. i \in 1 .. Len(cache') /\ j \in 1 .. Len(cache')
    BY <1>5
  <2>2. q[i] < q[j] /\ q[i] \in DOMAIN s /\ q[j] \in DOMAIN s
    BY <2>1, <1>3, <1>6, <1>7 DEF Picks
  <2> QED BY <2>1, <2>2, <1>3, <1>7 DEF Sorted
<1>15. Len(cache') <= Len(cache)
  <2>1. \A j \in 1 .. Len(cache') : g[j] \in 1 .. Len(cache)
    BY <1>11
  <2>2. g \in Injection(1 .. Len(cache'), 1 .. Len(cache))
    BY <1>11 DEF Injection, IsInjective
  <2>3. /\ IsFiniteSet(1 .. Len(cache)) /\ Cardinality(1 .. Len(cache)) = Len(cache)
        /\ Cardinality(1 .. Len(cache')) = Len(cache')
    BY <1>2, <1>9, Interval
  <2>4. Cardinality(1 .. Len(cache')) <= Cardinality(1 .. Len(cache))
    BY <2>2, <2>3, FS_Injection
  <2> QED BY <2>3, <2>4
<1>16. Unlinked(NamesIn(cache) \ NamesIn(cache'))
  <2>1. NamesIn(cache') \subseteq NamesIn(cache)
    <3> SUFFICES ASSUME NEW j \in DOMAIN cache' PROVE cache'[j].name \in NamesIn(cache)
      BY DEF NamesIn
    <3>1. j \in 1 .. Len(cache')
      BY <1>5
    <3>2. g[j] \in 1 .. Len(cache) /\ cache'[j] = cache[g[j]]
      BY <3>1, <1>11
    <3>3. g[j] \in DOMAIN cache
      BY <3>2
    <3> QED BY <3>2, <3>3 DEF NamesIn
  <2> QED BY <1>1, <2>1 DEF Unlinked
<1> QED BY <1>5, <1>13, <1>14, <1>15, <1>16 DEF Forgets

LEMMA EmergencyForgets ==
    ASSUME cache \in Seq(Entries), EmergencyCleanup
    PROVE  Forgets
<1>1. /\ cache # <<>> /\ dir' = Unlink(dir, {Head(cache).name}) /\ cache' = Tail(cache)
      /\ Len(cache) \in Nat \ {0} /\ DOMAIN cache = 1 .. Len(cache)
  BY DEF EmergencyCleanup
<1>2. /\ cache' \in Seq(Entries) /\ Len(cache') = Len(cache) - 1
      /\ DOMAIN cache' = 1 .. Len(cache')
      /\ \A i \in 1 .. Len(cache') : cache'[i] = cache[i + 1] /\ i + 1 \in 1 .. Len(cache)
      /\ Head(cache) = cache[1] /\ 1 \in 1 .. Len(cache)
  BY <1>1
<1> DEFINE g == [j \in 1 .. Len(cache') |-> j + 1]
<1>3. Sorted(cache) => Sorted(cache')
  BY <1>1, <1>2 DEF Sorted
<1>4. Chosen(g)
  <2>1. \A j \in 1 .. Len(cache') : g[j] = j + 1
    OBVIOUS
  <2>2. g \in [1 .. Len(cache') -> 1 .. Len(cache)]
    BY <1>2
  <2> HIDE DEF g
  <2>3. ASSUME Sorted(cache), NEW i \in 1 .. Len(cache), \A j \in 1 .. Len(cache') : g[j] # i,
               NEW j \in 1 .. Len(cache')
        PROVE  cache[i].stamp <= cache'[j].stamp
    <3>1. i = 1
      <4>1. CASE i # 1
        <5>1. i - 1 \in 1 .. Len(cache')
          BY <1>1, <1>2, <4>1
        <5>2. g[i - 1] = i
          BY <2>1, <5>1
        <5> QED BY <2>3, <5>1, <5>2
      <4> QED BY <4>1
    <3>2. j + 1 \in DOMAIN cache /\ 1 \in DOMAIN cache /\ 1 < j + 1 /\ cache'[j] = cache[j + 1]
      BY <1>1, <1>2
    <3> QED BY <2>3, <3>1, <3>2 DEF Sorted
  <2>4. \A i, j \in 1 .. Len(cache') : g[i] = g[j] => i = j
    BY <2>1
  <2>5. \A j \in 1 .. Len(cache') : cache'[j] = cache[g[j]]
    BY <1>2, <2>1
  <2> QED BY <2>2, <2>3, <2>4, <2>5 DEF Chosen
<1>5. Unlinked({Head(cache).name})
  <2>1. ASSUME NEW n \in NamesIn(cache) PROVE n = Head(cache).name \/ n \in NamesIn(cache')
    <3>1. PICK i \in 1 .. Len(cache) : n = cache[i].name
      BY <1>1 DEF NamesIn
    <3>2. CASE i = 1
      BY <1>2, <3>1, <3>2
    <3>3. CASE i # 1
      <4>1. i - 1 \in 1 .. Len(cache') /\ (i - 1) + 1 = i
        BY <1>1, <1>2, <3>3
      <4>2. cache'[i - 1] = cache[i]
        BY <1>2, <4>1
      <4> QED BY <3>1, <4>1, <4>2, <1>2 DEF NamesIn
    <3> QED BY <3>2, <3>3
  <2>2. ASSUME NEW n \in NamesIn(cache')
        PROVE  \E i \in 1 .. Len(cache) : i # 1 /\ n = cache[i].name
    <3>1. PICK i \in 1 .. Len(cache') : n = cache'[i].name
      BY <1>2 DEF NamesIn
    <3>2. i + 1 \in 1 .. Len(cache) /\ cache'[i] = cache[i + 1] /\ i + 1 # 1
      BY <1>2
    <3> QED BY <3>1, <3>2
  <2>3. Head(cache).name \in NamesIn(cache)
    BY <1>1, <1>2 DEF NamesIn
  <2>4. NamesIn(cache') \subseteq NamesIn(cache)
    BY <2>2, <1>1 DEF NamesIn
  <2>5. (\A i, j \in 1 .. Len(cache) : cache[i].name = cache[j].name => i = j) =>
          {Head(cache).name} \cap NamesIn(cache') = {}
    BY <2>2, <1>2
  <2> QED BY <1>1, <2>1, <2>3, <2>4, <2>5 DEF Unlinked
<1>6. Len(cache') <= Len(cache)
  BY <1>1, <1>2
<1> QED BY <1>2, <1>3, <1>4, <1>5, <1>6 DEF Forgets

-----------------------------------------------------------------------------
(* Where the token is *)

Opening  == pc["writer"] \in {"open", "retain", "prepare"}
Prepared == next_fd_ # NoFd
Swapped  == pc["writer"] \in {"unready", "notify"}
Swapping == pc["writer"] = "swap" \/ Swapped
Queued   == \E i \in DOMAIN queue_ : queue_[i].type = "rotate"
Renaming == pc["rotator"] \in {"rotate", "link", "fallback", "rename"}
Rotating == Renaming \/ pc["rotator"] \in {"stat", "retain", "compute", "prepare"}

(* Nobody has started to use the log.                                        *)
Starting == pc["writer"] \in {"open", "retain", "prepare", "publish", "signal", "track"}
Dropped == pc["writer"] \in {"dropped", "gone"}

(* The writer has swapped, and the rotator has not finished renaming.        *)
Pending == Swapped \/ Queued \/ Renaming

-----------------------------------------------------------------------------
(* The parts of the invariant *)

Messages == [type : {"rotate", "close"}, fd : Nat, temp : Nat]

WriterLabels  == {"open", "retain", "prepare", "publish", "signal", "track", "idle", "written",
                  "check", "next", "swap", "unready", "notify", "wait", "dropped", "gone"}
RotatorLabels == {"loop", "dequeue", "rotate", "close", "link", "fallback", "rename", "stat",
                  "retain", "compute", "prepare", "publish", "signal", "stopped"}
OwnerLabels   == {"up", "sentinel", "join", "destroyed"}
PcTypes ==
    /\ pc \in [Threads -> WriterLabels \cup RotatorLabels \cup OwnerLabels]
    /\ pc["writer"] \in WriterLabels /\ pc["rotator"] \in RotatorLabels
    /\ pc["owner"] \in OwnerLabels

FileTypes ==
    /\ files \in Nat /\ where \in Seq(Nat) /\ dir \in [Names -> Nat]
    /\ \A n \in DOMAIN where : where[n] \in 1 .. files
    /\ \A n \in Names : dir[n] <= files
    /\ closed \subseteq 1 .. files
    /\ current_fd_ \in 0 .. files /\ next_fd_ \in 0 .. files /\ next_temp_ \in 0 .. files
    /\ new_fd \in 0 .. files /\ old_fd \in 0 .. files
    /\ Len(where) <= OldFiles + 1 + Lines

FlagTypes ==
    /\ next_fd_ready_ \in BOOLEAN /\ in_error_state_ \in BOOLEAN /\ due \in BOOLEAN
    /\ tracked \in BOOLEAN /\ running_ \in BOOLEAN /\ sentinel \in BOOLEAN
    /\ gave_up \in BOOLEAN
CounterTypes ==
    /\ sema \in Nat /\ bytes_written_ \in Nat /\ attempts \in Nat /\ retries \in Nat
FaultTypes ==
    /\ faults \in [{"open", "link", "rename", "collision", "due"} -> Nat]
    /\ faults.open + faults.link + faults.rename + faults.collision <= Faults
MessageTypes ==
    /\ queue_ \in Seq(Messages) /\ msg \in Messages \cup {NoMsg}
    /\ \A i \in DOMAIN queue_ : queue_[i].fd \in 1 .. files /\ queue_[i].temp \in 0 .. files
    /\ msg # NoMsg => msg.fd \in 1 .. files /\ msg.temp \in 0 .. files
NameTypes ==
    /\ cache \in Seq(Entries) /\ name \in RotatedNames \cup {NoName}
    /\ pc["rotator"] \in {"fallback", "rename", "stat"} => name \in RotatedNames

(* The rotator only stops when it is told to.                                *)
Stopping ==
    /\ running_ <=> pc["owner"] = "up"
    /\ sentinel => pc["owner"] \in {"join", "destroyed"}
    /\ pc["rotator"] = "stopped" => ~running_
    /\ pc["owner"] = "destroyed" => pc["rotator"] = "stopped"

(* The rotator has a message while it works on it.                           *)
Handled ==
    /\ pc["rotator"] \in {"dequeue", "stopped"} => msg = NoMsg
    /\ Rotating \/ pc["rotator"] \in {"publish", "signal"} => msg # NoMsg /\ msg.type = "rotate"
    /\ pc["rotator"] = "close" => msg # NoMsg /\ msg.type = "close" /\ Dropped
    /\ Starting => queue_ = <<>> /\ msg = NoMsg
                   /\ pc["rotator"] \in {"loop", "dequeue", "stopped"}
    /\ pc["writer"] = "gone" => msg = NoMsg /\ (queue_ = <<>> \/ pc["owner"] = "destroyed")

(* At most one rotation is queued, and nothing after the message to close.   *)
Enqueued ==
    \A i \in DOMAIN queue_ :
      /\ queue_[i].type = "rotate" => i = 1
      /\ queue_[i].type = "close" => i = Len(queue_) /\ Dropped

Service == Stopping /\ Handled /\ Enqueued

(* There is one token.                                                       *)
Exclusive ==
    /\ Prepared => ~Opening /\ ~Swapping /\ ~Queued /\ ~Rotating
    /\ Swapping => ~Queued /\ ~Rotating
    /\ Queued => ~Rotating

(* Publishing follows preparing.                                             *)
Published ==
    /\ \A t \in {"writer", "rotator"} : pc[t] = "publish" => Prepared /\ ~next_fd_ready_
    /\ next_fd_ready_ => Prepared \/ pc["writer"] \in {"swap", "unready"}
    /\ Prepared => \/ next_fd_ready_ /\ next_temp_ = next_fd_
                   \/ "publish" \in {pc["writer"], pc["rotator"]}

(* A file's number tells its age: what is closed is older than what is       *)
(* written to, and that is older than what is prepared.                      *)
Ascending ==
    /\ pc["writer"] # "open" => current_fd_ # NoFd
    /\ Prepared => current_fd_ < next_fd_
    /\ pc["writer"] = "swap" => /\ current_fd_ < new_fd /\ next_temp_ = new_fd
    /\ Swapped => /\ old_fd # NoFd /\ old_fd < current_fd_
                  /\ new_fd = current_fd_ /\ next_temp_ = current_fd_
    /\ pc["writer"] # "swap" => new_fd \in {NoFd, current_fd_}
    /\ Rotating => msg.fd < current_fd_ /\ msg.temp = current_fd_
QueueOlder ==
    \A i \in DOMAIN queue_ : queue_[i].type = "rotate" =>
      queue_[i].fd < current_fd_ /\ queue_[i].temp = current_fd_
ClosedOlder ==
    ~Dropped /\ pc["owner"] # "destroyed" => \A f \in closed : f < current_fd_
Ordered == Ascending /\ QueueOlder /\ ClosedOlder

(* Lines go to the current file, and only files with lines are rotated.      *)
Growing ==
    /\ \A m, n \in DOMAIN where : m <= n => where[m] <= where[n]
    /\ pc["writer"] # "open" => \A n \in DOMAIN where : where[n] <= current_fd_
Used ==
    /\ pc["writer"] \in {"written", "check", "next", "wait", "swap"} => LinesIn(current_fd_) # {}
    /\ Swapped => LinesIn(old_fd) # {}
    /\ Renaming \/ pc["rotator"] = "stat" => LinesIn(msg.fd) # {}
QueueUsed == \A i \in DOMAIN queue_ : queue_[i].type = "rotate" => LinesIn(queue_[i].fd) # {}
Written == Growing /\ Used /\ QueueUsed

(* Each file beyond the first two was paid for with a line, or was made by   *)
(* another process.                                                          *)
WriterCredit ==
    IF pc["writer"] = "open" THEN 2
    ELSE IF Opening \/ Swapping \/ pc["writer"] \in {"written", "check", "next", "wait"} THEN 1
    ELSE 0
QueueCredit == IF Queued THEN 1 ELSE 0
RotatorCredit == IF Rotating THEN 1 ELSE 0
Credit == WriterCredit + QueueCredit + RotatorCredit
FewFiles == files + Credit <= 2 + Len(where) + faults.collision

(* Temporary names lead to the files they are made for, and these names are  *)
(* there as long as somebody needs them.                                     *)
Needed(f) ==
    \/ Prepared /\ f = next_fd_ /\ pc["writer"] # "gone"
    \/ pc["writer"] = "swap" /\ f = new_fd
    \/ Pending /\ f = current_fd_
Temps ==
    /\ \A f \in 1 .. MaxFiles : dir[Temp(f)] \in {NoFile, f}
    /\ pc["rotator"] # "stopped" => \A f \in 1 .. files : Needed(f) => dir[Temp(f)] = f

(* As long as link() works, the log has its name.                            *)
BaseNamed ==
    pc["writer"] # "open" /\ faults["link"] = 0 => Exists(Base) /\ pc["rotator"] # "fallback"

(* Nothing has happened yet: an earlier process's files are as it left them. *)
Untouched ==
    pc["writer"] = "open" =>
      /\ \E b \in {0, 1} :
           /\ files = OldFiles + b
           /\ dir = [n \in Names |->
                       IF n \in RotatedNames /\ n[2] <= OldFiles THEN n[2]
                       ELSE IF n = Base /\ b = 1 THEN OldFiles + 1 ELSE NoFile]
           /\ where = [n \in 1 .. OldFiles + b |-> n]
      /\ closed = {} /\ current_fd_ = NoFd /\ next_fd_ = NoFd /\ new_fd = NoFd
      /\ ~next_fd_ready_ /\ cache = <<>>

(* Retention leaves at most keep_files.                                      *)
Kept ==
    KeepFiles > 0 /\ Opened /\ pc["rotator"] # "retain" =>
      Len(cache) <= KeepFiles

(* While nothing irreparable has happened and the rotator runs: *)
Alive == ~gave_up /\ pc["rotator"] # "stopped"

(* no temporary name stays behind;                                           *)
TempsGone == \A f \in 1 .. MaxFiles : dir[Temp(f)] # NoFile => Needed(f)

(* the log's name leads to the file that is written to, or in the middle of  *)
(* a rotation to the one that is to get its final name;                      *)
LeadsNow ==
    /\ ~Pending /\ pc["writer"] # "open" => dir[Base] = current_fd_
    /\ Swapped => dir[Base] = old_fd
LeadsQueued == \A i \in DOMAIN queue_ : queue_[i].type = "rotate" => dir[Base] = queue_[i].fd
LeadsHandled ==
    /\ pc["rotator"] \in {"rotate", "link", "fallback"} => dir[Base] = msg.fd
    /\ pc["rotator"] = "rename" => dir[Base] \in {NoFile, msg.fd}
NameTaken ==
    /\ pc["rotator"] = "fallback" => dir[name] = NoFile
    /\ pc["rotator"] \in {"rename", "stat"} => dir[name] = msg.fd /\ name \notin NamesIn(cache)
BaseLeads == LeadsNow /\ LeadsQueued /\ LeadsHandled /\ NameTaken

(* a rotated name never leads to a file that is written to or will be;       *)
NotInUse ==
    pc["writer"] # "open" =>
      \A r \in RotatedNames : dir[r] # NoFile => dir[r] \notin {current_fd_, next_fd_, new_fd}

(* the cache lists rotated files, not the one that is being added, from the  *)
(* oldest to the newest,                                                     *)
Listed ==
    \A i \in DOMAIN cache : /\ cache[i].stamp \in DOMAIN where
                            /\ where[cache[i].stamp] = dir[cache[i].name]
                            /\ dir[cache[i].name] < current_fd_
Older ==
    \A i \in DOMAIN cache :
      /\ Swapped => dir[cache[i].name] < old_fd
      /\ Renaming \/ pc["rotator"] = "stat" => dir[cache[i].name] < msg.fd
      /\ \A j \in DOMAIN queue_ : queue_[j].type = "rotate" => dir[cache[i].name] < queue_[j].fd
InOrder ==
    \A i, j \in DOMAIN cache : i < j => /\ cache[i].stamp < cache[j].stamp
                                        /\ cache[i].name # cache[j].name
(* and all of them.                                                          *)
AllListed ==
    pc["writer"] # "open" =>
      \A r \in RotatedNames :
        dir[r] # NoFile /\ LinesIn(dir[r]) # {} =>
          r \in NamesIn(cache) \/ (pc["rotator"] \in {"rename", "stat"} /\ r = name)

Named == Alive => /\ TempsGone /\ BaseLeads /\ NotInUse
                  /\ Listed /\ Older /\ InOrder /\ AllListed

Types == /\ PcTypes /\ FileTypes /\ FlagTypes /\ CounterTypes /\ FaultTypes
         /\ MessageTypes /\ NameTypes
Token == Service /\ Exclusive /\ Published
Inv == Types /\ Token /\ Ordered /\ Written /\ FewFiles /\ Temps /\ BaseNamed /\ Untouched
       /\ Kept /\ Named

-----------------------------------------------------------------------------
(* Facts that several steps need *)

LEMMA QueueFacts ==
    ASSUME queue_ \in Seq(Messages)
    PROVE  /\ Len(queue_) \in Nat /\ DOMAIN queue_ = 1 .. Len(queue_)
           /\ \A i \in DOMAIN queue_ : queue_[i] \in Messages
           /\ queue_ # <<>> =>
                /\ 1 \in DOMAIN queue_ /\ Head(queue_) = queue_[1] /\ Head(queue_) \in Messages
                /\ Tail(queue_) \in Seq(Messages) /\ Len(Tail(queue_)) = Len(queue_) - 1
                /\ \A i \in DOMAIN Tail(queue_) : /\ i + 1 \in DOMAIN queue_ /\ i \in 1 .. Len(queue_) - 1
                                                  /\ Tail(queue_)[i] = queue_[i + 1]
           /\ \A m \in Messages :
                /\ Append(queue_, m) \in Seq(Messages) /\ Len(Append(queue_, m)) = Len(queue_) + 1
                /\ DOMAIN Append(queue_, m) = DOMAIN queue_ \cup {Len(queue_) + 1}
                /\ Append(queue_, m)[Len(queue_) + 1] = m
                /\ \A i \in DOMAIN queue_ : Append(queue_, m)[i] = queue_[i]
<1>1. Len(queue_) \in Nat /\ DOMAIN queue_ = 1 .. Len(queue_)
  OBVIOUS
<1>2. ASSUME queue_ # <<>>
      PROVE  /\ 1 \in DOMAIN queue_ /\ Head(queue_) = queue_[1] /\ Head(queue_) \in Messages
             /\ Tail(queue_) \in Seq(Messages) /\ Len(Tail(queue_)) = Len(queue_) - 1
             /\ \A i \in DOMAIN Tail(queue_) : /\ i + 1 \in DOMAIN queue_ /\ i \in 1 .. Len(queue_) - 1
                                               /\ Tail(queue_)[i] = queue_[i + 1]
  <2>1. Len(queue_) \in Nat \ {0} /\ 1 \in 1 .. Len(queue_)
    BY <1>2
  <2>2. /\ Head(queue_) = queue_[1] /\ Head(queue_) \in Messages
        /\ Tail(queue_) \in Seq(Messages) /\ Len(Tail(queue_)) = Len(queue_) - 1
        /\ \A i \in 1 .. Len(queue_) - 1 : Tail(queue_)[i] = queue_[i + 1]
    BY <1>2
  <2>3. DOMAIN Tail(queue_) = 1 .. Len(queue_) - 1
    BY <2>2
  <2>4. \A i \in 1 .. Len(queue_) - 1 : i + 1 \in 1 .. Len(queue_)
    BY <2>1
  <2> QED BY <1>1, <2>1, <2>2, <2>3, <2>4
<1>3. ASSUME NEW m \in Messages
      PROVE  /\ Append(queue_, m) \in Seq(Messages) /\ Len(Append(queue_, m)) = Len(queue_) + 1
             /\ DOMAIN Append(queue_, m) = DOMAIN queue_ \cup {Len(queue_) + 1}
             /\ Append(queue_, m)[Len(queue_) + 1] = m
             /\ \A i \in DOMAIN queue_ : Append(queue_, m)[i] = queue_[i]
  <2>1. /\ Append(queue_, m) \in Seq(Messages) /\ Len(Append(queue_, m)) = Len(queue_) + 1
        /\ Append(queue_, m)[Len(queue_) + 1] = m
        /\ \A i \in 1 .. Len(queue_) : Append(queue_, m)[i] = queue_[i]
    BY AppendProperties
  <2>2. DOMAIN Append(queue_, m) = 1 .. Len(queue_) + 1
    BY <2>1
  <2> QED BY <1>1, <2>1, <2>2
<1>4. \A i \in DOMAIN queue_ : queue_[i] \in Messages
  BY <1>1
<1> QED BY <1>1, <1>2, <1>3, <1>4

LEMMA WriteFacts ==
    ASSUME where \in Seq(Nat), NEW f \in Nat, where' = Append(where, f)
    PROVE  /\ where' \in Seq(Nat) /\ Len(where) \in Nat /\ Len(where') = Len(where) + 1
           /\ DOMAIN where' = DOMAIN where \cup {Len(where) + 1} /\ DOMAIN where = 1 .. Len(where)
           /\ where'[Len(where) + 1] = f /\ \A i \in DOMAIN where : where'[i] = where[i]
           /\ \A g : LinesIn(g) \subseteq LinesIn(g)'
           /\ LinesIn(f)' # {} /\ \A g : g # f => LinesIn(g)' = LinesIn(g)
<1>1. /\ where' \in Seq(Nat) /\ Len(where) \in Nat /\ Len(where') = Len(where) + 1
      /\ DOMAIN where = 1 .. Len(where)
      /\ where'[Len(where) + 1] = f /\ \A i \in 1 .. Len(where) : where'[i] = where[i]
  BY AppendProperties
<1>2. DOMAIN where' = DOMAIN where \cup {Len(where) + 1}
  <2>1. DOMAIN where' = 1 .. Len(where) + 1
    BY <1>1
  <2> QED BY <1>1, <2>1
<1>3. Len(where) + 1 \in DOMAIN where'
  BY <1>2
<1> QED BY <1>1, <1>2, <1>3 DEF LinesIn

LEMMA UnlinkFacts ==
    ASSUME NEW d, NEW X
    PROVE  /\ DOMAIN Unlink(d, X) = DOMAIN d
           /\ \A n \in DOMAIN d : Unlink(d, X)[n] = IF n \in X THEN NoFile ELSE d[n]
  BY DEF Unlink

LEMMA Constants ==
    /\ MaxBytes \in Nat /\ MaxRetries \in Nat /\ LinkAttempts \in Nat /\ KeepFiles \in Nat
    /\ MaxTotal \in Nat /\ OldFiles \in Nat /\ Lines \in Nat /\ Faults \in Nat
    /\ MaxFiles = OldFiles + Lines + Faults + 3
  BY RotationAssumption DEF MaxFiles

LEMMA FaultFacts ==
    ASSUME FaultTypes
    PROVE  /\ faults.open \in Nat /\ faults.link \in Nat /\ faults.rename \in Nat
           /\ faults.collision \in Nat /\ faults.collision <= Faults
<1>1. /\ faults.open \in Nat /\ faults.link \in Nat /\ faults.rename \in Nat
      /\ faults.collision \in Nat
      /\ faults.open + faults.link + faults.rename + faults.collision <= Faults
  BY DEF FaultTypes
<1>2. \A a, b, c, d \in Nat : a + b + c + d <= Faults => d <= Faults
  BY Constants
<1>3. faults.collision <= Faults
  BY <1>1, <1>2
<1> QED BY <1>1, <1>3

LEMMA FilesBound ==
    ASSUME Types, FewFiles
    PROVE  /\ files \in Nat /\ files <= MaxFiles
           /\ Opening \/ Rotating => files + 1 <= MaxFiles
<1>1. Credit \in Nat /\ (Opening \/ Rotating => Credit >= 1)
  BY DEF Credit, WriterCredit, QueueCredit, RotatorCredit
<1>2. faults.collision \in Nat /\ faults.collision <= Faults
  BY FaultFacts DEF Types
<1>3. Len(where) \in Nat /\ files \in Nat /\ Len(where) <= OldFiles + 1 + Lines
  BY DEF Types, FileTypes
<1>4. files + Credit <= 2 + Len(where) + faults.collision
  BY DEF FewFiles
<1> DEFINE c == faults.collision
<1> HIDE DEF c
<1>5. c \in Nat /\ c <= Faults /\ files + Credit <= 2 + Len(where) + c
  BY <1>2, <1>4 DEF c
<1>6. files + Credit <= MaxFiles
  BY <1>1, <1>3, <1>5, Constants
<1>7. MaxFiles \in Nat
  BY NameFacts
<1> QED BY <1>1, <1>3, <1>6, <1>7

(* Only the name n changes: it leads to v.                                   *)
Leads(n, v) == /\ dir' \in [Names -> Nat]
               /\ \A m \in Names : dir'[m] = IF m = n THEN v ELSE dir[m]

LEMMA Redirected ==
    ASSUME dir \in [Names -> Nat], NEW n \in Names, NEW v \in Nat, dir' = [dir EXCEPT ![n] = v]
    PROVE  Leads(n, v)
  BY DEF Leads

LEMMA OpenEffect ==
    ASSUME Types, Open
    PROVE  /\ \/ Exists(Base) /\ dir' = dir /\ files' = files /\ current_fd_' = dir[Base]
              \/ ~Exists(Base) /\ files' = files + 1 /\ Leads(Base, files + 1) /\ current_fd_' = files + 1
           /\ cache' \in UNION {ByAge(s) : s \in ScannedCaches}
           /\ pc["writer"] = "open" /\ Goto("writer", "retain")
           /\ UNCHANGED <<where, closed, next_fd_, next_fd_ready_, next_temp_, sema, in_error_state_,
                          due, tracked, serviceVars, rotateLocals, prepareLocals, writerLocals,
                          gave_up, faults>>
<1>1. dir \in [Names -> Nat] /\ files \in Nat /\ Base \in Names
  BY NameFacts DEF Types, FileTypes
<1>2. CASE Exists(Base)
  <2>1. dir' = dir /\ files' = files /\ current_fd_' = dir'[Base]
    BY <1>2 DEF Open
  <2> QED BY <1>2, <2>1 DEF Open
<1>3. CASE ~Exists(Base)
  <2>1. files' = files + 1 /\ dir' = [dir EXCEPT ![Base] = files + 1] /\ current_fd_' = dir'[Base]
    BY <1>3 DEF Open
  <2>2. Leads(Base, files + 1)
    <3>1. files + 1 \in Nat
      BY <1>1
    <3> QED BY <1>1, <2>1, <3>1, Redirected
  <2>3. current_fd_' = files + 1
    BY <1>1, <2>1
  <2> QED BY <1>3, <2>1, <2>2, <2>3 DEF Open
<1> QED BY <1>2, <1>3

LEMMA OpenTempEffect ==
    ASSUME Inv, NEW t \in {"writer", "rotator"}, OpenTemp(t)
    PROVE  /\ next_fd_ = NoFd /\ files' = files + 1 /\ next_fd_' = files + 1
           /\ files + 1 <= MaxFiles /\ Leads(Temp(files + 1), files + 1)
           /\ pc[t] = "prepare" /\ Goto(t, "publish")
           /\ UNCHANGED <<closed, outsidePrepare, current_fd_, next_fd_ready_, next_temp_, sema,
                          in_error_state_, cache, prepareLocals, faults>>
<1>1. pc[t] = "prepare" /\ (Opening \/ Rotating)
  BY DEF OpenTemp, Opening, Rotating
<1>2. next_fd_ = NoFd
  BY <1>1 DEF Inv, Token, Exclusive, Prepared
<1>3. files \in Nat /\ files + 1 <= MaxFiles
  BY <1>1, FilesBound DEF Inv
<1>4. files' = files + 1 /\ dir' = [dir EXCEPT ![Temp(files + 1)] = files + 1] /\ Goto(t, "publish")
      /\ next_fd_' = files + 1 /\ UNCHANGED closed
  BY <1>2 DEF OpenTemp
<1>5. Temp(files + 1) \in Names /\ dir \in [Names -> Nat]
  BY <1>3, NameFacts DEF Inv, Types, FileTypes
<1>6. Leads(Temp(files + 1), files + 1)
  <2>1. files + 1 \in Nat
    BY <1>3
  <2> QED BY <2>1, <1>4, <1>5, Redirected
<1> QED BY <1>1, <1>2, <1>3, <1>4, <1>6 DEF OpenTemp

(* The prepared file is closed and its name removed.                         *)
Discards ==
    IF next_fd_ # NoFd THEN /\ closed' = closed \cup {next_fd_}
                            /\ dir' = Unlink(dir, {Temp(next_temp_)})
    ELSE UNCHANGED <<closed, dir>>

LEMMA DiscardEffect ==
    ASSUME Types, Discards
    PROVE  /\ closed' \subseteq 1 .. files
           /\ dir' \in [Names -> Nat] /\ \A m \in Names : dir'[m] \in {NoFile, dir[m]}
           /\ next_fd_ = NoFd => UNCHANGED <<closed, dir>>
           /\ next_fd_ # NoFd =>
                /\ closed' = closed \cup {next_fd_}
                /\ \A m \in Names : dir'[m] = IF m = Temp(next_temp_) THEN NoFile ELSE dir[m]
<1>1. next_fd_ \in 0 .. files /\ files \in Nat /\ dir \in [Names -> Nat] /\ closed \subseteq 1 .. files
  BY DEF Types, FileTypes
<1>2. CASE next_fd_ = NoFd
  BY <1>1, <1>2 DEF Discards
<1>3. CASE next_fd_ # NoFd
  <2>1. closed' = closed \cup {next_fd_} /\ dir' = Unlink(dir, {Temp(next_temp_)})
    BY <1>3 DEF Discards
  <2>2. next_fd_ \in 1 .. files
    BY <1>1, <1>3 DEF NoFd
  <2>3. /\ dir' \in [Names -> Nat]
        /\ \A m \in Names : dir'[m] = IF m = Temp(next_temp_) THEN NoFile ELSE dir[m]
    BY <1>1, <2>1 DEF Unlink, NoFile
  <2> QED BY <1>1, <1>3, <2>1, <2>2, <2>3
<1> QED BY <1>2, <1>3

LEMMA LinkEffect ==
    ASSUME Types, LinkBase \/ LinkCollides
    PROVE  /\ name' \in RotatedNames /\ dir[name'] = NoFile /\ pc["rotator"] = "link"
           /\ LinkBase => /\ dir[Base] # NoFile /\ Leads(name', dir[Base])
           /\ LinkCollides => files' = files + 1 /\ Leads(name', files + 1)
<1>1. name' \in RotatedNames /\ ~Exists(name') /\ pc["rotator"] = "link"
  BY DEF LinkBase, LinkCollides, FreeNames
<1>2. /\ dir \in [Names -> Nat] /\ files \in Nat /\ name' \in Names /\ name' # NoName
      /\ Base \in Names /\ dir[Base] \in Nat
  BY <1>1, NameFacts DEF Types, FileTypes
<1>3. dir[name'] = NoFile
  BY <1>1, <1>2 DEF Exists
<1>4. LinkBase => dir[Base] # NoFile /\ Leads(name', dir[Base])
  BY <1>2, Redirected DEF LinkBase, Exists
<1>5. ASSUME LinkCollides PROVE files' = files + 1 /\ Leads(name', files + 1)
  <2>1. files + 1 \in Nat
    BY <1>2
  <2>2. files' = files + 1 /\ dir' = [dir EXCEPT ![name'] = files + 1]
    BY <1>5 DEF LinkCollides
  <2> QED BY <1>2, <2>1, <2>2, Redirected
<1> QED BY <1>1, <1>3, <1>4, <1>5

LEMMA RenameEffect ==
    ASSUME Inv
    PROVE  /\ RenameBase =>
                /\ name \in RotatedNames /\ dir' \in [Names -> Nat]
                /\ \A m \in Names : dir'[m] = IF m = name THEN dir[Base]
                                              ELSE IF m = Base THEN NoFile ELSE dir[m]
           /\ RenameTemp =>
                /\ dir' \in [Names -> Nat] /\ current_fd_ \in 1 .. files /\ current_fd_ \in 1 .. MaxFiles
                /\ \A m \in Names : dir'[m] = IF m = Base THEN current_fd_
                                              ELSE IF m = Temp(current_fd_) THEN NoFile ELSE dir[m]
<1>1. dir \in [Names -> Nat] /\ Base \in Names /\ files \in Nat /\ files <= MaxFiles /\ MaxFiles \in Nat
  BY NameFacts, FilesBound DEF Inv, Types, FileTypes
<1>2. ASSUME RenameBase
      PROVE  /\ name \in RotatedNames /\ dir' \in [Names -> Nat]
             /\ \A m \in Names : dir'[m] = IF m = name THEN dir[Base]
                                           ELSE IF m = Base THEN NoFile ELSE dir[m]
  <2>1. pc["rotator"] = "fallback" /\ dir' = [dir EXCEPT ![name] = dir[Base], ![Base] = NoFile]
    BY <1>2 DEF RenameBase
  <2>2. name \in RotatedNames
    BY <2>1 DEF Inv, Types, NameTypes
  <2>3. name \in Names /\ name # Base
    BY <2>2, NameFacts
  <2>4. dir[Base] \in Nat
    BY <1>1
  <2> QED BY <1>1, <2>1, <2>2, <2>3, <2>4 DEF NoFile
<1>3. ASSUME RenameTemp
      PROVE  /\ dir' \in [Names -> Nat] /\ current_fd_ \in 1 .. files /\ current_fd_ \in 1 .. MaxFiles
             /\ \A m \in Names : dir'[m] = IF m = Base THEN current_fd_
                                           ELSE IF m = Temp(current_fd_) THEN NoFile ELSE dir[m]
  <2>1. pc["rotator"] = "rename" /\ Renaming /\ Rotating
    BY <1>3 DEF RenameTemp, Renaming, Rotating
  <2>2. msg.temp = current_fd_ /\ msg.fd < current_fd_ /\ msg.fd \in 1 .. files
        /\ current_fd_ \in 0 .. files
    BY <2>1 DEF Inv, Ordered, Ascending, Token, Service, Handled, Types, MessageTypes, FileTypes
  <2>3. current_fd_ \in 1 .. files /\ current_fd_ \in 1 .. MaxFiles /\ current_fd_ \in Nat
    BY <1>1, <2>2
  <2>4. dir[Temp(current_fd_)] = current_fd_
    BY <2>1, <2>3 DEF Inv, Temps, Needed, Pending
  <2>5. Temp(current_fd_) \in Names /\ Temp(current_fd_) # Base
    BY <2>3, NameFacts
  <2>6. dir' = [dir EXCEPT ![Base] = current_fd_, ![Temp(current_fd_)] = NoFile]
    BY <1>3, <2>2, <2>4 DEF RenameTemp
  <2>7. dir' \in [Names -> Nat]
    BY <1>1, <2>3, <2>6 DEF NoFile
  <2>8. \A m \in Names : dir'[m] = IF m = Base THEN current_fd_
                                   ELSE IF m = Temp(current_fd_) THEN NoFile ELSE dir[m]
    BY <1>1, <2>5, <2>6
  <2> QED BY <2>3, <2>7, <2>8
<1> QED BY <1>2, <1>3

LEMMA ForgetEffect ==
    ASSUME Types, RetainAtOpen \/ Retain \/ (\E t \in {"writer", "rotator"} : OpenTempFails(t))
    PROVE  /\ Forgets \/ UNCHANGED <<cache, dir>>
           /\ RetainAtOpen \/ Retain => /\ Forgets /\ Sorted(cache')
                                        /\ KeepFiles > 0 => Len(cache') <= KeepFiles
           /\ dir' \in [Names -> Nat] /\ \A m \in Names : dir'[m] \in {NoFile, dir[m]}
           /\ \A m \in Names : m \notin RotatedNames => dir'[m] = dir[m]
           /\ cache' \in Seq(Entries) /\ Len(cache') <= Len(cache)
<1>1. cache \in Seq(Entries) /\ where \in Seq(Nat) /\ dir \in [Names -> Nat] /\ Len(cache) \in Nat
  BY DEF Types, NameTypes, FileTypes
<1>2. RetainAtOpen \/ Retain => Forgets /\ Sorted(cache') /\ (KeepFiles > 0 => Len(cache') <= KeepFiles)
  BY <1>1, RetentionForgets DEF RetainAtOpen, Retain
<1>3. (\E t \in {"writer", "rotator"} : OpenTempFails(t)) => Forgets \/ UNCHANGED <<cache, dir>>
  BY <1>1, EmergencyForgets DEF OpenTempFails
<1>4. ASSUME Forgets
      PROVE  /\ dir' \in [Names -> Nat] /\ \A m \in Names : dir'[m] \in {NoFile, dir[m]}
             /\ \A m \in Names : m \notin RotatedNames => dir'[m] = dir[m]
             /\ cache' \in Seq(Entries) /\ Len(cache') <= Len(cache)
  <2>1. PICK X : Unlinked(X)
    BY <1>4 DEF Forgets
  <2>2. X \subseteq RotatedNames /\ dir' = Unlink(dir, X)
    <3>1. \A e \in Entries : e.name \in RotatedNames
      BY DEF Entries
    <3>2. \A i \in DOMAIN cache : cache[i].name \in RotatedNames
      BY <1>1, <3>1
    <3> QED BY <2>1, <3>2 DEF Unlinked, NamesIn
  <2> QED BY <1>1, <1>4, <2>2 DEF Unlink, NoFile, Forgets
<1> QED BY <1>1, <1>2, <1>3, <1>4

LEMMA LineCount == ASSUME where \in Seq(Nat), NEW f PROVE Cardinality(LinesIn(f)) \in Nat
<1>1. Len(where) \in Nat /\ LinesIn(f) \subseteq 1 .. Len(where)
  BY DEF LinesIn
<1>2. IsFiniteSet(LinesIn(f))
  BY <1>1, Interval, FS_Subset
<1> QED BY <1>2, FS_CardinalityType

-----------------------------------------------------------------------------
(* The initial states, and the steps, one conjunct of the invariant at a time *)

LEMMA NextCases == ASSUME [Next]_vars
                   PROVE  Open \/ RetainAtOpen \/ TrackHandle \/ Write \/ TimePasses \/ CheckRotation \/
                          TakeNextFd \/ SwapFd \/ Unready \/ NotifyRotator \/
                          WaitForNextFd \/ CheckErrorState \/ CloseHandle \/
                          DestroyHandle \/ (\E t \in {"writer", "rotator"} : OpenTemp(t)) \/
                          (\E t \in {"writer", "rotator"} : PublishTemp(t)) \/
                          (\E t \in {"writer", "rotator"} : SignalNextFd(t)) \/
                          (\E t \in {"writer", "rotator"} : OpenTempFails(t)) \/
                          (\E t \in {"writer", "rotator"} : GiveUpPreparing(t)) \/
                          CheckRunning \/ Dequeue \/ Drain \/ HandleClose \/ CloseOld \/
                          LinkBase \/ LinkCollides \/ LinkFails \/ RenameBase \/
                          RenameTemp \/ RenameFails \/ AddToCache \/ Retain \/
                          ComputeNextTime \/ ClearRunning \/ EnqueueShutdown \/
                          JoinRotator \/ UNCHANGED vars
  BY DEF Next, WriterProgress, RotatorStep, OwnerStep, Preparation, GetNextFd

LEMMA PcTypesStep == ASSUME Types, [Next]_vars PROVE PcTypes'
<1> USE DEF vars, fsVars, fdVars, handleVars, serviceVars, rotateLocals, prepareLocals,
             writerLocals, outsideWriter, outsideRotator, outsidePrepare, rotating,
             outsideOwner, Goto, Types, PcTypes, Threads, WriterLabels, RotatorLabels,
             OwnerLabels
<1>1. CASE Open
  <2>1. Goto("writer", "retain")
    BY <1>1 DEF Open
  <2> QED BY <2>1
<1>2. CASE RetainAtOpen \/ TrackHandle \/ Write \/ TimePasses
  BY <1>2 DEF RetainAtOpen, TrackHandle, Write, TimePasses, StartPreparing
<1>3. CASE CheckRotation \/ TakeNextFd \/ SwapFd \/ Unready
  BY <1>3 DEF CheckRotation, TakeNextFd, SwapFd, Unready
<1>4. CASE NotifyRotator \/ WaitForNextFd \/ CheckErrorState \/ CloseHandle \/ DestroyHandle
  BY <1>4 DEF NotifyRotator, WaitForNextFd, CheckErrorState, CloseHandle, DestroyHandle
<1>5. CASE (\E t \in {"writer", "rotator"} : OpenTemp(t)) \/
          (\E t \in {"writer", "rotator"} : PublishTemp(t)) \/
          (\E t \in {"writer", "rotator"} : SignalNextFd(t)) \/
          (\E t \in {"writer", "rotator"} : OpenTempFails(t)) \/
          (\E t \in {"writer", "rotator"} : GiveUpPreparing(t))
  BY <1>5 DEF OpenTemp, PublishTemp, SignalNextFd, OpenTempFails, GiveUpPreparing,
     AfterPrepare
<1>6. CASE Dequeue
  <2>1. Head(queue_).type \in {"rotate", "close"}
    BY <1>6, QueueFacts DEF Dequeue, MessageTypes, Messages
  <2> QED BY <1>6, <2>1 DEF Dequeue
<1>7. CASE CheckRunning \/ Drain \/ HandleClose \/ CloseOld \/ LinkBase \/ LinkCollides
  BY <1>7 DEF CheckRunning, Drain, HandleClose, CloseOld, LinkBase, LinkCollides,
     StartPreparing
<1>8. CASE LinkFails \/ RenameBase \/ RenameTemp \/ RenameFails \/ AddToCache \/ Retain \/
          ComputeNextTime
  BY <1>8 DEF LinkFails, RenameBase, RenameTemp, RenameFails, AddToCache, Retain,
     ComputeNextTime, StartPreparing
<1>9. CASE ClearRunning \/ EnqueueShutdown \/ JoinRotator
  BY <1>9 DEF ClearRunning, EnqueueShutdown, JoinRotator
<1>10. CASE UNCHANGED vars
  BY <1>10
<1> QED BY <1>1, <1>2, <1>3, <1>4, <1>5, <1>6, <1>7, <1>8, <1>9, <1>10, NextCases

LEMMA FileTypesStep == ASSUME Inv, [Next]_vars PROVE FileTypes'
<1> USE DEF vars, fsVars, fdVars, handleVars, serviceVars, rotateLocals, prepareLocals,
             writerLocals, outsideWriter, outsideRotator, outsidePrepare, rotating,
             outsideOwner, Goto, Inv, Types, FileTypes
<1>1. CASE Open
  <2>1. current_fd_' \in 0 .. files' /\ files' \in Nat /\ files <= files'
    BY <1>1, OpenEffect, NameFacts
  <2>2. dir' \in [Names -> Nat] /\ \A n \in Names : dir'[n] <= files'
    <3>1. CASE dir' = dir
      BY <2>1, <3>1
    <3>2. CASE Leads(Base, files + 1) /\ files' = files + 1
      <4>1. /\ dir' \in [Names -> Nat]
            /\ \A n \in Names : dir'[n] = files + 1 \/ dir'[n] = dir[n]
        BY <3>2 DEF Leads
      <4>2. \A n \in Names : dir[n] \in Nat /\ dir[n] <= files
        OBVIOUS
      <4>3. \A x \in Nat : x <= files => x <= files + 1
        OBVIOUS
      <4>4. \A n \in Names : dir'[n] <= files + 1
        BY <4>1, <4>2, <4>3
      <4> QED BY <3>2, <4>1, <4>4 DEF Leads
    <3> QED BY <1>1, <3>1, <3>2, OpenEffect
  <2>3. UNCHANGED <<where, closed, next_fd_, next_temp_, new_fd, old_fd>>
    BY <1>1, OpenEffect
  <2> QED BY <2>1, <2>2, <2>3
<1>2. CASE Write
  <2>1. current_fd_ \in 1 .. files /\ Len(where) < OldFiles + 1 + Lines
    BY <1>2 DEF Write, Ordered, Ascending, NoFd
  <2>2. /\ where' = Append(where, current_fd_)
        /\ UNCHANGED <<dir, files, closed, next_fd_, next_temp_, current_fd_, new_fd, old_fd>>
    BY <1>2 DEF Write
  <2>3. current_fd_ \in Nat /\ where \in Seq(Nat)
    BY <2>1
  <2>4. /\ where' \in Seq(Nat) /\ Len(where') = Len(where) + 1 /\ Len(where) \in Nat
        /\ DOMAIN where' = DOMAIN where \cup {Len(where) + 1}
        /\ where'[Len(where) + 1] = current_fd_ /\ \A i \in DOMAIN where : where'[i] = where[i]
    BY <2>2, <2>3, WriteFacts
  <2>5. Len(where') <= OldFiles + 1 + Lines
    BY <2>1, <2>4, Constants
  <2> QED BY <2>1, <2>2, <2>4, <2>5
<1>3. CASE RetainAtOpen \/ Retain \/ (\E t \in {"writer", "rotator"} : OpenTempFails(t))
  <2>1. dir' \in [Names -> Nat] /\ \A n \in Names : dir'[n] \in {NoFile, dir[n]}
    BY <1>3, ForgetEffect
  <2>2. UNCHANGED <<files, where, closed, current_fd_, next_fd_, next_temp_, new_fd, old_fd>>
    BY <1>3 DEF RetainAtOpen, Retain, OpenTempFails
  <2>3. \A n \in Names : dir'[n] <= files
    BY <2>1 DEF NoFile
  <2> QED BY <2>1, <2>2, <2>3
<1>4. CASE NotifyRotator \/ WaitForNextFd \/ CheckErrorState \/ CloseHandle \/ Unready \/
          TimePasses \/ CheckRotation \/ TrackHandle
  BY <1>4 DEF NotifyRotator, WaitForNextFd, CheckErrorState, CloseHandle, Unready,
     TimePasses, CheckRotation, TrackHandle
<1>5. CASE TakeNextFd
  BY <1>5 DEF TakeNextFd, NoFd
<1>6. CASE SwapFd
  BY <1>6 DEF SwapFd
<1>7. CASE DestroyHandle \/ JoinRotator
  <2>1. Discards \/ UNCHANGED <<closed, dir>>
    BY <1>7 DEF DestroyHandle, JoinRotator, Discards
  <2>2. /\ closed' \subseteq 1 .. files
        /\ dir' \in [Names -> Nat] /\ \A n \in Names : dir'[n] \in {NoFile, dir[n]}
    BY <2>1, DiscardEffect
  <2>3. UNCHANGED <<files, where, current_fd_, next_fd_, next_temp_, new_fd, old_fd>>
    BY <1>7 DEF DestroyHandle, JoinRotator
  <2> QED BY <2>2, <2>3 DEF NoFile
<1>8. CASE \E t \in {"writer", "rotator"} : OpenTemp(t)
  <2>1. PICK t \in {"writer", "rotator"} : OpenTemp(t)
    BY <1>8
  <2>2. /\ files' = files + 1 /\ next_fd_' = files + 1 /\ Leads(Temp(files + 1), files + 1)
        /\ UNCHANGED <<closed, where, current_fd_, next_temp_, new_fd, old_fd>>
    BY <2>1, OpenTempEffect
  <2>3. dir' \in [Names -> Nat] /\ \A n \in Names : dir'[n] <= files + 1
    BY <2>2 DEF Leads
  <2>4. \A x : (x \in 0 .. files => x \in 0 .. files + 1) /\ (x \in 1 .. files => x \in 1 .. files + 1)
    OBVIOUS
  <2>5. files + 1 \in Nat /\ files + 1 \in 0 .. files + 1
    OBVIOUS
  <2> QED BY <2>2, <2>3, <2>4, <2>5
<1>9. CASE (\E t \in {"writer", "rotator"} : PublishTemp(t)) \/
          (\E t \in {"writer", "rotator"} : SignalNextFd(t)) \/
          (\E t \in {"writer", "rotator"} : GiveUpPreparing(t))
  BY <1>9 DEF PublishTemp, SignalNextFd, GiveUpPreparing, AfterPrepare
<1>10. CASE CheckRunning \/ Dequeue \/ LinkFails \/ RenameFails \/ AddToCache \/
          ComputeNextTime
  BY <1>10 DEF CheckRunning, Dequeue, LinkFails, RenameFails, AddToCache, ComputeNextTime,
     StartPreparing
<1>11. CASE Drain
  <2>1. \A i \in DOMAIN queue_ : queue_[i].fd \in 1 .. files
    BY DEF MessageTypes
  <2> QED BY <1>11, <2>1 DEF Drain
<1>12. CASE HandleClose \/ CloseOld
  <2>1. msg.fd \in 1 .. files
    BY <1>12 DEF HandleClose, CloseOld, MessageTypes, Token, Service, Handled, Rotating, Renaming
  <2> QED BY <1>12, <2>1 DEF HandleClose, CloseOld
<1>13. CASE LinkBase
  <2>1. Leads(name', dir[Base]) /\ Base \in Names
    BY <1>13, LinkEffect, NameFacts
  <2> QED BY <1>13, <2>1 DEF LinkBase, Leads
<1>14. CASE LinkCollides
  <2>1. Leads(name', files + 1) /\ files' = files + 1
    BY <1>14, LinkEffect
  <2>2. UNCHANGED <<where, closed, current_fd_, next_fd_, next_temp_, new_fd, old_fd>>
    BY <1>14 DEF LinkCollides
  <2> QED BY <2>1, <2>2 DEF Leads
<1>15. CASE RenameBase \/ RenameTemp
  <2>1. dir' \in [Names -> Nat] /\ \A n \in Names : dir'[n] <= files
    <3>1. Base \in Names
      BY NameFacts
    <3>2. CASE RenameBase
      <4>1. /\ dir' \in [Names -> Nat]
            /\ \A m \in Names : dir'[m] = IF m = name THEN dir[Base]
                                          ELSE IF m = Base THEN NoFile ELSE dir[m]
        BY <3>2, RenameEffect
      <4>2. dir[Base] <= files /\ NoFile <= files
        BY <3>1 DEF NoFile
      <4> QED BY <4>1, <4>2
    <3>3. CASE RenameTemp
      <4>1. /\ dir' \in [Names -> Nat] /\ current_fd_ \in 1 .. files
            /\ \A m \in Names : dir'[m] = IF m = Base THEN current_fd_
                                          ELSE IF m = Temp(current_fd_) THEN NoFile ELSE dir[m]
        BY <3>3, RenameEffect
      <4>2. current_fd_ <= files /\ NoFile <= files
        BY <4>1 DEF NoFile
      <4> QED BY <4>1, <4>2
    <3> QED BY <1>15, <3>2, <3>3
  <2>2. UNCHANGED <<files, where, closed, current_fd_, next_fd_, next_temp_, new_fd, old_fd>>
    BY <1>15 DEF RenameBase, RenameTemp
  <2> QED BY <2>1, <2>2
<1>16. CASE ClearRunning \/ EnqueueShutdown
  BY <1>16 DEF ClearRunning, EnqueueShutdown
<1>17. CASE UNCHANGED vars
  BY <1>17
<1> QED BY <1>1, <1>2, <1>3, <1>4, <1>5, <1>6, <1>7, <1>8, <1>9, <1>10, <1>11, <1>12, <1>13, <1>14,
       <1>15, <1>16, <1>17, NextCases

LEMMA FlagTypesStep == ASSUME FlagTypes, [Next]_vars PROVE FlagTypes'
<1> USE DEF vars, fsVars, fdVars, handleVars, serviceVars, rotateLocals, prepareLocals,
             writerLocals, outsideWriter, outsideRotator, outsidePrepare, rotating,
             outsideOwner, Goto, FlagTypes
<1>1. CASE RetainAtOpen \/ TrackHandle \/ TimePasses \/ Unready
  BY <1>1 DEF RetainAtOpen, TrackHandle, TimePasses, Unready
<1>2. CASE (\E t \in {"writer", "rotator"} : PublishTemp(t)) \/
          (\E t \in {"writer", "rotator"} : GiveUpPreparing(t))
  BY <1>2 DEF PublishTemp, GiveUpPreparing
<1>3. CASE Drain \/ HandleClose \/ LinkCollides
  BY <1>3 DEF Drain, HandleClose, LinkCollides
<1>4. CASE LinkFails \/ RenameFails \/ ComputeNextTime
  BY <1>4 DEF LinkFails, RenameFails, ComputeNextTime
<1>5. CASE ClearRunning \/ EnqueueShutdown
  BY <1>5 DEF ClearRunning, EnqueueShutdown
<1>6. CASE Open \/ Write \/ CheckRotation \/ TakeNextFd \/ SwapFd \/ NotifyRotator \/
          WaitForNextFd \/ CheckErrorState \/ CloseHandle \/ DestroyHandle \/
          (\E t \in {"writer", "rotator"} : OpenTemp(t)) \/
          (\E t \in {"writer", "rotator"} : SignalNextFd(t))
  <2>1. UNCHANGED <<next_fd_ready_, in_error_state_, due, tracked, running_, sentinel, gave_up>>
    BY <1>6 DEF Open, Write, CheckRotation, TakeNextFd, SwapFd, NotifyRotator, WaitForNextFd,
       CheckErrorState, CloseHandle, DestroyHandle, OpenTemp, SignalNextFd
  <2> QED BY <2>1
<1>7. CASE (\E t \in {"writer", "rotator"} : OpenTempFails(t)) \/ CheckRunning \/ Dequeue \/
          CloseOld \/ LinkBase \/ RenameBase \/ RenameTemp \/ AddToCache \/ Retain \/
          JoinRotator
  <2>1. UNCHANGED <<next_fd_ready_, in_error_state_, due, tracked, running_, sentinel, gave_up>>
    BY <1>7 DEF OpenTempFails, CheckRunning, Dequeue, CloseOld, LinkBase, RenameBase,
       RenameTemp, AddToCache, Retain, JoinRotator
  <2> QED BY <2>1
<1>8. CASE UNCHANGED vars
  <2>1. UNCHANGED <<next_fd_ready_, in_error_state_, due, tracked, running_, sentinel, gave_up>>
    BY <1>8
  <2> QED BY <2>1
<1> QED BY <1>1, <1>2, <1>3, <1>4, <1>5, <1>6, <1>7, <1>8, NextCases

LEMMA CounterTypesStep == ASSUME Types, [Next]_vars PROVE CounterTypes'
<1> USE DEF vars, fsVars, fdVars, handleVars, serviceVars, rotateLocals, prepareLocals,
             writerLocals, outsideWriter, outsideRotator, outsidePrepare, rotating,
             outsideOwner, Goto, Types, CounterTypes
<1>1. CASE Open
  <2>1. bytes_written_' \in Nat
    <3>1. bytes_written_' = Cardinality(LinesIn(dir'[Base])) /\ where \in Seq(Nat)
      BY <1>1 DEF Open, FileTypes
    <3> QED BY <3>1, LineCount
  <2>2. UNCHANGED <<sema, attempts, retries>>
    BY <1>1 DEF Open
  <2> QED BY <2>1, <2>2
<1>2. CASE RetainAtOpen \/ TrackHandle \/ Write \/ TimePasses \/ CheckRotation
  BY <1>2 DEF RetainAtOpen, TrackHandle, Write, TimePasses, CheckRotation, StartPreparing
<1>3. CASE TakeNextFd \/ SwapFd \/ Unready \/ NotifyRotator
  BY <1>3 DEF TakeNextFd, SwapFd, Unready, NotifyRotator
<1>4. CASE WaitForNextFd \/ CheckErrorState \/ CloseHandle \/ DestroyHandle
  BY <1>4 DEF WaitForNextFd, CheckErrorState, CloseHandle, DestroyHandle
<1>5. CASE (\E t \in {"writer", "rotator"} : OpenTemp(t)) \/
          (\E t \in {"writer", "rotator"} : PublishTemp(t)) \/
          (\E t \in {"writer", "rotator"} : SignalNextFd(t))
  BY <1>5 DEF OpenTemp, PublishTemp, SignalNextFd, AfterPrepare
<1>6. CASE (\E t \in {"writer", "rotator"} : OpenTempFails(t)) \/
          (\E t \in {"writer", "rotator"} : GiveUpPreparing(t))
  BY <1>6 DEF OpenTempFails, GiveUpPreparing, AfterPrepare
<1>7. CASE CheckRunning \/ Dequeue \/ Drain \/ HandleClose \/ CloseOld \/ LinkBase
  BY <1>7 DEF CheckRunning, Dequeue, Drain, HandleClose, CloseOld, LinkBase
<1>8. CASE LinkCollides
  BY <1>8 DEF LinkCollides
<1>9. CASE LinkFails \/ RenameBase \/ RenameTemp \/ RenameFails
  BY <1>9 DEF LinkFails, RenameBase, RenameTemp, RenameFails
<1>10. CASE AddToCache \/ Retain \/ ComputeNextTime
  BY <1>10 DEF AddToCache, Retain, ComputeNextTime, StartPreparing
<1>11. CASE ClearRunning \/ EnqueueShutdown \/ JoinRotator
  BY <1>11 DEF ClearRunning, EnqueueShutdown, JoinRotator
<1>12. CASE UNCHANGED vars
  BY <1>12
<1> QED BY <1>1, <1>2, <1>3, <1>4, <1>5, <1>6, <1>7, <1>8, <1>9, <1>10, <1>11, <1>12, NextCases

LEMMA FaultTypesStep == ASSUME Types, [Next]_vars PROVE FaultTypes'
<1> USE DEF vars, fsVars, fdVars, handleVars, serviceVars, rotateLocals, prepareLocals,
             writerLocals, outsideWriter, outsideRotator, outsidePrepare, rotating,
             outsideOwner, Goto, Types, FaultTypes
<1>1. CASE TimePasses
  BY <1>1 DEF TimePasses
<1>2. CASE (\E t \in {"writer", "rotator"} : OpenTempFails(t)) \/ LinkCollides \/
          LinkFails \/ RenameFails
  <2>1. \A k \in {"open", "link", "rename", "collision"} : Fault(k) => FaultTypes'
    <3> SUFFICES ASSUME NEW k \in {"open", "link", "rename", "collision"}, Fault(k) PROVE FaultTypes'
      OBVIOUS
    <3>1. /\ faults.open + faults.link + faults.rename + faults.collision < Faults
          /\ faults' = [faults EXCEPT ![k] = @ + 1]
      BY DEF Fault
    <3>2. faults' \in [{"open", "link", "rename", "collision", "due"} -> Nat]
      BY <3>1
    <3>3. faults'.open + faults'.link + faults'.rename + faults'.collision
            = faults.open + faults.link + faults.rename + faults.collision + 1
      BY <3>1
    <3>4. \A a \in Nat : a < Faults => a + 1 <= Faults
      BY Constants
    <3>5. faults.open + faults.link + faults.rename + faults.collision \in Nat
      OBVIOUS
    <3> QED BY <3>1, <3>2, <3>3, <3>4, <3>5
  <2>2. UNCHANGED faults => FaultTypes'
    OBVIOUS
  <2> QED BY <1>2, <2>1, <2>2 DEF OpenTempFails, LinkCollides, LinkFails, RenameFails
<1>3. CASE Open \/ RetainAtOpen \/ TrackHandle \/ Write \/ CheckRotation \/ TakeNextFd \/
          SwapFd \/ Unready \/ NotifyRotator \/ WaitForNextFd
  BY <1>3 DEF Open, RetainAtOpen, TrackHandle, Write, CheckRotation, TakeNextFd, SwapFd,
     Unready, NotifyRotator, WaitForNextFd
<1>4. CASE CheckErrorState \/ CloseHandle \/ DestroyHandle \/
          (\E t \in {"writer", "rotator"} : OpenTemp(t)) \/
          (\E t \in {"writer", "rotator"} : PublishTemp(t)) \/
          (\E t \in {"writer", "rotator"} : SignalNextFd(t)) \/
          (\E t \in {"writer", "rotator"} : GiveUpPreparing(t)) \/ CheckRunning
  BY <1>4 DEF CheckErrorState, CloseHandle, DestroyHandle, OpenTemp, PublishTemp,
     SignalNextFd, GiveUpPreparing, CheckRunning, AfterPrepare
<1>5. CASE Dequeue \/ Drain \/ HandleClose \/ CloseOld \/ LinkBase \/ RenameBase \/
          RenameTemp \/ AddToCache \/ Retain \/ ComputeNextTime \/ ClearRunning \/
          EnqueueShutdown \/ JoinRotator
  BY <1>5 DEF Dequeue, Drain, HandleClose, CloseOld, LinkBase, RenameBase, RenameTemp,
     AddToCache, Retain, ComputeNextTime, ClearRunning, EnqueueShutdown, JoinRotator,
     StartPreparing
<1>6. CASE UNCHANGED vars
  BY <1>6
<1> QED BY <1>1, <1>2, <1>3, <1>4, <1>5, <1>6, NextCases

LEMMA MessagesStay ==
    ASSUME MessageTypes, files \in Nat, files' \in Nat, files <= files', UNCHANGED <<queue_, msg>>
    PROVE  MessageTypes'
<1>1. \A x : (x \in 0 .. files => x \in 0 .. files') /\ (x \in 1 .. files => x \in 1 .. files')
  OBVIOUS
<1> QED BY <1>1 DEF MessageTypes

LEMMA MessageAdded ==
    ASSUME MessageTypes, files \in Nat, files' = files, UNCHANGED msg,
           NEW type \in {"rotate", "close"}, NEW fd \in 1 .. files, NEW temp \in 0 .. files,
           queue_' = Append(queue_, [type |-> type, fd |-> fd, temp |-> temp])
    PROVE  MessageTypes'
<1> DEFINE m == [type |-> type, fd |-> fd, temp |-> temp]
<1>1. m \in Messages
  BY DEF Messages
<1>2. m.fd \in 1 .. files /\ m.temp \in 0 .. files
  OBVIOUS
<1>3. queue_' = Append(queue_, m)
  OBVIOUS
<1> HIDE DEF m
<1>4. /\ Append(queue_, m) \in Seq(Messages)
      /\ DOMAIN Append(queue_, m) = DOMAIN queue_ \cup {Len(queue_) + 1}
      /\ Append(queue_, m)[Len(queue_) + 1] = m
      /\ \A i \in DOMAIN queue_ : Append(queue_, m)[i] = queue_[i]
  BY <1>1, QueueFacts DEF MessageTypes
<1> QED BY <1>2, <1>3, <1>4 DEF MessageTypes

LEMMA MessageTypesStep == ASSUME Inv, [Next]_vars PROVE MessageTypes'
<1> USE DEF vars, fsVars, fdVars, handleVars, serviceVars, rotateLocals, prepareLocals,
             writerLocals, outsideWriter, outsideRotator, outsidePrepare, rotating,
             outsideOwner, Goto, Inv, Types, FileTypes
<1>1. CASE Open
  <2>1. UNCHANGED <<queue_, msg>> /\ files' \in Nat /\ files <= files'
    BY <1>1, OpenEffect DEF serviceVars
  <2> QED BY <2>1, MessagesStay
<1>2. CASE \E t \in {"writer", "rotator"} : OpenTemp(t)
  <2>1. UNCHANGED <<queue_, msg>> /\ files' \in Nat /\ files <= files'
    BY <1>2, OpenTempEffect DEF serviceVars
  <2> QED BY <2>1, MessagesStay
<1>3. CASE LinkCollides
  <2>1. UNCHANGED <<queue_, msg>> /\ files' \in Nat /\ files <= files'
    BY <1>3 DEF LinkCollides
  <2> QED BY <2>1, MessagesStay
<1>4. CASE NotifyRotator
  <2>1. old_fd \in 1 .. files /\ next_temp_ \in 0 .. files
    BY <1>4 DEF NotifyRotator, Ordered, Ascending, Swapped, NoFd
  <2>2. /\ queue_' = Append(queue_, [type |-> "rotate", fd |-> old_fd, temp |-> next_temp_])
        /\ UNCHANGED <<files, msg>>
    BY <1>4 DEF NotifyRotator
  <2> QED BY <2>1, <2>2, MessageAdded
<1>5. CASE CloseHandle
  <2>1. current_fd_ \in 1 .. files /\ NoFile \in 0 .. files /\ files \in Nat
    BY <1>5 DEF CloseHandle, Ordered, Ascending, NoFd, NoFile
  <2>2. UNCHANGED <<files, msg>>
    BY <1>5 DEF CloseHandle
  <2>3. CASE UNCHANGED queue_
    BY <2>1, <2>2, <2>3, MessagesStay
  <2>4. CASE queue_' = Append(queue_, [type |-> "close", fd |-> current_fd_, temp |-> NoFile])
    BY <2>1, <2>2, <2>4, MessageAdded
  <2> QED BY <1>5, <2>3, <2>4 DEF CloseHandle
<1>6. CASE CheckRunning
  BY <1>6 DEF CheckRunning, MessageTypes
<1>7. CASE Dequeue
  <2>1. /\ queue_ # <<>> /\ msg' = Head(queue_) /\ queue_' = Tail(queue_) /\ UNCHANGED files
        /\ queue_ \in Seq(Messages)
    BY <1>7 DEF Dequeue, MessageTypes
  <2>2. /\ 1 \in DOMAIN queue_ /\ msg' = queue_[1] /\ msg' \in Messages /\ queue_' \in Seq(Messages)
        /\ \A i \in DOMAIN queue_' : i + 1 \in DOMAIN queue_ /\ queue_'[i] = queue_[i + 1]
    BY <2>1, QueueFacts
  <2> QED BY <2>1, <2>2 DEF MessageTypes
<1>8. CASE Drain
  <2>1. queue_' = <<>> /\ UNCHANGED <<files, msg>>
    BY <1>8 DEF Drain
  <2>2. queue_' \in Seq(Messages) /\ DOMAIN queue_' = {}
    BY <2>1
  <2> QED BY <2>1, <2>2 DEF MessageTypes
<1>9. CASE RetainAtOpen \/ TrackHandle \/ Write \/ TimePasses \/ CheckRotation \/
          TakeNextFd \/ SwapFd \/ Unready \/ WaitForNextFd
  <2>1. UNCHANGED <<queue_, msg>> /\ files' \in Nat /\ files <= files'
    BY <1>9 DEF RetainAtOpen, TrackHandle, Write, TimePasses, CheckRotation, TakeNextFd, SwapFd,
       Unready, WaitForNextFd
  <2> QED BY <2>1, MessagesStay
<1>10. CASE CheckErrorState \/ DestroyHandle \/
          (\E t \in {"writer", "rotator"} : PublishTemp(t)) \/
          (\E t \in {"writer", "rotator"} : SignalNextFd(t)) \/
          (\E t \in {"writer", "rotator"} : OpenTempFails(t)) \/
          (\E t \in {"writer", "rotator"} : GiveUpPreparing(t)) \/ HandleClose \/ CloseOld
  <2>1. UNCHANGED <<queue_, msg>> /\ files' \in Nat /\ files <= files'
    BY <1>10 DEF CheckErrorState, DestroyHandle, PublishTemp, SignalNextFd, OpenTempFails,
       GiveUpPreparing, HandleClose, CloseOld, AfterPrepare, StartPreparing
  <2> QED BY <2>1, MessagesStay
<1>11. CASE LinkBase \/ LinkFails \/ RenameBase \/ RenameTemp \/ RenameFails \/
          AddToCache \/ Retain \/ ComputeNextTime \/ ClearRunning \/ EnqueueShutdown \/
          JoinRotator
  <2>1. UNCHANGED <<queue_, msg>> /\ files' \in Nat /\ files <= files'
    BY <1>11 DEF LinkBase, LinkFails, RenameBase, RenameTemp, RenameFails, AddToCache, Retain,
       ComputeNextTime, ClearRunning, EnqueueShutdown, JoinRotator, StartPreparing
  <2> QED BY <2>1, MessagesStay
<1>12. CASE UNCHANGED vars
  <2>1. UNCHANGED <<queue_, msg>> /\ files' \in Nat /\ files <= files'
    BY <1>12
  <2> QED BY <2>1, MessagesStay
<1> QED BY <1>1, <1>2, <1>3, <1>4, <1>5, <1>6, <1>7, <1>8, <1>9, <1>10, <1>11, <1>12, NextCases

(* Opening the log finds the rotated files that are there, each once.        *)
LEMMA ScanEffect ==
    ASSUME Types, Open
    PROVE  /\ cache' \in Seq(Entries) /\ Sorted(cache')
           /\ \A i \in DOMAIN cache' : cache'[i].name \in Present /\ cache'[i] = Entry(cache'[i].name)
           /\ \A i, j \in DOMAIN cache' : cache'[i].name = cache'[j].name => i = j
           /\ \A n \in Present : \E i \in DOMAIN cache' : cache'[i].name = n
<1> DEFINE c == Cardinality(Present)
<1>1. c \in Nat
  <2>1. MaxFiles \in Nat
    BY NameFacts
  <2> DEFINE F == [k \in 1 .. MaxFiles |-> <<"rotated", k>>]
  <2>2. F \in Surjection(1 .. MaxFiles, RotatedNames)
    BY DEF Surjection, RotatedNames
  <2>3. IsFiniteSet(1 .. MaxFiles)
    BY <2>1, Interval
  <2>4. IsFiniteSet(RotatedNames)
    BY <2>2, <2>3, FS_Surjection
  <2>5. IsFiniteSet(Present)
    BY <2>4, FS_Subset DEF Present
  <2> QED BY <2>5, FS_CardinalityType
<1> HIDE DEF c
<1>2. PICK s \in ScannedCaches : cache' \in ByAge(s)
  BY DEF Open
<1>3. PICK b \in Bijection(1 .. c, Present) : s = [i \in DOMAIN b |-> Entry(b[i])]
  BY <1>2 DEF ScannedCaches, c
<1>4. /\ DOMAIN b = 1 .. c /\ \A i \in 1 .. c : b[i] \in Present
      /\ \A i, j \in 1 .. c : b[i] = b[j] => i = j
      /\ \A n \in Present : \E i \in 1 .. c : b[i] = n
  BY <1>3 DEF Bijection, Injection, Surjection, IsInjective
<1>5. \A n \in Present : Entry(n) \in Entries /\ Entry(n).name = n
  BY EntryFacts DEF Types, FileTypes, Present
<1>6. s \in [1 .. c -> Entries] /\ \A i \in 1 .. c : s[i] = Entry(b[i])
  BY <1>3, <1>4, <1>5
<1>7. s \in Seq(Entries) /\ Len(s) = c
  BY <1>1, <1>6
<1>8. /\ cache' \in Seq(Entries) /\ Len(cache') = c /\ Sorted(cache') /\ DOMAIN cache' = 1 .. c
      /\ \E p \in Bijection(1 .. c, 1 .. c) : \A i \in 1 .. c : cache'[i] = s[p[i]]
  <2>1. cache' \in Seq(Entries) /\ Len(cache') = c /\ Sorted(cache')
        /\ \E p \in Bijection(1 .. c, 1 .. c) : \A i \in 1 .. c : cache'[i] = s[p[i]]
    BY <1>2, <1>7, ByAgeFacts
  <2> QED BY <2>1
<1>9. PICK p \in Bijection(1 .. c, 1 .. c) : \A i \in 1 .. c : cache'[i] = s[p[i]]
  BY <1>8
<1>10. /\ \A i \in 1 .. c : p[i] \in 1 .. c
       /\ \A i, j \in 1 .. c : p[i] = p[j] => i = j
       /\ \A n \in 1 .. c : \E i \in 1 .. c : p[i] = n
  BY <1>9 DEF Bijection, Injection, Surjection, IsInjective
<1>11. ASSUME NEW i \in 1 .. c
       PROVE  /\ b[p[i]] \in Present /\ cache'[i] = Entry(b[p[i]])
              /\ cache'[i].name = b[p[i]]
  <2>1. p[i] \in 1 .. c /\ cache'[i] = s[p[i]]
    BY <1>9, <1>10
  <2>2. s[p[i]] = Entry(b[p[i]]) /\ b[p[i]] \in Present
    BY <2>1, <1>4, <1>6
  <2> QED BY <2>1, <2>2, <1>5
<1>12. ASSUME NEW i \in 1 .. c, NEW j \in 1 .. c, cache'[i].name = cache'[j].name
       PROVE  i = j
  <2>1. b[p[i]] = b[p[j]] /\ p[i] \in 1 .. c /\ p[j] \in 1 .. c
    BY <1>10, <1>11, <1>12
  <2>2. p[i] = p[j]
    BY <2>1, <1>4
  <2> QED BY <2>2, <1>10
<1>13. \A n \in Present : \E i \in 1 .. c : cache'[i].name = n
  BY <1>4, <1>10, <1>11
<1> QED BY <1>8, <1>11, <1>12, <1>13

LEMMA NameTypesStep == ASSUME Types, [Next]_vars PROVE NameTypes'
<1> USE DEF vars, fsVars, fdVars, handleVars, serviceVars, rotateLocals, prepareLocals,
             writerLocals, outsideWriter, outsideRotator, outsidePrepare, rotating,
             outsideOwner, Goto, Types, PcTypes, Threads, WriterLabels, RotatorLabels,
             OwnerLabels
<1>1. CASE Open
  <2>1. cache' \in Seq(Entries)
    BY <1>1, ScanEffect
  <2>2. UNCHANGED name /\ pc'["rotator"] = pc["rotator"]
    BY <1>1 DEF Open
  <2> QED BY <2>1, <2>2 DEF NameTypes
<1>2. CASE RetainAtOpen \/ Retain \/ (\E t \in {"writer", "rotator"} : OpenTempFails(t))
  <2>1. cache' \in Seq(Entries)
    BY <1>2, ForgetEffect
  <2>2. UNCHANGED name /\ (pc'["rotator"] = pc["rotator"] \/ pc'["rotator"] = "compute")
    BY <1>2 DEF RetainAtOpen, Retain, OpenTempFails, StartPreparing
  <2> QED BY <2>1, <2>2 DEF NameTypes
<1>3. CASE AddToCache
  <2>1. name \in RotatedNames /\ where \in Seq(Nat) /\ cache \in Seq(Entries)
    BY <1>3 DEF AddToCache, NameTypes, FileTypes
  <2>2. Entry(name) \in Entries
    BY <2>1, EntryFacts
  <2>3. UNCHANGED name /\ pc'["rotator"] = "retain"
    BY <1>3 DEF AddToCache
  <2>4. cache' = cache \/ cache' = Append(cache, Entry(name))
    BY <1>3 DEF AddToCache
  <2> QED BY <2>1, <2>2, <2>3, <2>4 DEF NameTypes
<1>4. CASE LinkBase \/ LinkCollides \/ LinkFails
  <2>1. name' \in RotatedNames /\ UNCHANGED cache
    BY <1>4 DEF LinkBase, LinkCollides, LinkFails, FreeNames
  <2> QED BY <2>1 DEF NameTypes
<1>5. CASE Dequeue
  <2>1. Head(queue_).type \in {"rotate", "close"}
    BY <1>5, QueueFacts DEF Dequeue, MessageTypes, Messages
  <2>2. UNCHANGED <<cache, name>> /\ pc'["rotator"] \in {"rotate", "close"}
    BY <1>5, <2>1 DEF Dequeue
  <2> QED BY <2>2 DEF NameTypes
<1>6. CASE TrackHandle \/ Write \/ TimePasses \/ CheckRotation \/ TakeNextFd \/ SwapFd \/
          Unready \/ NotifyRotator \/ WaitForNextFd
  <2>1. UNCHANGED <<cache, name>>
    BY <1>6 DEF TrackHandle, Write, TimePasses, CheckRotation, TakeNextFd, SwapFd, Unready,
       NotifyRotator,
         WaitForNextFd
  <2>2. pc'["rotator"] \in {"fallback", "rename", "stat"} =>
          pc["rotator"] \in {"fallback", "rename", "stat"}
    BY <1>6 DEF TrackHandle, Write, TimePasses, CheckRotation, TakeNextFd, SwapFd, Unready,
       NotifyRotator,
         WaitForNextFd
  <2> QED BY <2>1, <2>2 DEF NameTypes
<1>7. CASE CheckErrorState \/ CloseHandle \/ DestroyHandle \/
          (\E t \in {"writer", "rotator"} : OpenTemp(t)) \/
          (\E t \in {"writer", "rotator"} : PublishTemp(t)) \/
          (\E t \in {"writer", "rotator"} : SignalNextFd(t)) \/
          (\E t \in {"writer", "rotator"} : GiveUpPreparing(t)) \/ CheckRunning
  <2>1. UNCHANGED <<cache, name>>
    BY <1>7 DEF CheckErrorState, CloseHandle, DestroyHandle, OpenTemp, PublishTemp, SignalNextFd,
         GiveUpPreparing, CheckRunning, AfterPrepare
  <2>2. pc'["rotator"] \in {"fallback", "rename", "stat"} =>
          pc["rotator"] \in {"fallback", "rename", "stat"}
    BY <1>7 DEF CheckErrorState, CloseHandle, DestroyHandle, OpenTemp, PublishTemp, SignalNextFd,
         GiveUpPreparing, CheckRunning, AfterPrepare
  <2> QED BY <2>1, <2>2 DEF NameTypes
<1>8. CASE Drain \/ HandleClose \/ CloseOld \/ RenameBase \/ RenameTemp \/ RenameFails \/
          ComputeNextTime \/ ClearRunning \/ EnqueueShutdown \/ JoinRotator
  <2>1. UNCHANGED <<cache, name>>
    BY <1>8 DEF Drain, HandleClose, CloseOld, RenameBase, RenameTemp, RenameFails,
       ComputeNextTime,
         ClearRunning, EnqueueShutdown, JoinRotator, AfterPrepare, StartPreparing
  <2>2. pc'["rotator"] \in {"fallback", "rename", "stat"} =>
          pc["rotator"] \in {"fallback", "rename", "stat"}
    BY <1>8 DEF Drain, HandleClose, CloseOld, RenameBase, RenameTemp, RenameFails,
       ComputeNextTime,
         ClearRunning, EnqueueShutdown, JoinRotator, AfterPrepare, StartPreparing
  <2> QED BY <2>1, <2>2 DEF NameTypes
<1>9. CASE UNCHANGED vars
  <2>1. UNCHANGED <<cache, name, pc>>
    BY <1>9
  <2> QED BY <2>1 DEF NameTypes
<1> QED BY <1>1, <1>2, <1>3, <1>4, <1>5, <1>6, <1>7, <1>8, <1>9, NextCases

LEMMA TypesStep == ASSUME Inv, [Next]_vars PROVE Types'
<1>1. PcTypes' /\ FlagTypes' /\ CounterTypes' /\ FaultTypes' /\ NameTypes'
  BY PcTypesStep, FlagTypesStep, CounterTypesStep, FaultTypesStep, NameTypesStep DEF Inv, Types
<1> QED BY <1>1, FileTypesStep, MessageTypesStep DEF Types

LEMMA StoppingStep == ASSUME Inv, [Next]_vars PROVE Stopping'
<1> USE DEF vars, fsVars, fdVars, handleVars, serviceVars, rotateLocals, prepareLocals,
             writerLocals, outsideWriter, outsideRotator, outsidePrepare, rotating,
             outsideOwner, Goto, Inv, Types, Token, Service, PcTypes, Threads, WriterLabels,
             RotatorLabels, OwnerLabels, Stopping
<1>1. CASE Dequeue
  <2>1. Head(queue_).type \in {"rotate", "close"}
    BY <1>1, QueueFacts DEF Dequeue, MessageTypes, Messages
  <2> QED BY <1>1, <2>1 DEF Dequeue
<1>2. CASE ClearRunning
  BY <1>2 DEF ClearRunning
<1>3. CASE EnqueueShutdown
  BY <1>3 DEF EnqueueShutdown
<1>4. CASE JoinRotator
  BY <1>4 DEF JoinRotator
<1>5. CASE CheckRunning
  BY <1>5 DEF CheckRunning
<1>6. CASE Drain
  BY <1>6 DEF Drain
<1>7. CASE Open \/ RetainAtOpen \/ TrackHandle \/ Write \/ TimePasses \/ CheckRotation \/
          TakeNextFd \/ SwapFd \/ Unready \/ NotifyRotator
  BY <1>7 DEF Open, RetainAtOpen, TrackHandle, Write, TimePasses, CheckRotation, TakeNextFd,
     SwapFd, Unready, NotifyRotator, StartPreparing
<1>8. CASE WaitForNextFd \/ CheckErrorState \/ CloseHandle \/ DestroyHandle \/
          (\E t \in {"writer", "rotator"} : OpenTemp(t)) \/
          (\E t \in {"writer", "rotator"} : PublishTemp(t)) \/
          (\E t \in {"writer", "rotator"} : SignalNextFd(t)) \/
          (\E t \in {"writer", "rotator"} : OpenTempFails(t)) \/
          (\E t \in {"writer", "rotator"} : GiveUpPreparing(t)) \/ HandleClose
  BY <1>8 DEF WaitForNextFd, CheckErrorState, CloseHandle, DestroyHandle, OpenTemp,
     PublishTemp, SignalNextFd, OpenTempFails, GiveUpPreparing, HandleClose, AfterPrepare
<1>9. CASE CloseOld \/ LinkBase \/ LinkCollides \/ LinkFails \/ RenameBase \/ RenameTemp \/
          RenameFails \/ AddToCache \/ Retain \/ ComputeNextTime
  BY <1>9 DEF CloseOld, LinkBase, LinkCollides, LinkFails, RenameBase, RenameTemp,
     RenameFails, AddToCache, Retain, ComputeNextTime, StartPreparing
<1>10. CASE UNCHANGED vars
  BY <1>10
<1> QED BY <1>1, <1>2, <1>3, <1>4, <1>5, <1>6, <1>7, <1>8, <1>9, <1>10, NextCases

LEMMA HandledStep == ASSUME Inv, [Next]_vars PROVE Handled'
<1> USE DEF vars, fsVars, fdVars, handleVars, serviceVars, rotateLocals, prepareLocals,
             writerLocals, outsideWriter, outsideRotator, outsidePrepare, rotating,
             outsideOwner, Goto, Inv, Types, Token, Service, PcTypes, Threads, WriterLabels,
             RotatorLabels, OwnerLabels, Handled, Rotating, Renaming, Starting, Dropped
<1>1. CASE Dequeue
  <2>1. 1 \in DOMAIN queue_ /\ Head(queue_) = queue_[1] /\ Head(queue_) \in Messages
    BY <1>1, QueueFacts DEF Dequeue, MessageTypes
  <2>2. Head(queue_).type \in {"rotate", "close"} /\ Head(queue_) # NoMsg
    BY <2>1 DEF Messages, NoMsg
  <2>3. Head(queue_).type = "close" => Dropped
    BY <2>1 DEF Enqueued
  <2>4. pc["writer"] # "gone"
    BY <1>1 DEF Dequeue, Stopping
  <2> QED BY <1>1, <2>2, <2>3, <2>4 DEF Dequeue
<1>2. CASE CheckRunning
  BY <1>2 DEF CheckRunning
<1>3. CASE NotifyRotator \/ CloseHandle \/ Drain
  BY <1>3 DEF NotifyRotator, CloseHandle, Drain
<1>4. CASE Open \/ RetainAtOpen \/ TrackHandle \/ Write \/ TimePasses \/ CheckRotation
  BY <1>4 DEF Open, RetainAtOpen, TrackHandle, Write, TimePasses, CheckRotation,
     StartPreparing
<1>5. CASE TakeNextFd \/ SwapFd \/ Unready \/ WaitForNextFd \/ CheckErrorState \/
          DestroyHandle
  BY <1>5 DEF TakeNextFd, SwapFd, Unready, WaitForNextFd, CheckErrorState, DestroyHandle
<1>6. CASE (\E t \in {"writer", "rotator"} : OpenTemp(t)) \/
          (\E t \in {"writer", "rotator"} : PublishTemp(t)) \/
          (\E t \in {"writer", "rotator"} : SignalNextFd(t)) \/
          (\E t \in {"writer", "rotator"} : OpenTempFails(t)) \/
          (\E t \in {"writer", "rotator"} : GiveUpPreparing(t))
  BY <1>6 DEF OpenTemp, PublishTemp, SignalNextFd, OpenTempFails, GiveUpPreparing,
     AfterPrepare
<1>7. CASE HandleClose \/ CloseOld \/ LinkBase \/ LinkCollides \/ LinkFails
  BY <1>7 DEF HandleClose, CloseOld, LinkBase, LinkCollides, LinkFails
<1>8. CASE RenameBase \/ RenameTemp \/ RenameFails \/ AddToCache \/ Retain \/
          ComputeNextTime \/ ClearRunning \/ EnqueueShutdown \/ JoinRotator
  BY <1>8 DEF RenameBase, RenameTemp, RenameFails, AddToCache, Retain, ComputeNextTime,
     ClearRunning, EnqueueShutdown, JoinRotator, StartPreparing
<1>9. CASE UNCHANGED vars
  BY <1>9
<1> QED BY <1>1, <1>2, <1>3, <1>4, <1>5, <1>6, <1>7, <1>8, <1>9, NextCases

LEMMA EnqueuedStep == ASSUME Inv, [Next]_vars PROVE Enqueued'
<1> USE DEF vars, fsVars, fdVars, handleVars, serviceVars, rotateLocals, prepareLocals,
             writerLocals, outsideWriter, outsideRotator, outsidePrepare, rotating,
             outsideOwner, Goto, Inv, Types, Token, Service, PcTypes, Threads, WriterLabels,
             RotatorLabels, OwnerLabels, Dropped
<1>1. CASE NotifyRotator
  <2> DEFINE m == [type |-> "rotate", fd |-> old_fd, temp |-> next_temp_]
  <2>1. queue_' = Append(queue_, m) /\ m \in Messages
    BY <1>1 DEF NotifyRotator, Messages, FileTypes
  <2>2. m.type = "rotate"
    OBVIOUS
  <2> HIDE DEF m
  <2>3. DOMAIN queue_ = {}
    <3> SUFFICES ASSUME NEW i \in DOMAIN queue_ PROVE FALSE
      OBVIOUS
    <3>1. queue_[i].type \in {"rotate", "close"}
      BY QueueFacts DEF MessageTypes, Messages
    <3>2. queue_[i].type # "rotate" /\ queue_[i].type # "close"
      BY <1>1 DEF NotifyRotator, Enqueued, Exclusive, Swapping, Swapped, Queued
    <3> QED BY <3>1, <3>2
  <2>4. Len(queue_) = 0 /\ DOMAIN queue_' = {1} /\ queue_'[1] = m
    <3>1. /\ Len(queue_) \in Nat /\ DOMAIN queue_ = 1 .. Len(queue_)
          /\ DOMAIN queue_' = DOMAIN queue_ \cup {Len(queue_) + 1}
          /\ queue_'[Len(queue_) + 1] = m
      BY <2>1, QueueFacts DEF MessageTypes
    <3>2. Len(queue_) = 0
      BY <2>3, <3>1
    <3> QED BY <2>3, <3>1, <3>2
  <2> QED BY <2>2, <2>4 DEF Enqueued
<1>2. CASE CloseHandle
  <2>1. Dropped' /\ ~Dropped
    BY <1>2 DEF CloseHandle
  <2>2. CASE UNCHANGED queue_
    BY <2>1, <2>2 DEF Enqueued
  <2> DEFINE m == [type |-> "close", fd |-> current_fd_, temp |-> NoFile]
  <2>3. CASE queue_' = Append(queue_, m)
    <3>1. m \in Messages /\ m.type = "close"
      BY DEF Messages, FileTypes, NoFile
    <3> HIDE DEF m
    <3>2. /\ Len(queue_') = Len(queue_) + 1
          /\ DOMAIN queue_' = DOMAIN queue_ \cup {Len(queue_) + 1}
          /\ queue_'[Len(queue_) + 1] = m
          /\ \A i \in DOMAIN queue_ : queue_'[i] = queue_[i]
      BY <2>3, <3>1, QueueFacts DEF MessageTypes
    <3> QED BY <2>1, <3>1, <3>2 DEF Enqueued
  <2> QED BY <1>2, <2>2, <2>3 DEF CloseHandle
<1>3. CASE Dequeue
  <2>1. queue_ # <<>> /\ queue_' = Tail(queue_) /\ UNCHANGED Dropped
    BY <1>3 DEF Dequeue
  <2>2. /\ Len(queue_) \in Nat /\ Len(queue_') = Len(queue_) - 1
        /\ \A i \in DOMAIN queue_' : /\ i + 1 \in DOMAIN queue_ /\ i \in 1 .. Len(queue_) - 1
                                    /\ queue_'[i] = queue_[i + 1]
    BY <2>1, QueueFacts DEF MessageTypes
  <2> SUFFICES ASSUME NEW i \in DOMAIN queue_'
               PROVE  /\ queue_'[i].type = "rotate" => i = 1
                      /\ queue_'[i].type = "close" => i = Len(queue_') /\ Dropped'
    BY DEF Enqueued
  <2>3. /\ i + 1 \in DOMAIN queue_ /\ i \in 1 .. Len(queue_) - 1
        /\ queue_'[i] = queue_[i + 1]
    BY <2>2
  <2>4. queue_[i + 1].type # "rotate"
    BY <2>2, <2>3 DEF Enqueued
  <2>5. queue_[i + 1].type = "close" => i = Len(queue_) - 1 /\ Dropped
    BY <2>2, <2>3 DEF Enqueued
  <2> QED BY <2>1, <2>2, <2>3, <2>4, <2>5
<1>4. CASE Drain
  <2>1. DOMAIN queue_' = {}
    BY <1>4 DEF Drain
  <2> QED BY <2>1 DEF Enqueued
<1>5. CASE Open \/ RetainAtOpen \/ TrackHandle \/ Write \/ TimePasses \/ CheckRotation
  <2>1. UNCHANGED queue_ /\ (Dropped => Dropped')
    BY <1>5 DEF Open, RetainAtOpen, TrackHandle, Write, TimePasses, CheckRotation, StartPreparing
  <2> QED BY <2>1 DEF Enqueued
<1>6. CASE TakeNextFd \/ SwapFd \/ Unready \/ WaitForNextFd \/ CheckErrorState \/
          DestroyHandle
  <2>1. UNCHANGED queue_ /\ (Dropped => Dropped')
    BY <1>6 DEF TakeNextFd, SwapFd, Unready, WaitForNextFd, CheckErrorState, DestroyHandle
  <2> QED BY <2>1 DEF Enqueued
<1>7. CASE (\E t \in {"writer", "rotator"} : OpenTemp(t)) \/
          (\E t \in {"writer", "rotator"} : PublishTemp(t)) \/
          (\E t \in {"writer", "rotator"} : SignalNextFd(t)) \/
          (\E t \in {"writer", "rotator"} : OpenTempFails(t)) \/
          (\E t \in {"writer", "rotator"} : GiveUpPreparing(t))
  <2>1. UNCHANGED queue_ /\ (Dropped => Dropped')
    BY <1>7 DEF OpenTemp, PublishTemp, SignalNextFd, OpenTempFails, GiveUpPreparing, AfterPrepare
  <2> QED BY <2>1 DEF Enqueued
<1>8. CASE CheckRunning \/ HandleClose \/ CloseOld \/ LinkBase \/ LinkCollides
  <2>1. UNCHANGED queue_ /\ (Dropped => Dropped')
    BY <1>8 DEF CheckRunning, HandleClose, CloseOld, LinkBase, LinkCollides
  <2> QED BY <2>1 DEF Enqueued
<1>9. CASE LinkFails \/ RenameBase \/ RenameTemp \/ RenameFails \/ AddToCache \/ Retain \/
          ComputeNextTime \/ ClearRunning \/ EnqueueShutdown \/ JoinRotator
  <2>1. UNCHANGED queue_ /\ (Dropped => Dropped')
    BY <1>9 DEF LinkFails, RenameBase, RenameTemp, RenameFails, AddToCache, Retain,
       ComputeNextTime,
         ClearRunning, EnqueueShutdown, JoinRotator, StartPreparing
  <2> QED BY <2>1 DEF Enqueued
<1>10. CASE UNCHANGED vars
  <2>1. UNCHANGED <<queue_, pc>>
    BY <1>10
  <2> QED BY <2>1 DEF Enqueued
<1> QED BY <1>1, <1>2, <1>3, <1>4, <1>5, <1>6, <1>7, <1>8, <1>9, <1>10, NextCases

(* A rotation gets into the queue from the writer, and out to the rotator.   *)
LEMMA DequeueEffect ==
    ASSUME Types, Service, Dequeue
    PROVE  /\ ~Queued' /\ Head(queue_) \in Messages /\ Head(queue_).type \in {"rotate", "close"}
           /\ 1 \in DOMAIN queue_ /\ Head(queue_) = queue_[1]
           /\ Head(queue_).type = "rotate" => Queued
           /\ pc["rotator"] = "dequeue" /\ msg' = Head(queue_)
           /\ pc' = [pc EXCEPT !["rotator"] = Head(queue_).type]
<1>1. queue_ # <<>> /\ queue_' = Tail(queue_) /\ msg' = Head(queue_) /\ pc["rotator"] = "dequeue"
      /\ pc' = [pc EXCEPT !["rotator"] = Head(queue_).type]
  BY DEF Dequeue, Goto
<1>2. /\ 1 \in DOMAIN queue_ /\ Head(queue_) = queue_[1] /\ Head(queue_) \in Messages
      /\ Len(queue_) \in Nat /\ DOMAIN queue_ = 1 .. Len(queue_)
      /\ \A i \in DOMAIN queue_' : /\ i + 1 \in DOMAIN queue_ /\ i \in 1 .. Len(queue_) - 1
                                  /\ queue_'[i] = queue_[i + 1]
  BY <1>1, QueueFacts DEF Types, MessageTypes
<1>3. ASSUME NEW i \in DOMAIN queue_' PROVE queue_'[i].type # "rotate"
  <2>1. i + 1 \in DOMAIN queue_ /\ i + 1 # 1 /\ queue_'[i] = queue_[i + 1]
    BY <1>2
  <2> QED BY <2>1 DEF Service, Enqueued
<1> QED BY <1>1, <1>2, <1>3 DEF Queued, Messages

LEMMA CloseEffect ==
    ASSUME Types, CloseHandle
    PROVE  /\ UNCHANGED Queued
           /\ \A i \in DOMAIN queue_' : queue_'[i].type = "rotate" =>
                 i \in DOMAIN queue_ /\ queue_'[i] = queue_[i]
           /\ pc["writer"] = "idle" /\ Goto("writer", "dropped")
<1> DEFINE m == [type |-> "close", fd |-> current_fd_, temp |-> NoFile]
<1>1. CASE queue_' = Append(queue_, m)
  <2>1. m \in Messages /\ m.type = "close"
    BY DEF Messages, Types, FileTypes, NoFile
  <2> HIDE DEF m
  <2>2. /\ DOMAIN queue_' = DOMAIN queue_ \cup {Len(queue_) + 1}
        /\ queue_'[Len(queue_) + 1] = m
        /\ \A i \in DOMAIN queue_ : queue_'[i] = queue_[i]
    BY <1>1, <2>1, QueueFacts DEF Types, MessageTypes
  <2> QED BY <2>1, <2>2 DEF Queued, CloseHandle
<1>2. CASE UNCHANGED queue_
  BY <1>2 DEF Queued, CloseHandle
<1> QED BY <1>1, <1>2 DEF CloseHandle

LEMMA ExclusiveStep == ASSUME Inv, [Next]_vars PROVE Exclusive'
<1> USE DEF vars, fsVars, fdVars, handleVars, serviceVars, rotateLocals, prepareLocals,
             writerLocals, outsideWriter, outsideRotator, outsidePrepare, rotating,
             outsideOwner, Goto, Inv, Types, Token, PcTypes, Threads, WriterLabels,
             RotatorLabels, OwnerLabels, Exclusive, Prepared, Opening, Swapping, Swapped,
             Rotating, Renaming
<1>1. CASE Open
  <2>1. UNCHANGED <<next_fd_, queue_>> /\ pc' = [pc EXCEPT !["writer"] = "retain"] /\ pc["writer"] = "open"
    BY <1>1 DEF Open
  <2>2. UNCHANGED Queued
    BY <2>1 DEF Queued
  <2> QED BY <2>1, <2>2
<1>2. CASE \E t \in {"writer", "rotator"} : OpenTemp(t)
  <2>1. PICK t \in {"writer", "rotator"} : OpenTemp(t)
    BY <1>2
  <2>2. UNCHANGED queue_ /\ pc' = [pc EXCEPT ![t] = "publish"] /\ pc[t] = "prepare" /\ next_fd_ = NoFd
    BY <2>1, OpenTempEffect
  <2>3. UNCHANGED Queued /\ (Queued => queue_ # <<>>)
    BY <2>2 DEF Queued
  <2> QED BY <2>2, <2>3 DEF Service, Handled, Starting
<1>3. CASE NotifyRotator
  BY <1>3 DEF NotifyRotator
<1>4. CASE CloseHandle
  <2>1. Queued' => Queued
    BY <1>4, CloseEffect
  <2> QED BY <1>4, <2>1 DEF CloseHandle
<1>5. CASE Dequeue
  <2>1. /\ ~Queued' /\ Head(queue_).type \in {"rotate", "close"}
        /\ Head(queue_).type = "rotate" => Queued
    BY <1>5, DequeueEffect
  <2>2. UNCHANGED next_fd_ /\ pc' = [pc EXCEPT !["rotator"] = Head(queue_).type] /\ pc["rotator"] = "dequeue"
    BY <1>5 DEF Dequeue
  <2> QED BY <2>1, <2>2
<1>6. CASE Drain
  <2>1. ~Queued'
    <3>1. DOMAIN queue_' = {}
      BY <1>6 DEF Drain
    <3> QED BY <3>1 DEF Queued
  <2> QED BY <1>6, <2>1 DEF Drain
<1>7. CASE RetainAtOpen \/ TrackHandle \/ Write \/ TimePasses
  <2>1. UNCHANGED queue_
    BY <1>7 DEF RetainAtOpen, TrackHandle, Write, TimePasses, StartPreparing
  <2>2. UNCHANGED Queued
    BY <2>1 DEF Queued
  <2> QED BY <1>7, <2>2 DEF RetainAtOpen, TrackHandle, Write, TimePasses, StartPreparing
<1>8. CASE TakeNextFd
  <2>1. UNCHANGED queue_
    BY <1>8 DEF TakeNextFd
  <2>2. UNCHANGED Queued
    BY <2>1 DEF Queued
  <2> QED BY <1>8, <2>2 DEF TakeNextFd
<1>9. CASE CheckRotation \/ SwapFd \/ Unready \/ WaitForNextFd \/ CheckErrorState
  <2>1. UNCHANGED queue_
    BY <1>9 DEF CheckRotation, SwapFd, Unready, WaitForNextFd, CheckErrorState
  <2>2. UNCHANGED Queued
    BY <2>1 DEF Queued
  <2> QED BY <1>9, <2>2 DEF CheckRotation, SwapFd, Unready, WaitForNextFd, CheckErrorState
<1>10. CASE DestroyHandle \/ (\E t \in {"writer", "rotator"} : PublishTemp(t)) \/
          (\E t \in {"writer", "rotator"} : SignalNextFd(t)) \/
          (\E t \in {"writer", "rotator"} : OpenTempFails(t)) \/
          (\E t \in {"writer", "rotator"} : GiveUpPreparing(t))
  <2>1. UNCHANGED queue_
    BY <1>10 DEF DestroyHandle, PublishTemp, SignalNextFd, OpenTempFails, GiveUpPreparing,
       AfterPrepare
  <2>2. UNCHANGED Queued
    BY <2>1 DEF Queued
  <2> QED BY <1>10, <2>2 DEF DestroyHandle, PublishTemp, SignalNextFd, OpenTempFails,
     GiveUpPreparing, AfterPrepare
<1>11. CASE CheckRunning \/ HandleClose \/ CloseOld \/ LinkBase \/ LinkCollides
  <2>1. UNCHANGED queue_
    BY <1>11 DEF CheckRunning, HandleClose, CloseOld, LinkBase, LinkCollides
  <2>2. UNCHANGED Queued
    BY <2>1 DEF Queued
  <2> QED BY <1>11, <2>2 DEF CheckRunning, HandleClose, CloseOld, LinkBase, LinkCollides
<1>12. CASE LinkFails \/ RenameBase \/ RenameTemp \/ RenameFails \/ AddToCache \/ Retain \/
          ComputeNextTime \/ ClearRunning \/ EnqueueShutdown \/ JoinRotator
  <2>1. UNCHANGED queue_
    BY <1>12 DEF LinkFails, RenameBase, RenameTemp, RenameFails, AddToCache, Retain,
       ComputeNextTime,
         ClearRunning, EnqueueShutdown, JoinRotator, StartPreparing
  <2>2. UNCHANGED Queued
    BY <2>1 DEF Queued
  <2> QED BY <1>12, <2>2 DEF LinkFails, RenameBase, RenameTemp, RenameFails, AddToCache, Retain,
     ComputeNextTime,
         ClearRunning, EnqueueShutdown, JoinRotator, StartPreparing
<1>13. CASE UNCHANGED vars
  <2>1. UNCHANGED queue_
    BY <1>13
  <2>2. UNCHANGED Queued
    BY <2>1 DEF Queued
  <2> QED BY <1>13, <2>2
<1> QED BY <1>1, <1>2, <1>3, <1>4, <1>5, <1>6, <1>7, <1>8, <1>9, <1>10, <1>11, <1>12, <1>13, NextCases

LEMMA PublishedStep == ASSUME Inv, [Next]_vars PROVE Published'
<1> USE DEF vars, fsVars, fdVars, handleVars, serviceVars, rotateLocals, prepareLocals,
             writerLocals, outsideWriter, outsideRotator, outsidePrepare, rotating,
             outsideOwner, Goto, Inv, Types, Token, PcTypes, Threads, WriterLabels,
             RotatorLabels, OwnerLabels, Published, Prepared, Opening, Swapping, Swapped,
             Rotating, Renaming
<1>1. CASE \E t \in {"writer", "rotator"} : OpenTemp(t)
  <2>1. PICK t \in {"writer", "rotator"} : OpenTemp(t)
    BY <1>1
  <2>2. pc' = [pc EXCEPT ![t] = "publish"] /\ pc[t] = "prepare" /\ next_fd_ = NoFd
        /\ next_fd_' = files + 1 /\ UNCHANGED next_fd_ready_
    BY <2>1, OpenTempEffect
  <2>3. ~next_fd_ready_
    BY <2>2 DEF Exclusive
  <2>4. next_fd_' # NoFd
    BY <2>2 DEF NoFd, FileTypes
  <2> QED BY <2>2, <2>3, <2>4
<1>2. CASE \E t \in {"writer", "rotator"} : PublishTemp(t)
  BY <1>2 DEF PublishTemp, Service, Handled, Starting
<1>3. CASE TakeNextFd
  BY <1>3 DEF TakeNextFd
<1>4. CASE SwapFd
  BY <1>4 DEF SwapFd
<1>5. CASE Unready
  BY <1>5 DEF Unready, Exclusive
<1>6. CASE Dequeue
  <2>1. pc' = [pc EXCEPT !["rotator"] = Head(queue_).type] /\ pc["rotator"] = "dequeue"
        /\ Head(queue_).type \in {"rotate", "close"}
    BY <1>6, DequeueEffect
  <2>2. UNCHANGED <<next_fd_, next_fd_ready_, next_temp_>>
    BY <1>6 DEF Dequeue
  <2> QED BY <2>1, <2>2
<1>7. CASE (\E t \in {"writer", "rotator"} : SignalNextFd(t)) \/
          (\E t \in {"writer", "rotator"} : GiveUpPreparing(t))
  BY <1>7 DEF SignalNextFd, GiveUpPreparing, AfterPrepare
<1>8. CASE Open
  BY <1>8 DEF Open
<1>9. CASE \E t \in {"writer", "rotator"} : OpenTempFails(t)
  BY <1>9 DEF OpenTempFails
<1>10. CASE RetainAtOpen \/ TrackHandle \/ Write \/ TimePasses \/ CheckRotation \/
          NotifyRotator
  BY <1>10 DEF RetainAtOpen, TrackHandle, Write, TimePasses, CheckRotation, NotifyRotator,
     StartPreparing
<1>11. CASE WaitForNextFd \/ CheckErrorState \/ CloseHandle \/ DestroyHandle \/
          CheckRunning \/ Drain
  BY <1>11 DEF WaitForNextFd, CheckErrorState, CloseHandle, DestroyHandle, CheckRunning,
     Drain
<1>12. CASE HandleClose \/ CloseOld \/ LinkBase \/ LinkCollides \/ LinkFails \/ RenameBase
  BY <1>12 DEF HandleClose, CloseOld, LinkBase, LinkCollides, LinkFails, RenameBase
<1>13. CASE RenameTemp \/ RenameFails \/ AddToCache \/ Retain \/ ComputeNextTime \/
          ClearRunning \/ EnqueueShutdown \/ JoinRotator
  BY <1>13 DEF RenameTemp, RenameFails, AddToCache, Retain, ComputeNextTime, ClearRunning,
     EnqueueShutdown, JoinRotator, StartPreparing
<1>14. CASE UNCHANGED vars
  BY <1>14
<1> QED BY <1>1, <1>2, <1>3, <1>4, <1>5, <1>6, <1>7, <1>8, <1>9, <1>10, <1>11, <1>12, <1>13, <1>14, NextCases

LEMMA AscendingStep == ASSUME Inv, [Next]_vars PROVE Ascending'
<1> USE DEF vars, fsVars, fdVars, handleVars, serviceVars, rotateLocals, prepareLocals,
             writerLocals, outsideWriter, outsideRotator, outsidePrepare, rotating,
             outsideOwner, Goto, Inv, Types, Token, Ordered, PcTypes, Threads, WriterLabels,
             RotatorLabels, OwnerLabels, Ascending, Prepared, Swapped, Rotating, Renaming
<1>1. CASE Open
  <2>1. current_fd_' # NoFd /\ pc' = [pc EXCEPT !["writer"] = "retain"] /\ pc["writer"] = "open"
        /\ UNCHANGED <<next_fd_, new_fd, next_temp_, old_fd, msg>>
    <3>1. files \in Nat /\ Base \in Names
      BY NameFacts DEF FileTypes
    <3> QED BY <1>1, <3>1, OpenEffect DEF NoFd, NoFile, Exists
  <2>2. next_fd_ = NoFd /\ new_fd = NoFd
    BY <2>1 DEF Untouched
  <2>3. ~Rotating
    BY <2>1 DEF Service, Handled, Starting
  <2> QED BY <2>1, <2>2, <2>3
<1>2. CASE \E t \in {"writer", "rotator"} : OpenTemp(t)
  <2>1. PICK t \in {"writer", "rotator"} : OpenTemp(t)
    BY <1>2
  <2>2. pc' = [pc EXCEPT ![t] = "publish"] /\ pc[t] = "prepare" /\ next_fd_ = NoFd
        /\ next_fd_' = files + 1 /\ UNCHANGED <<current_fd_, new_fd, next_temp_, old_fd, msg>>
    BY <2>1, OpenTempEffect
  <2>3. current_fd_ < files + 1
    BY DEF FileTypes
  <2> QED BY <2>2, <2>3
<1>3. CASE \E t \in {"writer", "rotator"} : PublishTemp(t)
  <2>1. PICK t \in {"writer", "rotator"} : PublishTemp(t)
    BY <1>3
  <2>2. Prepared /\ ~Swapping
    BY <2>1 DEF PublishTemp, Published, Exclusive
  <2>3. pc' = [pc EXCEPT ![t] = "signal"] /\ pc[t] = "publish"
        /\ UNCHANGED <<next_fd_, current_fd_, new_fd, old_fd, msg>>
    BY <2>1 DEF PublishTemp
  <2> QED BY <2>2, <2>3 DEF Swapping
<1>4. CASE TakeNextFd
  <2>1. next_fd_ready_ /\ next_fd_ # NoFd => next_temp_ = next_fd_
    BY DEF Published
  <2> QED BY <1>4, <2>1 DEF TakeNextFd
<1>5. CASE SwapFd
  <2>1. ~Rotating /\ ~Prepared
    BY <1>5 DEF SwapFd, Exclusive, Swapping
  <2>2. /\ current_fd_ < new_fd /\ next_temp_ = new_fd /\ current_fd_ # NoFd
    BY <1>5 DEF SwapFd
  <2>3. /\ old_fd' = current_fd_ /\ current_fd_' = new_fd /\ pc' = [pc EXCEPT !["writer"] = "unready"]
        /\ UNCHANGED <<next_fd_, next_temp_, new_fd, msg>>
    BY <1>5 DEF SwapFd
  <2>4. ~Rotating' /\ ~Prepared' /\ pc'["writer"] = "unready"
    BY <2>1, <2>3
  <2>5. /\ old_fd' # NoFd /\ old_fd' < current_fd_' /\ current_fd_' # NoFd
        /\ new_fd' = current_fd_' /\ next_temp_' = current_fd_'
    BY <2>2, <2>3 DEF NoFd, FileTypes
  <2> HIDE DEF Prepared, Rotating
  <2> QED BY <2>4, <2>5
<1>6. CASE Unready
  BY <1>6 DEF Unready
<1>7. CASE Dequeue
  <2>1. pc' = [pc EXCEPT !["rotator"] = Head(queue_).type] /\ pc["rotator"] = "dequeue"
        /\ Head(queue_).type \in {"rotate", "close"} /\ msg' = queue_[1] /\ 1 \in DOMAIN queue_
        /\ Head(queue_) = queue_[1]
    BY <1>7, DequeueEffect
  <2>2. UNCHANGED <<next_fd_, current_fd_, next_temp_, new_fd, old_fd>>
    BY <1>7 DEF Dequeue
  <2>3. queue_[1].type = "rotate" => queue_[1].fd < current_fd_ /\ queue_[1].temp = current_fd_
    BY <2>1 DEF QueueOlder
  <2> QED BY <2>1, <2>2, <2>3
<1>8. CASE CheckRunning
  BY <1>8 DEF CheckRunning
<1>9. CASE (\E t \in {"writer", "rotator"} : SignalNextFd(t)) \/
          (\E t \in {"writer", "rotator"} : GiveUpPreparing(t))
  BY <1>9 DEF SignalNextFd, GiveUpPreparing, AfterPrepare
<1>10. CASE \E t \in {"writer", "rotator"} : OpenTempFails(t)
  BY <1>10 DEF OpenTempFails
<1>11. CASE RetainAtOpen \/ TrackHandle \/ Write \/ TimePasses \/ CheckRotation \/
          NotifyRotator
  BY <1>11 DEF RetainAtOpen, TrackHandle, Write, TimePasses, CheckRotation, NotifyRotator,
     StartPreparing
<1>12. CASE WaitForNextFd \/ CheckErrorState \/ CloseHandle \/ DestroyHandle
  BY <1>12 DEF WaitForNextFd, CheckErrorState, CloseHandle, DestroyHandle
<1>13. CASE Drain \/ HandleClose \/ CloseOld \/ LinkBase \/ LinkCollides \/ LinkFails \/
          RenameBase
  BY <1>13 DEF Drain, HandleClose, CloseOld, LinkBase, LinkCollides, LinkFails, RenameBase
<1>14. CASE RenameTemp \/ RenameFails \/ AddToCache \/ Retain \/ ComputeNextTime \/
          ClearRunning \/ EnqueueShutdown \/ JoinRotator
  BY <1>14 DEF RenameTemp, RenameFails, AddToCache, Retain, ComputeNextTime, ClearRunning,
     EnqueueShutdown, JoinRotator, StartPreparing
<1>15. CASE UNCHANGED vars
  BY <1>15
<1> QED BY <1>1, <1>2, <1>3, <1>4, <1>5, <1>6, <1>7, <1>8, <1>9, <1>10, <1>11, <1>12, <1>13, <1>14,
       <1>15, NextCases

LEMMA QueueOlderStep == ASSUME Inv, [Next]_vars PROVE QueueOlder'
<1> USE DEF vars, fsVars, fdVars, handleVars, serviceVars, rotateLocals, prepareLocals,
             writerLocals, outsideWriter, outsideRotator, outsidePrepare, rotating,
             outsideOwner, Goto, Inv, Types, Token, Ordered, PcTypes, Threads, WriterLabels,
             RotatorLabels, OwnerLabels
<1>1. CASE Open \/ SwapFd
  <2>1. \A i \in DOMAIN queue_ : queue_[i].type # "rotate"
    BY <1>1 DEF Open, SwapFd, Service, Handled, Starting, Exclusive, Swapping, Queued
  <2>2. UNCHANGED queue_
    BY <1>1 DEF Open, SwapFd
  <2> QED BY <2>1, <2>2 DEF QueueOlder
<1>2. CASE NotifyRotator
  <2> DEFINE m == [type |-> "rotate", fd |-> old_fd, temp |-> next_temp_]
  <2>1. queue_' = Append(queue_, m) /\ m \in Messages /\ UNCHANGED current_fd_
    BY <1>2 DEF NotifyRotator, Messages, FileTypes
  <2>2. m.fd < current_fd_ /\ m.temp = current_fd_
    BY <1>2 DEF NotifyRotator, Ascending, Swapped
  <2> HIDE DEF m
  <2>3. /\ DOMAIN queue_' = DOMAIN queue_ \cup {Len(queue_) + 1}
        /\ queue_'[Len(queue_) + 1] = m
        /\ \A i \in DOMAIN queue_ : queue_'[i] = queue_[i]
    BY <2>1, QueueFacts DEF MessageTypes
  <2> QED BY <2>1, <2>2, <2>3 DEF QueueOlder
<1>3. CASE CloseHandle
  <2>1. /\ UNCHANGED current_fd_
        /\ \A i \in DOMAIN queue_' : queue_'[i].type = "rotate" =>
                 i \in DOMAIN queue_ /\ queue_'[i] = queue_[i]
    BY <1>3, CloseEffect DEF CloseHandle
  <2> QED BY <2>1 DEF QueueOlder
<1>4. CASE Dequeue \/ Drain
  <2>1. ~Queued'
    <3>1. Drain => DOMAIN queue_' = {}
      BY DEF Drain
    <3> QED BY <1>4, <3>1, DequeueEffect DEF Queued
  <2> QED BY <2>1 DEF QueueOlder, Queued
<1>5. CASE RetainAtOpen \/ TrackHandle \/ Write \/ TimePasses
  <2>1. UNCHANGED <<queue_, current_fd_>>
    BY <1>5 DEF RetainAtOpen, TrackHandle, Write, TimePasses, StartPreparing
  <2> QED BY <2>1 DEF QueueOlder
<1>6. CASE CheckRotation \/ TakeNextFd \/ Unready \/ WaitForNextFd \/ CheckErrorState \/
          DestroyHandle
  <2>1. UNCHANGED <<queue_, current_fd_>>
    BY <1>6 DEF CheckRotation, TakeNextFd, Unready, WaitForNextFd, CheckErrorState, DestroyHandle
  <2> QED BY <2>1 DEF QueueOlder
<1>7. CASE (\E t \in {"writer", "rotator"} : OpenTemp(t)) \/
          (\E t \in {"writer", "rotator"} : PublishTemp(t)) \/
          (\E t \in {"writer", "rotator"} : SignalNextFd(t)) \/
          (\E t \in {"writer", "rotator"} : OpenTempFails(t)) \/
          (\E t \in {"writer", "rotator"} : GiveUpPreparing(t))
  <2>1. UNCHANGED <<queue_, current_fd_>>
    BY <1>7 DEF OpenTemp, PublishTemp, SignalNextFd, OpenTempFails, GiveUpPreparing, AfterPrepare
  <2> QED BY <2>1 DEF QueueOlder
<1>8. CASE CheckRunning \/ HandleClose \/ CloseOld \/ LinkBase \/ LinkCollides
  <2>1. UNCHANGED <<queue_, current_fd_>>
    BY <1>8 DEF CheckRunning, HandleClose, CloseOld, LinkBase, LinkCollides
  <2> QED BY <2>1 DEF QueueOlder
<1>9. CASE LinkFails \/ RenameBase \/ RenameTemp \/ RenameFails \/ AddToCache \/ Retain \/
          ComputeNextTime \/ ClearRunning \/ EnqueueShutdown \/ JoinRotator
  <2>1. UNCHANGED <<queue_, current_fd_>>
    BY <1>9 DEF LinkFails, RenameBase, RenameTemp, RenameFails, AddToCache, Retain,
       ComputeNextTime,
         ClearRunning, EnqueueShutdown, JoinRotator, StartPreparing
  <2> QED BY <2>1 DEF QueueOlder
<1>10. CASE UNCHANGED vars
  <2>1. UNCHANGED <<queue_, current_fd_>>
    BY <1>10
  <2> QED BY <2>1 DEF QueueOlder
<1> QED BY <1>1, <1>2, <1>3, <1>4, <1>5, <1>6, <1>7, <1>8, <1>9, <1>10, NextCases

LEMMA ClosedOlderStep == ASSUME Inv, [Next]_vars PROVE ClosedOlder'
<1> USE DEF vars, fsVars, fdVars, handleVars, serviceVars, rotateLocals, prepareLocals,
             writerLocals, outsideWriter, outsideRotator, outsidePrepare, rotating,
             outsideOwner, Goto, Inv, Types, Token, Ordered, PcTypes, Threads, WriterLabels,
             RotatorLabels, OwnerLabels, Dropped
<1>1. CASE Open
  <2>1. closed' = {}
    BY <1>1 DEF Open, Untouched
  <2> QED BY <2>1 DEF ClosedOlder
<1>2. CASE SwapFd
  <2>1. current_fd_ < current_fd_' /\ current_fd_ \in Nat /\ current_fd_' \in Nat
    BY <1>2 DEF SwapFd, Ascending, FileTypes
  <2>2. UNCHANGED closed /\ UNCHANGED pc["owner"] /\ closed \subseteq Nat /\ ~Dropped
    BY <1>2 DEF SwapFd, FileTypes
  <2>3. \A x \in Nat : x < current_fd_ => x < current_fd_'
    BY <2>1
  <2> QED BY <2>2, <2>3 DEF ClosedOlder
<1>3. CASE HandleClose
  <2>1. Dropped'
    BY <1>3 DEF HandleClose, Service, Handled
  <2> QED BY <2>1 DEF ClosedOlder
<1>4. CASE CloseOld
  <2>1. msg.fd < current_fd_ /\ closed' = closed \cup {msg.fd}
        /\ UNCHANGED <<current_fd_, Dropped, pc["owner"]>>
    BY <1>4 DEF CloseOld, Ascending, Rotating, Renaming
  <2> QED BY <2>1 DEF ClosedOlder
<1>5. CASE Drain
  <2>1. CASE Dropped
    BY <1>5, <2>1 DEF Drain, ClosedOlder
  <2>2. CASE ~Dropped
    <3>1. \A i \in DOMAIN queue_ : queue_[i].type # "close"
      BY <2>2 DEF Service, Enqueued
    <3>2. closed' = closed /\ UNCHANGED <<current_fd_, pc["owner"], pc["writer"]>>
      BY <1>5, <3>1 DEF Drain
    <3> QED BY <3>2 DEF ClosedOlder
  <2> QED BY <2>1, <2>2
<1>6. CASE DestroyHandle \/ JoinRotator
  <2>1. Dropped' \/ pc'["owner"] = "destroyed"
    BY <1>6 DEF DestroyHandle, JoinRotator
  <2> QED BY <2>1 DEF ClosedOlder
<1>7. CASE \E t \in {"writer", "rotator"} : OpenTemp(t)
  <2>1. PICK t \in {"writer", "rotator"} : OpenTemp(t)
    BY <1>7
  <2>2. UNCHANGED <<closed, current_fd_>> /\ pc' = [pc EXCEPT ![t] = "publish"] /\ pc[t] = "prepare"
    BY <2>1, OpenTempEffect
  <2>3. UNCHANGED pc["owner"] /\ (Dropped => Dropped')
    BY <2>2
  <2> QED BY <2>2, <2>3 DEF ClosedOlder
<1>8. CASE RetainAtOpen \/ TrackHandle \/ Write \/ TimePasses \/ CheckRotation
  <2>1. UNCHANGED <<closed, current_fd_>> /\ (Dropped => Dropped') /\ (pc["owner"] = "destroyed" => pc'["owner"] = "destroyed")
    BY <1>8 DEF RetainAtOpen, TrackHandle, Write, TimePasses, CheckRotation, StartPreparing
  <2> QED BY <2>1 DEF ClosedOlder
<1>9. CASE TakeNextFd \/ Unready \/ NotifyRotator \/ WaitForNextFd \/ CheckErrorState \/
          CloseHandle
  <2>1. UNCHANGED <<closed, current_fd_>> /\ (Dropped => Dropped') /\ (pc["owner"] = "destroyed" => pc'["owner"] = "destroyed")
    BY <1>9 DEF TakeNextFd, Unready, NotifyRotator, WaitForNextFd, CheckErrorState, CloseHandle
  <2> QED BY <2>1 DEF ClosedOlder
<1>10. CASE (\E t \in {"writer", "rotator"} : PublishTemp(t)) \/
          (\E t \in {"writer", "rotator"} : SignalNextFd(t)) \/
          (\E t \in {"writer", "rotator"} : OpenTempFails(t)) \/
          (\E t \in {"writer", "rotator"} : GiveUpPreparing(t))
  <2>1. UNCHANGED <<closed, current_fd_>> /\ (Dropped => Dropped') /\ (pc["owner"] = "destroyed" => pc'["owner"] = "destroyed")
    BY <1>10 DEF PublishTemp, SignalNextFd, OpenTempFails, GiveUpPreparing, AfterPrepare
  <2> QED BY <2>1 DEF ClosedOlder
<1>11. CASE Dequeue
  <2>1. UNCHANGED <<closed, current_fd_>> /\ pc' = [pc EXCEPT !["rotator"] = Head(queue_).type]
    BY <1>11, DequeueEffect DEF Dequeue
  <2>2. UNCHANGED pc["owner"] /\ (Dropped => Dropped')
    BY <2>1
  <2> QED BY <2>1, <2>2 DEF ClosedOlder
<1>12. CASE CheckRunning \/ LinkBase \/ LinkCollides \/ LinkFails
  <2>1. UNCHANGED <<closed, current_fd_>> /\ (Dropped => Dropped') /\ (pc["owner"] = "destroyed" => pc'["owner"] = "destroyed")
    BY <1>12 DEF CheckRunning, LinkBase, LinkCollides, LinkFails
  <2> QED BY <2>1 DEF ClosedOlder
<1>13. CASE RenameBase \/ RenameTemp \/ RenameFails \/ AddToCache \/ Retain \/
          ComputeNextTime \/ ClearRunning \/ EnqueueShutdown
  <2>1. UNCHANGED <<closed, current_fd_>> /\ (Dropped => Dropped') /\ (pc["owner"] = "destroyed" => pc'["owner"] = "destroyed")
    BY <1>13 DEF RenameBase, RenameTemp, RenameFails, AddToCache, Retain, ComputeNextTime,
       ClearRunning,
         EnqueueShutdown, StartPreparing
  <2> QED BY <2>1 DEF ClosedOlder
<1>14. CASE UNCHANGED vars
  <2>1. UNCHANGED <<closed, current_fd_, pc>>
    BY <1>14
  <2> QED BY <2>1 DEF ClosedOlder
<1> QED BY <1>1, <1>2, <1>3, <1>4, <1>5, <1>6, <1>7, <1>8, <1>9, <1>10, <1>11, <1>12, <1>13, <1>14, NextCases

LEMMA GrowingStep == ASSUME Inv, [Next]_vars PROVE Growing'
<1> USE DEF vars, fsVars, fdVars, handleVars, serviceVars, rotateLocals, prepareLocals,
             writerLocals, outsideWriter, outsideRotator, outsidePrepare, rotating,
             outsideOwner, Goto, Inv, Types, Token, Written, PcTypes, Threads, WriterLabels,
             RotatorLabels, OwnerLabels
<1>1. CASE Open
  <2>1. PICK b \in {0, 1} :
          /\ files = OldFiles + b
          /\ dir = [n \in Names |->
                     IF n \in RotatedNames /\ n[2] <= OldFiles THEN n[2]
                     ELSE IF n = Base /\ b = 1 THEN OldFiles + 1 ELSE NoFile]
          /\ where = [n \in 1 .. OldFiles + b |-> n]
    BY <1>1 DEF Open, Untouched
  <2>2. OldFiles \in Nat /\ Base \in Names /\ Base \notin RotatedNames /\ Base # NoName
    BY Constants, NameFacts DEF Base, NoName
  <2>3. dir[Base] = IF b = 1 THEN files ELSE NoFile
    BY <2>1, <2>2
  <2>4. files <= current_fd_' /\ UNCHANGED where /\ files \in Nat /\ current_fd_' \in Nat
    BY <1>1, <2>2, <2>3, OpenEffect DEF Exists, FileTypes, NoFile
  <2>5. \A n \in DOMAIN where : where[n] <= files /\ where[n] \in Nat
    BY DEF FileTypes
  <2>6. \A n \in DOMAIN where : where[n] <= current_fd_'
    BY <2>4, <2>5
  <2> QED BY <2>4, <2>6 DEF Growing
<1>2. CASE Write
  <2>1. /\ where' = Append(where, current_fd_) /\ UNCHANGED current_fd_
        /\ current_fd_ \in Nat /\ where \in Seq(Nat) /\ pc["writer"] # "open"
    BY <1>2 DEF Write, FileTypes
  <2>2. /\ Len(where) \in Nat /\ DOMAIN where' = DOMAIN where \cup {Len(where) + 1}
        /\ DOMAIN where = 1 .. Len(where)
        /\ where'[Len(where) + 1] = current_fd_ /\ \A i \in DOMAIN where : where'[i] = where[i]
    BY <2>1, WriteFacts
  <2> USE DEF Growing
  <2>3. \A n \in DOMAIN where : where[n] <= current_fd_
    BY <2>1
  <2>4. current_fd_ <= current_fd_
    BY <2>1
  <2>5. ASSUME NEW n \in DOMAIN where' PROVE where'[n] <= current_fd_
    <3>1. n \in DOMAIN where \/ n = Len(where) + 1
      BY <2>2
    <3> QED BY <3>1, <2>2, <2>3, <2>4
  <2>6. ASSUME NEW m \in DOMAIN where', NEW n \in DOMAIN where', m <= n
        PROVE  where'[m] <= where'[n]
    <3>1. CASE n = Len(where) + 1
      BY <2>2, <2>5, <3>1
    <3>2. CASE n \in DOMAIN where
      <4>1. m \in DOMAIN where
        BY <2>2, <2>6, <3>2
      <4> QED BY <2>2, <2>6, <3>2, <4>1 DEF Growing
    <3> QED BY <2>2, <3>1, <3>2
  <2> QED BY <2>1, <2>5, <2>6 DEF Growing
<1>3. CASE SwapFd
  <2>1. current_fd_ <= current_fd_' /\ current_fd_ \in Nat /\ current_fd_' \in Nat
    BY <1>3 DEF SwapFd, Ordered, Ascending, FileTypes
  <2>2. UNCHANGED where /\ \A n \in DOMAIN where : where[n] \in Nat /\ where[n] <= current_fd_
    BY <1>3 DEF SwapFd, FileTypes, Growing
  <2>3. \A x \in Nat : x <= current_fd_ => x <= current_fd_'
    BY <2>1
  <2> QED BY <2>2, <2>3 DEF Growing
<1>4. CASE \E t \in {"writer", "rotator"} : OpenTemp(t)
  <2>1. PICK t \in {"writer", "rotator"} : OpenTemp(t)
    BY <1>4
  <2>2. UNCHANGED <<where, current_fd_>> /\ pc' = [pc EXCEPT ![t] = "publish"] /\ pc[t] = "prepare"
    BY <2>1, OpenTempEffect
  <2>3. pc'["writer"] = "open" <=> pc["writer"] = "open"
    BY <2>2
  <2> QED BY <2>2, <2>3 DEF Growing
<1>5. CASE Dequeue
  <2>1. UNCHANGED <<where, current_fd_>> /\ pc' = [pc EXCEPT !["rotator"] = Head(queue_).type]
    BY <1>5, DequeueEffect DEF Dequeue
  <2>2. pc'["writer"] = "open" <=> pc["writer"] = "open"
    BY <2>1
  <2> QED BY <2>1, <2>2 DEF Growing
<1>6. CASE RetainAtOpen \/ TrackHandle \/ TimePasses \/ CheckRotation \/ TakeNextFd
  <2>1. UNCHANGED <<where, current_fd_>> /\ (pc'["writer"] = "open" <=> pc["writer"] = "open")
    BY <1>6 DEF RetainAtOpen, TrackHandle, TimePasses, CheckRotation, TakeNextFd, StartPreparing
  <2> QED BY <2>1 DEF Growing
<1>7. CASE Unready \/ NotifyRotator \/ WaitForNextFd \/ CheckErrorState \/ CloseHandle \/
          DestroyHandle
  <2>1. UNCHANGED <<where, current_fd_>> /\ (pc'["writer"] = "open" <=> pc["writer"] = "open")
    BY <1>7 DEF Unready, NotifyRotator, WaitForNextFd, CheckErrorState, CloseHandle, DestroyHandle
  <2> QED BY <2>1 DEF Growing
<1>8. CASE (\E t \in {"writer", "rotator"} : PublishTemp(t)) \/
          (\E t \in {"writer", "rotator"} : SignalNextFd(t)) \/
          (\E t \in {"writer", "rotator"} : OpenTempFails(t)) \/
          (\E t \in {"writer", "rotator"} : GiveUpPreparing(t))
  <2>1. UNCHANGED <<where, current_fd_>> /\ (pc'["writer"] = "open" <=> pc["writer"] = "open")
    BY <1>8 DEF PublishTemp, SignalNextFd, OpenTempFails, GiveUpPreparing, AfterPrepare
  <2> QED BY <2>1 DEF Growing
<1>9. CASE CheckRunning \/ Drain \/ HandleClose \/ CloseOld \/ LinkBase \/ LinkCollides \/
          LinkFails
  <2>1. UNCHANGED <<where, current_fd_>> /\ (pc'["writer"] = "open" <=> pc["writer"] = "open")
    BY <1>9 DEF CheckRunning, Drain, HandleClose, CloseOld, LinkBase, LinkCollides, LinkFails
  <2> QED BY <2>1 DEF Growing
<1>10. CASE RenameBase \/ RenameTemp \/ RenameFails \/ AddToCache \/ Retain \/
          ComputeNextTime \/ ClearRunning \/ EnqueueShutdown \/ JoinRotator
  <2>1. UNCHANGED <<where, current_fd_>> /\ (pc'["writer"] = "open" <=> pc["writer"] = "open")
    BY <1>10 DEF RenameBase, RenameTemp, RenameFails, AddToCache, Retain, ComputeNextTime,
       ClearRunning,
         EnqueueShutdown, JoinRotator, StartPreparing
  <2> QED BY <2>1 DEF Growing
<1>11. CASE UNCHANGED vars
  <2>1. UNCHANGED <<where, current_fd_, pc>>
    BY <1>11
  <2> QED BY <2>1 DEF Growing
<1> QED BY <1>1, <1>2, <1>3, <1>4, <1>5, <1>6, <1>7, <1>8, <1>9, <1>10, <1>11, NextCases

LEMMA UsedStep == ASSUME Inv, [Next]_vars PROVE Used'
<1> USE DEF vars, fsVars, fdVars, handleVars, serviceVars, rotateLocals, prepareLocals,
             writerLocals, outsideWriter, outsideRotator, outsidePrepare, rotating,
             outsideOwner, Goto, Inv, Types, Token, Written, PcTypes, Threads, WriterLabels,
             RotatorLabels, OwnerLabels, Used, Swapped, Renaming
<1>1. CASE Open
  <2>1. UNCHANGED <<where, old_fd, msg>> /\ pc' = [pc EXCEPT !["writer"] = "retain"] /\ pc["writer"] = "open"
    BY <1>1, OpenEffect
  <2>2. \A f : UNCHANGED LinesIn(f)
    BY <2>1 DEF LinesIn
  <2> QED BY <2>1, <2>2
<1>2. CASE Write
  <2>1. /\ where' = Append(where, current_fd_) /\ current_fd_ \in Nat /\ where \in Seq(Nat)
    BY <1>2 DEF Write, FileTypes
  <2>2. /\ \A g : LinesIn(g) \subseteq LinesIn(g)'
        /\ LinesIn(current_fd_)' # {}
    <3>1. \A f \in Nat : where' = Append(where, f) =>
             /\ \A g : LinesIn(g) \subseteq LinesIn(g)'
             /\ \E n \in DOMAIN where' : where'[n] = f
      BY <2>1, WriteFacts
    <3>2. UNCHANGED current_fd_
      BY <1>2 DEF Write
    <3> QED BY <2>1, <3>1, <3>2 DEF LinesIn
  <2>3. pc' = [pc EXCEPT !["writer"] = "written"] /\ UNCHANGED <<current_fd_, old_fd, msg>>
    BY <1>2 DEF Write
  <2>4. \A g : LinesIn(g) # {} => LinesIn(g)' # {}
    BY <2>2
  <2> QED BY <2>2, <2>3, <2>4
<1>3. CASE SwapFd
  <2>1. UNCHANGED where
    BY <1>3 DEF SwapFd
  <2>2. \A f : UNCHANGED LinesIn(f)
    BY <2>1 DEF LinesIn
  <2> QED BY <1>3, <2>2 DEF SwapFd
<1>4. CASE \E t \in {"writer", "rotator"} : OpenTemp(t)
  <2>1. PICK t \in {"writer", "rotator"} : OpenTemp(t)
    BY <1>4
  <2>2. UNCHANGED <<where, current_fd_, old_fd, msg>> /\ pc' = [pc EXCEPT ![t] = "publish"]
        /\ pc[t] = "prepare"
    BY <2>1, OpenTempEffect
  <2>3. \A f : UNCHANGED LinesIn(f)
    BY <2>2 DEF LinesIn
  <2> QED BY <2>2, <2>3
<1>5. CASE Dequeue
  <2>1. UNCHANGED <<where, current_fd_, old_fd>> /\ pc' = [pc EXCEPT !["rotator"] = Head(queue_).type]
        /\ msg' = queue_[1] /\ 1 \in DOMAIN queue_ /\ Head(queue_) = queue_[1]
        /\ Head(queue_).type \in {"rotate", "close"}
    BY <1>5, DequeueEffect DEF Dequeue
  <2>2. \A f : UNCHANGED LinesIn(f)
    BY <2>1 DEF LinesIn
  <2>3. queue_[1].type = "rotate" => LinesIn(queue_[1].fd) # {}
    BY <2>1 DEF QueueUsed
  <2> QED BY <2>1, <2>2, <2>3
<1>6. CASE NotifyRotator
  <2>1. UNCHANGED where
    BY <1>6 DEF NotifyRotator
  <2>2. \A f : UNCHANGED LinesIn(f)
    BY <2>1 DEF LinesIn
  <2> QED BY <1>6, <2>2 DEF NotifyRotator
<1>7. CASE RetainAtOpen \/ TrackHandle \/ TimePasses \/ CheckRotation \/ TakeNextFd
  <2>1. UNCHANGED where
    BY <1>7 DEF RetainAtOpen, TrackHandle, TimePasses, CheckRotation, TakeNextFd, StartPreparing
  <2>2. \A f : UNCHANGED LinesIn(f)
    BY <2>1 DEF LinesIn
  <2> QED BY <1>7, <2>2 DEF RetainAtOpen, TrackHandle, TimePasses, CheckRotation, TakeNextFd,
     StartPreparing
<1>8. CASE Unready \/ WaitForNextFd \/ CheckErrorState \/ CloseHandle \/ DestroyHandle \/
          (\E t \in {"writer", "rotator"} : PublishTemp(t))
  <2>1. UNCHANGED where
    BY <1>8 DEF Unready, WaitForNextFd, CheckErrorState, CloseHandle, DestroyHandle, PublishTemp
  <2>2. \A f : UNCHANGED LinesIn(f)
    BY <2>1 DEF LinesIn
  <2> QED BY <1>8, <2>2 DEF Unready, WaitForNextFd, CheckErrorState, CloseHandle, DestroyHandle,
     PublishTemp
<1>9. CASE (\E t \in {"writer", "rotator"} : SignalNextFd(t)) \/
          (\E t \in {"writer", "rotator"} : OpenTempFails(t)) \/
          (\E t \in {"writer", "rotator"} : GiveUpPreparing(t)) \/ CheckRunning
  <2>1. UNCHANGED where
    BY <1>9 DEF SignalNextFd, OpenTempFails, GiveUpPreparing, CheckRunning, AfterPrepare
  <2>2. \A f : UNCHANGED LinesIn(f)
    BY <2>1 DEF LinesIn
  <2> QED BY <1>9, <2>2 DEF SignalNextFd, OpenTempFails, GiveUpPreparing, CheckRunning,
     AfterPrepare
<1>10. CASE Drain \/ HandleClose \/ CloseOld \/ LinkBase \/ LinkCollides \/ LinkFails \/
          RenameBase
  <2>1. UNCHANGED where
    BY <1>10 DEF Drain, HandleClose, CloseOld, LinkBase, LinkCollides, LinkFails, RenameBase
  <2>2. \A f : UNCHANGED LinesIn(f)
    BY <2>1 DEF LinesIn
  <2> QED BY <1>10, <2>2 DEF Drain, HandleClose, CloseOld, LinkBase, LinkCollides, LinkFails,
     RenameBase
<1>11. CASE RenameTemp \/ RenameFails \/ AddToCache \/ Retain \/ ComputeNextTime \/
          ClearRunning \/ EnqueueShutdown \/ JoinRotator
  <2>1. UNCHANGED where
    BY <1>11 DEF RenameTemp, RenameFails, AddToCache, Retain, ComputeNextTime, ClearRunning,
         EnqueueShutdown, JoinRotator, StartPreparing
  <2>2. \A f : UNCHANGED LinesIn(f)
    BY <2>1 DEF LinesIn
  <2> QED BY <1>11, <2>2 DEF RenameTemp, RenameFails, AddToCache, Retain, ComputeNextTime,
     ClearRunning,
         EnqueueShutdown, JoinRotator, StartPreparing
<1>12. CASE UNCHANGED vars
  <2>1. UNCHANGED <<where, current_fd_, old_fd, msg, pc>>
    BY <1>12
  <2>2. \A f : UNCHANGED LinesIn(f)
    BY <2>1 DEF LinesIn
  <2> QED BY <2>1, <2>2
<1> QED BY <1>1, <1>2, <1>3, <1>4, <1>5, <1>6, <1>7, <1>8, <1>9, <1>10, <1>11, <1>12, NextCases

LEMMA QueueUsedStep == ASSUME Inv, [Next]_vars PROVE QueueUsed'
<1> USE DEF vars, fsVars, fdVars, handleVars, serviceVars, rotateLocals, prepareLocals,
             writerLocals, outsideWriter, outsideRotator, outsidePrepare, rotating,
             outsideOwner, Goto, Inv, Types, Token, Written, PcTypes, Threads, WriterLabels,
             RotatorLabels, OwnerLabels
<1>1. CASE Write
  <2>1. /\ where' = Append(where, current_fd_) /\ current_fd_ \in Nat /\ where \in Seq(Nat)
        /\ UNCHANGED queue_
    BY <1>1 DEF Write, FileTypes
  <2>2. \A g : LinesIn(g) \subseteq LinesIn(g)'
    BY <2>1, WriteFacts
  <2> QED BY <2>1, <2>2 DEF QueueUsed
<1>2. CASE NotifyRotator
  <2> DEFINE m == [type |-> "rotate", fd |-> old_fd, temp |-> next_temp_]
  <2>1. queue_' = Append(queue_, m) /\ m \in Messages /\ UNCHANGED where
    BY <1>2 DEF NotifyRotator, Messages, FileTypes
  <2>2. LinesIn(m.fd) # {}
    BY <1>2 DEF NotifyRotator, Used, Swapped
  <2> HIDE DEF m
  <2>3. /\ DOMAIN queue_' = DOMAIN queue_ \cup {Len(queue_) + 1}
        /\ queue_'[Len(queue_) + 1] = m
        /\ \A i \in DOMAIN queue_ : queue_'[i] = queue_[i]
    BY <2>1, QueueFacts DEF MessageTypes
  <2> QED BY <2>1, <2>2, <2>3 DEF QueueUsed, LinesIn
<1>3. CASE CloseHandle
  <2>1. /\ UNCHANGED where
        /\ \A i \in DOMAIN queue_' : queue_'[i].type = "rotate" =>
                 i \in DOMAIN queue_ /\ queue_'[i] = queue_[i]
    BY <1>3, CloseEffect DEF CloseHandle
  <2> QED BY <2>1 DEF QueueUsed, LinesIn
<1>4. CASE Dequeue \/ Drain
  <2>1. ~Queued'
    <3>1. Drain => DOMAIN queue_' = {}
      BY DEF Drain
    <3> QED BY <1>4, <3>1, DequeueEffect DEF Queued
  <2> QED BY <2>1 DEF QueueUsed, Queued
<1>5. CASE Open \/ RetainAtOpen \/ TrackHandle \/ TimePasses \/ CheckRotation
  <2>1. UNCHANGED <<queue_, where>>
    BY <1>5 DEF Open, RetainAtOpen, TrackHandle, TimePasses, CheckRotation, StartPreparing
  <2> QED BY <2>1 DEF QueueUsed, LinesIn
<1>6. CASE TakeNextFd \/ SwapFd \/ Unready \/ WaitForNextFd \/ CheckErrorState \/
          DestroyHandle \/ (\E t \in {"writer", "rotator"} : OpenTemp(t))
  <2>1. UNCHANGED <<queue_, where>>
    BY <1>6 DEF TakeNextFd, SwapFd, Unready, WaitForNextFd, CheckErrorState, DestroyHandle,
       OpenTemp
  <2> QED BY <2>1 DEF QueueUsed, LinesIn
<1>7. CASE (\E t \in {"writer", "rotator"} : PublishTemp(t)) \/
          (\E t \in {"writer", "rotator"} : SignalNextFd(t)) \/
          (\E t \in {"writer", "rotator"} : OpenTempFails(t)) \/
          (\E t \in {"writer", "rotator"} : GiveUpPreparing(t)) \/ CheckRunning
  <2>1. UNCHANGED <<queue_, where>>
    BY <1>7 DEF PublishTemp, SignalNextFd, OpenTempFails, GiveUpPreparing, CheckRunning,
       AfterPrepare
  <2> QED BY <2>1 DEF QueueUsed, LinesIn
<1>8. CASE HandleClose \/ CloseOld \/ LinkBase \/ LinkCollides \/ LinkFails
  <2>1. UNCHANGED <<queue_, where>>
    BY <1>8 DEF HandleClose, CloseOld, LinkBase, LinkCollides, LinkFails
  <2> QED BY <2>1 DEF QueueUsed, LinesIn
<1>9. CASE RenameBase \/ RenameTemp \/ RenameFails \/ AddToCache \/ Retain \/
          ComputeNextTime \/ ClearRunning \/ EnqueueShutdown \/ JoinRotator
  <2>1. UNCHANGED <<queue_, where>>
    BY <1>9 DEF RenameBase, RenameTemp, RenameFails, AddToCache, Retain, ComputeNextTime,
       ClearRunning,
         EnqueueShutdown, JoinRotator, StartPreparing
  <2> QED BY <2>1 DEF QueueUsed, LinesIn
<1>10. CASE UNCHANGED vars
  <2>1. UNCHANGED <<queue_, where>>
    BY <1>10
  <2> QED BY <2>1 DEF QueueUsed, LinesIn
<1> QED BY <1>1, <1>2, <1>3, <1>4, <1>5, <1>6, <1>7, <1>8, <1>9, <1>10, NextCases

LEMMA Ledger ==
    ASSUME NEW f \in Nat, NEW x \in Nat, NEW m \in Nat, NEW c \in Nat,
           NEW g \in Nat, NEW y \in Nat, NEW n \in Nat, NEW d \in Nat,
           f + x <= 2 + m + c, g + y + m + c <= f + x + n + d
    PROVE  g + y <= 2 + n + d
  OBVIOUS

(* What a step spends on files and on credit, it has to earn.                *)
LEMMA Paid ==
    ASSUME NEW f \in Nat, NEW x \in Nat, NEW m \in Nat, NEW c \in Nat,
           NEW g \in Nat, NEW y \in Nat, NEW n \in Nat, NEW d \in Nat,
           files = f, Credit = x, Len(where) = m, faults.collision = c,
           files' = g, Credit' = y, Len(where') = n, faults'.collision = d,
           g + y + m + c <= f + x + n + d, FewFiles
    PROVE  FewFiles'
<1>1. f + x <= 2 + m + c
  BY DEF FewFiles
<1>2. g + y <= 2 + n + d
  BY <1>1, Ledger
<1> QED BY <1>2 DEF FewFiles

LEMMA PaidSame ==
    ASSUME Types, FewFiles, UNCHANGED <<where, faults.collision>>,
           NEW before \in Nat, Credit = before, NEW after \in Nat, Credit' = after,
           NEW f \in Nat, NEW g \in Nat, files = f, files' = g, g + after <= f + before
    PROVE  FewFiles'
<1>1. PICK m \in Nat : m = Len(where)
  BY DEF Types, FileTypes
<1>2. PICK c \in Nat : c = faults.collision
  BY DEF Types, FaultTypes
<1>3. g + after + m + c <= f + before + m + c
  <2>1. g + after \in Nat /\ f + before \in Nat
    OBVIOUS
  <2>2. \A u, v, i, j \in Nat : u <= v => u + i + j <= v + i + j
    OBVIOUS
  <2> QED BY <2>1, <2>2, <1>1, <1>2
<1>4. Len(where') = m /\ faults'.collision = c
  BY <1>1, <1>2
<1> QED BY <1>1, <1>2, <1>3, <1>4, Paid

LEMMA CreditFacts ==
    /\ WriterCredit \in Nat /\ QueueCredit \in Nat /\ RotatorCredit \in Nat
    /\ WriterCredit' \in Nat /\ QueueCredit' \in Nat /\ RotatorCredit' \in Nat
    /\ Credit \in Nat /\ Credit' \in Nat
    /\ (Queued' => Queued) => QueueCredit' <= QueueCredit
    /\ (Rotating' => Rotating) => RotatorCredit' <= RotatorCredit
    /\ UNCHANGED Queued => QueueCredit' = QueueCredit
    /\ UNCHANGED Rotating => RotatorCredit' = RotatorCredit
<1>1. /\ WriterCredit \in Nat /\ QueueCredit \in Nat /\ RotatorCredit \in Nat
      /\ WriterCredit' \in Nat /\ QueueCredit' \in Nat /\ RotatorCredit' \in Nat
  BY DEF WriterCredit, QueueCredit, RotatorCredit
<1>2. PICK a \in Nat, b \in Nat, c \in Nat :
          a = WriterCredit /\ b = QueueCredit /\ c = RotatorCredit
  BY <1>1
<1>3. PICK d \in Nat, e \in Nat, f \in Nat :
          d = WriterCredit' /\ e = QueueCredit' /\ f = RotatorCredit'
  BY <1>1
<1>4. Credit = a + b + c /\ Credit' = d + e + f
  BY <1>2, <1>3 DEF Credit
<1>5. a + b + c \in Nat /\ d + e + f \in Nat
  OBVIOUS
<1>6. /\ (Queued' => Queued) => QueueCredit' <= QueueCredit
      /\ UNCHANGED Queued => QueueCredit' = QueueCredit
  BY DEF QueueCredit
<1>7. /\ (Rotating' => Rotating) => RotatorCredit' <= RotatorCredit
      /\ UNCHANGED Rotating => RotatorCredit' = RotatorCredit
  BY DEF RotatorCredit
<1> QED BY <1>1, <1>4, <1>5, <1>6, <1>7

LEMMA NoDearer ==
    ASSUME Types, FewFiles, WriterCredit' <= WriterCredit, Queued' => Queued, Rotating' => Rotating,
           UNCHANGED <<files, where, faults.collision>>
    PROVE  FewFiles'
<1>1. PICK a \in Nat, b \in Nat, c \in Nat :
          a = WriterCredit /\ b = QueueCredit /\ c = RotatorCredit
  BY CreditFacts
<1>2. PICK d \in Nat, e \in Nat, f \in Nat :
          d = WriterCredit' /\ e = QueueCredit' /\ f = RotatorCredit'
  BY CreditFacts
<1>3. d <= a /\ e <= b /\ f <= c
  BY <1>1, <1>2, CreditFacts
<1>4. PICK g \in Nat : g = files
  BY DEF Types, FileTypes
<1>5. a + b + c \in Nat /\ d + e + f \in Nat /\ g + (d + e + f) <= g + (a + b + c)
  BY <1>3
<1>6. a + b + c = Credit /\ d + e + f = Credit'
  BY <1>1, <1>2 DEF Credit
<1> QED BY <1>4, <1>5, <1>6, PaidSame

LEMMA FewFilesStep == ASSUME Inv, [Next]_vars PROVE FewFiles'
<1> USE DEF vars, fsVars, fdVars, handleVars, serviceVars, rotateLocals, prepareLocals,
             writerLocals, outsideWriter, outsideRotator, outsidePrepare, rotating,
             outsideOwner, Goto, Inv, Types, Token, PcTypes, Threads, WriterLabels,
             RotatorLabels, OwnerLabels
<1>1. CASE Open
  <2>1. /\ files' \in Nat /\ files' <= files + 1 /\ files \in Nat
        /\ UNCHANGED <<where, queue_, faults>> /\ pc["writer"] = "open"
        /\ pc' = [pc EXCEPT !["writer"] = "retain"]
    BY <1>1, OpenEffect DEF FileTypes
  <2>2. UNCHANGED Queued /\ UNCHANGED Rotating /\ WriterCredit = 2 /\ WriterCredit' = 1
    BY <2>1 DEF Queued, WriterCredit, Opening, Swapping,
           Swapped, Rotating, Renaming
  <2>3. PICK q \in Nat, r \in Nat, g \in Nat, f \in Nat :
          q = QueueCredit /\ r = RotatorCredit /\ g = files /\ f = files'
    BY <2>1, CreditFacts
  <2>4. Credit = 2 + q + r /\ Credit' = 1 + q + r
    BY <2>2, <2>3, CreditFacts DEF Credit
  <2>5. f <= g + 1
    BY <2>1, <2>3
  <2>6. 2 + q + r \in Nat /\ 1 + q + r \in Nat /\ f + (1 + q + r) <= g + (2 + q + r)
    BY <2>5
  <2> QED BY <2>1, <2>3, <2>4, <2>6, PaidSame
<1>2. CASE \E t \in {"writer", "rotator"} : OpenTemp(t)
  <2>1. PICK t \in {"writer", "rotator"} : OpenTemp(t)
    BY <1>2
  <2>2. /\ files' = files + 1 /\ files \in Nat
        /\ UNCHANGED <<where, queue_, faults>> /\ pc' = [pc EXCEPT ![t] = "publish"]
        /\ pc[t] = "prepare"
    BY <2>1, OpenTempEffect DEF FileTypes
  <2>3. UNCHANGED Queued
    BY <2>2 DEF Queued
  <2>4. PICK w \in Nat, q \in Nat, r \in Nat, g \in Nat :
          w = WriterCredit /\ q = QueueCredit /\ r = RotatorCredit /\ g = files
    BY <2>2, CreditFacts
  <2>5. \E a \in Nat : Credit = a + 1 /\ Credit' = a
    <3>1. CASE t = "writer"
      <4>1. WriterCredit = 1 /\ WriterCredit' = 0 /\ UNCHANGED Rotating
        BY <2>2, <3>1 DEF WriterCredit, Opening, Swapping, Swapped, Rotating, Renaming
      <4>2. Credit = 1 + q + r /\ Credit' = 0 + q + r
        BY <2>3, <2>4, <4>1, CreditFacts DEF Credit
      <4>3. q + r \in Nat /\ 1 + q + r = q + r + 1 /\ 0 + q + r = q + r
        OBVIOUS
      <4> QED BY <4>2, <4>3
    <3>2. CASE t = "rotator"
      <4>1. UNCHANGED WriterCredit /\ Rotating /\ ~Rotating'
        BY <2>2, <3>2 DEF WriterCredit, Opening, Swapping, Swapped, Rotating, Renaming
      <4>2. Credit = w + q + 1 /\ Credit' = w + q + 0
        BY <2>3, <2>4, <4>1, CreditFacts DEF Credit, RotatorCredit
      <4>3. w + q \in Nat /\ w + q + 0 = w + q
        OBVIOUS
      <4> QED BY <4>2, <4>3
    <3> QED BY <3>1, <3>2
  <2>6. PICK a \in Nat : Credit = a + 1 /\ Credit' = a
    BY <2>5
  <2>7. a + 1 \in Nat /\ g + 1 \in Nat /\ g + 1 + a <= g + (a + 1)
    OBVIOUS
  <2> QED BY <2>2, <2>4, <2>6, <2>7, PaidSame
<1>3. CASE Write
  <2>1. /\ where' = Append(where, current_fd_) /\ UNCHANGED <<files, queue_, faults>>
        /\ pc' = [pc EXCEPT !["writer"] = "written"] /\ pc["writer"] = "idle"
        /\ current_fd_ \in Nat /\ where \in Seq(Nat)
    BY <1>3 DEF Write, FileTypes
  <2>2. where' \in Seq(Nat) /\ Len(where) \in Nat /\ Len(where') = Len(where) + 1
    BY <2>1, WriteFacts
  <2>3. UNCHANGED <<Queued, Rotating>> /\ WriterCredit = 0 /\ WriterCredit' = 1
    BY <2>1 DEF Queued, WriterCredit, Opening, Swapping,
           Swapped, Rotating, Renaming
  <2>4. PICK q \in Nat, r \in Nat, f \in Nat, m \in Nat :
          q = QueueCredit /\ r = RotatorCredit /\ f = files /\ m = Len(where)
    BY <2>2, CreditFacts DEF FileTypes
  <2>5. Credit = 0 + q + r /\ Credit' = 1 + q + r
    BY <2>3, <2>4, CreditFacts DEF Credit
  <2>6. PICK c \in Nat : faults.collision = c /\ faults'.collision = c
    BY <2>1 DEF FaultTypes
  <2>7. /\ 0 + q + r \in Nat /\ 1 + q + r \in Nat /\ m + 1 \in Nat
        /\ f + (1 + q + r) + m + c <= f + (0 + q + r) + (m + 1) + c
    OBVIOUS
  <2>8. FaultTypes' /\ Len(where') = m + 1 /\ files' = f
    BY <2>1, <2>2, <2>4 DEF FaultTypes
  <2> QED BY <2>2, <2>4, <2>5, <2>6, <2>7, <2>8, Paid
<1>4. CASE NotifyRotator
  <2>1. /\ UNCHANGED <<files, where, faults>> /\ pc["writer"] = "notify"
        /\ pc' = [pc EXCEPT !["writer"] = "idle"]
    BY <1>4 DEF NotifyRotator
  <2>2. ~Queued /\ UNCHANGED Rotating /\ WriterCredit = 1 /\ WriterCredit' = 0
    BY <2>1 DEF Exclusive, WriterCredit, Opening, Swapping, Swapped, Rotating,
           Renaming
  <2>3. PICK q \in Nat, r \in Nat, f \in Nat :
          q = QueueCredit' /\ r = RotatorCredit /\ f = files
    BY CreditFacts DEF FileTypes
  <2>4. Credit = 1 + 0 + r /\ Credit' = 0 + q + r /\ q <= 1
    BY <2>2, <2>3, CreditFacts DEF Credit, QueueCredit
  <2>5. 1 + 0 + r \in Nat /\ 0 + q + r \in Nat /\ f + (0 + q + r) <= f + (1 + 0 + r)
    BY <2>4
  <2> QED BY <2>1, <2>3, <2>4, <2>5, PaidSame
<1>5. CASE Dequeue
  <2>1. /\ UNCHANGED <<files, where, faults>> /\ pc' = [pc EXCEPT !["rotator"] = Head(queue_).type]
        /\ ~Queued' /\ Head(queue_).type \in {"rotate", "close"}
        /\ (Head(queue_).type = "rotate" => Queued) /\ pc["rotator"] = "dequeue"
    BY <1>5, DequeueEffect DEF Dequeue
  <2>2. UNCHANGED WriterCredit /\ ~Rotating /\ (Rotating' => Queued)
    BY <2>1 DEF WriterCredit, Opening, Swapping, Swapped, Rotating, Renaming
  <2>3. PICK w \in Nat, q \in Nat, r \in Nat, f \in Nat :
          w = WriterCredit /\ q = QueueCredit /\ r = RotatorCredit' /\ f = files
    BY CreditFacts DEF FileTypes
  <2>4. r <= q
    BY <2>2, <2>3 DEF QueueCredit, RotatorCredit
  <2>5. Credit = w + q + 0 /\ Credit' = w + 0 + r
    BY <2>1, <2>2, <2>3 DEF Credit, QueueCredit, RotatorCredit
  <2>6. w + q + 0 \in Nat /\ w + 0 + r \in Nat /\ f + (w + 0 + r) <= f + (w + q + 0)
    BY <2>4
  <2> QED BY <2>1, <2>3, <2>5, <2>6, PaidSame
<1>6. CASE LinkCollides
  <2>1. /\ files' = files + 1 /\ UNCHANGED <<where, queue_, pc["writer"]>> /\ pc["rotator"] = "link"
        /\ pc'["rotator"] \in {"stat", "link"} /\ faults' = [faults EXCEPT !["collision"] = @ + 1]
    BY <1>6 DEF LinkCollides, Fault
  <2>2. UNCHANGED <<Queued, WriterCredit>> /\ Rotating /\ Rotating'
    BY <2>1 DEF Queued, WriterCredit, Opening, Swapping,
           Swapped, Rotating, Renaming
  <2>3. PICK a \in Nat, f \in Nat, m \in Nat, c \in Nat :
          a = Credit /\ f = files /\ m = Len(where) /\ c = faults.collision
    <3>1. Credit \in Nat /\ files \in Nat /\ Len(where) \in Nat /\ faults.collision \in Nat
      BY CreditFacts DEF FileTypes, FaultTypes
    <3> QED BY <3>1
  <2>4. Credit' = a
    BY <2>2, <2>3, CreditFacts DEF Credit
  <2>5. faults'.collision = c + 1
    BY <2>1, <2>3 DEF FaultTypes
  <2>6. /\ f + 1 \in Nat /\ c + 1 \in Nat /\ f + 1 + a + m + c <= f + a + m + (c + 1)
    OBVIOUS
  <2>7. FaultTypes' /\ where' \in Seq(Nat) /\ Len(where') = m /\ files' = f + 1
    BY <2>1, <2>3, FaultTypesStep DEF FileTypes
  <2> QED BY <2>3, <2>4, <2>5, <2>6, <2>7, Paid
<1>7. CASE CloseHandle
  <2>1. UNCHANGED <<files, where, faults>> /\ (Queued' => Queued)
    BY <1>7, CloseEffect DEF CloseHandle
  <2>2. WriterCredit' <= WriterCredit /\ (Rotating' => Rotating)
    BY <1>7 DEF CloseHandle, WriterCredit, Opening, Swapping, Swapped, Rotating, Renaming
  <2> QED BY <2>1, <2>2, NoDearer
<1>8. CASE Drain \/ CheckRunning
  <2>1. UNCHANGED <<files, where, pc["writer"]>> /\ faults'.collision = faults.collision
    BY <1>8 DEF Drain, CheckRunning
  <2>2. WriterCredit' <= WriterCredit
    BY <1>8 DEF Drain, CheckRunning, WriterCredit, Opening, Swapping, Swapped
  <2>3. Rotating' => Rotating
    BY <1>8 DEF Drain, CheckRunning, Rotating, Renaming
  <2>4. Queued' => Queued
    <3>1. queue_' = queue_ \/ DOMAIN queue_' = {}
      BY <1>8 DEF Drain, CheckRunning
    <3> QED BY <3>1 DEF Queued
  <2> QED BY <2>1, <2>2, <2>3, <2>4, NoDearer
<1>9. CASE RetainAtOpen \/ TrackHandle \/ TimePasses
  <2>1. UNCHANGED <<files, where, queue_>> /\ faults'.collision = faults.collision
    BY <1>9 DEF RetainAtOpen, TrackHandle, TimePasses, StartPreparing, Fault, FaultTypes
  <2>2. WriterCredit' <= WriterCredit
    BY <1>9 DEF RetainAtOpen, TrackHandle, TimePasses, StartPreparing, WriterCredit, Opening,
       Swapping, Swapped
  <2>3. Rotating' => Rotating
    BY <1>9 DEF RetainAtOpen, TrackHandle, TimePasses, StartPreparing, Rotating, Renaming
  <2>4. Queued' => Queued
    BY <2>1 DEF Queued
  <2> QED BY <2>1, <2>2, <2>3, <2>4, NoDearer
<1>10. CASE CheckRotation \/ TakeNextFd \/ SwapFd \/ Unready \/ WaitForNextFd \/
          CheckErrorState
  <2>1. UNCHANGED <<files, where, queue_>> /\ faults'.collision = faults.collision
    BY <1>10 DEF CheckRotation, TakeNextFd, SwapFd, Unready, WaitForNextFd, CheckErrorState
  <2>2. WriterCredit' <= WriterCredit
    BY <1>10 DEF CheckRotation, TakeNextFd, SwapFd, Unready, WaitForNextFd, CheckErrorState,
       WriterCredit, Opening, Swapping, Swapped
  <2>3. Rotating' => Rotating
    BY <1>10 DEF CheckRotation, TakeNextFd, SwapFd, Unready, WaitForNextFd, CheckErrorState,
       Rotating, Renaming
  <2>4. Queued' => Queued
    BY <2>1 DEF Queued
  <2> QED BY <2>1, <2>2, <2>3, <2>4, NoDearer
<1>11. CASE DestroyHandle \/ (\E t \in {"writer", "rotator"} : PublishTemp(t)) \/
          (\E t \in {"writer", "rotator"} : SignalNextFd(t)) \/
          (\E t \in {"writer", "rotator"} : OpenTempFails(t))
  <2>1. UNCHANGED <<files, where, queue_>> /\ faults'.collision = faults.collision
    BY <1>11 DEF DestroyHandle, PublishTemp, SignalNextFd, OpenTempFails, AfterPrepare, Fault,
       FaultTypes
  <2>2. WriterCredit' <= WriterCredit
    BY <1>11 DEF DestroyHandle, PublishTemp, SignalNextFd, OpenTempFails, AfterPrepare,
       WriterCredit, Opening, Swapping, Swapped
  <2>3. Rotating' => Rotating
    BY <1>11 DEF DestroyHandle, PublishTemp, SignalNextFd, OpenTempFails, AfterPrepare,
       Rotating, Renaming
  <2>4. Queued' => Queued
    BY <2>1 DEF Queued
  <2> QED BY <2>1, <2>2, <2>3, <2>4, NoDearer
<1>12. CASE (\E t \in {"writer", "rotator"} : GiveUpPreparing(t)) \/ HandleClose \/
          CloseOld \/ LinkBase \/ LinkFails
  <2>1. UNCHANGED <<files, where, queue_>> /\ faults'.collision = faults.collision
    BY <1>12 DEF GiveUpPreparing, HandleClose, CloseOld, LinkBase, LinkFails, Fault, FaultTypes
  <2>2. WriterCredit' <= WriterCredit
    BY <1>12 DEF GiveUpPreparing, HandleClose, CloseOld, LinkBase, LinkFails, WriterCredit,
       Opening, Swapping, Swapped
  <2>3. Rotating' => Rotating
    BY <1>12 DEF GiveUpPreparing, HandleClose, CloseOld, LinkBase, LinkFails, Rotating, Renaming
  <2>4. Queued' => Queued
    BY <2>1 DEF Queued
  <2> QED BY <2>1, <2>2, <2>3, <2>4, NoDearer
<1>13. CASE RenameBase \/ RenameTemp
  <2>1. UNCHANGED <<files, where, queue_>> /\ faults'.collision = faults.collision
    BY <1>13 DEF RenameBase, RenameTemp, Fault, FaultTypes
  <2>2. WriterCredit' <= WriterCredit
    BY <1>13 DEF RenameBase, RenameTemp, WriterCredit, Opening, Swapping, Swapped
  <2>3. Rotating' => Rotating
    BY <1>13 DEF RenameBase, RenameTemp, Rotating, Renaming
  <2>4. Queued' => Queued
    BY <2>1 DEF Queued
  <2> QED BY <2>1, <2>2, <2>3, <2>4, NoDearer
<1>14. CASE RenameFails \/ AddToCache
  <2>1. UNCHANGED <<files, where, queue_>> /\ faults'.collision = faults.collision
    BY <1>14 DEF RenameFails, AddToCache, Fault, FaultTypes
  <2>2. WriterCredit' <= WriterCredit
    BY <1>14 DEF RenameFails, AddToCache, WriterCredit, Opening, Swapping, Swapped
  <2>3. Rotating' => Rotating
    BY <1>14 DEF RenameFails, AddToCache, Rotating, Renaming
  <2>4. Queued' => Queued
    BY <2>1 DEF Queued
  <2> QED BY <2>1, <2>2, <2>3, <2>4, NoDearer
<1>15. CASE Retain \/ ComputeNextTime
  <2>1. UNCHANGED <<files, where, queue_>> /\ faults'.collision = faults.collision
    BY <1>15 DEF Retain, ComputeNextTime, StartPreparing, Fault, FaultTypes
  <2>2. WriterCredit' <= WriterCredit
    BY <1>15 DEF Retain, ComputeNextTime, StartPreparing, WriterCredit, Opening, Swapping, Swapped
  <2>3. Rotating' => Rotating
    BY <1>15 DEF Retain, ComputeNextTime, StartPreparing, Rotating, Renaming
  <2>4. Queued' => Queued
    BY <2>1 DEF Queued
  <2> QED BY <2>1, <2>2, <2>3, <2>4, NoDearer
<1>16. CASE ClearRunning \/ EnqueueShutdown \/ JoinRotator
  <2>1. UNCHANGED <<files, where, queue_>> /\ faults'.collision = faults.collision
    BY <1>16 DEF ClearRunning, EnqueueShutdown, JoinRotator, Fault, FaultTypes
  <2>2. WriterCredit' <= WriterCredit
    BY <1>16 DEF ClearRunning, EnqueueShutdown, JoinRotator, WriterCredit, Opening, Swapping,
       Swapped
  <2>3. Rotating' => Rotating
    BY <1>16 DEF ClearRunning, EnqueueShutdown, JoinRotator, Rotating, Renaming
  <2>4. Queued' => Queued
    BY <2>1 DEF Queued
  <2> QED BY <2>1, <2>2, <2>3, <2>4, NoDearer
<1>17. CASE UNCHANGED vars
  <2>1. UNCHANGED <<files, where, queue_, pc, faults>>
    BY <1>17
  <2>2. UNCHANGED <<WriterCredit, Rotating, Queued>> /\ WriterCredit \in Nat
    BY <2>1 DEF Queued, Rotating, Renaming, WriterCredit, Opening, Swapping, Swapped
  <2>3. WriterCredit' <= WriterCredit /\ faults'.collision = faults.collision
    BY <2>1, <2>2
  <2> QED BY <2>1, <2>2, <2>3, NoDearer
<1> QED BY <1>1, <1>2, <1>3, <1>4, <1>5, <1>6, <1>7, <1>8, <1>9, <1>10, <1>11, <1>12, <1>13, <1>14,
       <1>15, <1>16, <1>17, NextCases

(* Steps that leave the temporary names alone and need none they did not     *)
(* need before.                                                              *)
LEMMA TempsSame ==
    ASSUME Temps, files' = files, \A f \in 1 .. MaxFiles : dir'[Temp(f)] = dir[Temp(f)],
           pc["rotator"] = "stopped" => pc'["rotator"] = "stopped",
           \A f \in 1 .. files : Needed(f)' => Needed(f),
           files <= MaxFiles, files \in Nat, MaxFiles \in Nat
    PROVE  Temps'
<1>1. \A f \in 1 .. files : f \in 1 .. MaxFiles
  OBVIOUS
<1> QED BY <1>1 DEF Temps

(* Who needs a temporary name is told by these; nobody does while the log is *)
(* being opened.                                                             *)
LEMMA NeededSame ==
    ASSUME UNCHANGED <<next_fd_, new_fd, current_fd_>>,
           pc["writer"] = "gone" => pc'["writer"] = "gone",
           pc'["writer"] = "swap" => pc["writer"] = "swap",
           Pending' => Pending, NEW f
    PROVE  Needed(f)' => Needed(f)
  BY DEF Needed, Prepared

LEMMA TempNames ==
    ASSUME Types, FewFiles
    PROVE  /\ files \in Nat /\ files <= MaxFiles /\ MaxFiles \in Nat
           /\ \A f \in 1 .. MaxFiles : Temp(f) \in Names /\ Temp(f) # Base /\ Temp(f) \notin RotatedNames
           /\ \A f, g : Temp(f) = Temp(g) => f = g
           /\ \A r \in RotatedNames : \A f : r # Temp(f)
  BY FilesBound, NameFacts

LEMMA TempsStep == ASSUME Inv, [Next]_vars PROVE Temps'
<1> USE DEF vars, fsVars, fdVars, handleVars, serviceVars, rotateLocals, prepareLocals,
             writerLocals, outsideWriter, outsideRotator, outsidePrepare, rotating,
             outsideOwner, Goto, Inv, Types, Token, PcTypes, Threads, WriterLabels,
             RotatorLabels, OwnerLabels
<1>1. CASE Open
  <2>1. /\ pc' = [pc EXCEPT !["writer"] = "retain"] /\ pc["writer"] = "open"
        /\ UNCHANGED <<next_fd_, queue_>>
        /\ dir' = dir \/ Leads(Base, files + 1)
    BY <1>1, OpenEffect
  <2>2. \A f \in 1 .. MaxFiles : dir'[Temp(f)] = dir[Temp(f)]
    BY <2>1, TempNames DEF Leads
  <2>3. ~Prepared' /\ ~Pending' /\ pc'["writer"] # "swap"
    <3>1. next_fd_ = NoFd /\ queue_ = <<>> /\ ~Renaming
      BY <2>1 DEF Untouched, Service, Handled, Starting, Renaming
    <3> QED BY <2>1, <3>1 DEF Prepared, Pending, Swapped, Queued, Renaming
  <2>4. \A f : ~Needed(f)'
    BY <2>3 DEF Needed
  <2> QED BY <2>2, <2>4 DEF Temps
<1>2. CASE RetainAtOpen \/ Retain \/ (\E t \in {"writer", "rotator"} : OpenTempFails(t))
  <2>1. /\ \A f \in 1 .. MaxFiles : dir'[Temp(f)] = dir[Temp(f)]
        /\ UNCHANGED <<files, queue_, next_fd_, new_fd, current_fd_>>
    <3>1. \A m \in Names : m \notin RotatedNames => dir'[m] = dir[m]
      BY <1>2, ForgetEffect
    <3>2. UNCHANGED <<files, queue_, next_fd_, new_fd, current_fd_>>
      BY <1>2 DEF RetainAtOpen, Retain, OpenTempFails
    <3> QED BY <3>1, <3>2, TempNames
  <2>2. pc["writer"] = "gone" => pc'["writer"] = "gone"
    BY <1>2 DEF RetainAtOpen, Retain, OpenTempFails, StartPreparing
  <2>3. pc'["writer"] = "swap" => pc["writer"] = "swap"
    BY <1>2 DEF RetainAtOpen, Retain, OpenTempFails, StartPreparing
  <2>4. Pending' => Pending
    BY <1>2, <2>1 DEF RetainAtOpen, Retain, OpenTempFails, StartPreparing, Pending, Swapped,
       Renaming, Queued
  <2>5. pc["rotator"] = "stopped" => pc'["rotator"] = "stopped"
    BY <1>2 DEF RetainAtOpen, Retain, OpenTempFails, StartPreparing
  <2>6. \A f \in 1 .. files : Needed(f)' => Needed(f)
    BY <2>1, <2>2, <2>3, <2>4, NeededSame
  <2> QED BY <2>1, <2>5, <2>6, TempNames, TempsSame
<1>3. CASE \E t \in {"writer", "rotator"} : OpenTemp(t)
  <2>1. PICK t \in {"writer", "rotator"} : OpenTemp(t)
    BY <1>3
  <2>2. /\ files' = files + 1 /\ next_fd_' = files + 1 /\ Leads(Temp(files + 1), files + 1)
        /\ pc' = [pc EXCEPT ![t] = "publish"] /\ pc[t] = "prepare"
        /\ UNCHANGED <<queue_, new_fd, current_fd_>> /\ files + 1 <= MaxFiles /\ files \in Nat
    BY <2>1, OpenTempEffect DEF FileTypes
  <2>3. \A f \in 1 .. MaxFiles : dir'[Temp(f)] = IF f = files + 1 THEN files + 1 ELSE dir[Temp(f)]
    BY <2>2, TempNames DEF Leads
  <2>4. ASSUME NEW f, Needed(f)' PROVE f = files + 1 \/ Needed(f)
    <3>1. pc'["writer"] # "swap"
      BY <2>2 DEF Exclusive, Rotating, Swapping
    <3>2. Pending' => Pending
      BY <2>2 DEF Pending, Swapped, Queued, Renaming
    <3> QED BY <2>2, <2>4, <3>1, <3>2 DEF Needed
  <2>5. pc["rotator"] = "stopped" => pc'["rotator"] = "stopped"
    BY <2>2
  <2>6. ASSUME pc["rotator"] # "stopped", NEW f \in 1 .. files', Needed(f)' PROVE dir'[Temp(f)] = f
    <3>1. f \in 1 .. MaxFiles /\ (f # files + 1 => f \in 1 .. files)
      BY <2>2, TempNames
    <3> QED BY <2>3, <2>4, <2>6, <3>1 DEF Temps
  <2>7. \A f \in 1 .. MaxFiles : dir'[Temp(f)] \in {NoFile, f}
    BY <2>3 DEF Temps
  <2> QED BY <2>5, <2>6, <2>7 DEF Temps
<1>4. CASE TakeNextFd
  <2>1. UNCHANGED <<dir, files, current_fd_, queue_>> /\ pc["writer"] = "next"
        /\ UNCHANGED pc["rotator"] /\ pc'["writer"] \in {"swap", "wait"}
    BY <1>4 DEF TakeNextFd
  <2>2. pc'["writer"] = "swap" => new_fd' = next_fd_ /\ Prepared
    BY <1>4 DEF TakeNextFd, Prepared
  <2>3. next_fd_' \in {NoFd, next_fd_}
    BY <1>4 DEF TakeNextFd
  <2>4. Pending' => Pending
    BY <2>1 DEF Pending, Swapped, Queued, Renaming
  <2>5. ASSUME NEW f PROVE Needed(f)' => Needed(f)
    BY <2>1, <2>2, <2>3, <2>4 DEF Needed, Prepared
  <2> QED BY <2>1, <2>5, TempNames, TempsSame
<1>5. CASE SwapFd
  <2>1. UNCHANGED <<dir, files, queue_, next_fd_, new_fd>> /\ pc["writer"] = "swap"
        /\ UNCHANGED pc["rotator"] /\ pc'["writer"] = "unready" /\ current_fd_' = new_fd
    BY <1>5 DEF SwapFd
  <2>2. ASSUME NEW f PROVE Needed(f)' => Needed(f)
    BY <2>1 DEF Needed, Prepared
  <2> QED BY <2>1, <2>2, TempNames, TempsSame
<1>6. CASE DestroyHandle
  <2>1. Discards /\ UNCHANGED <<files, queue_, next_fd_, new_fd, current_fd_, next_temp_>>
        /\ pc' = [pc EXCEPT !["writer"] = "gone"] /\ (queue_ = <<>> \/ pc["owner"] = "destroyed")
        /\ msg = NoMsg
    BY <1>6 DEF DestroyHandle, Discards
  <2>2. \A f \in 1 .. MaxFiles : dir'[Temp(f)] \in {NoFile, dir[Temp(f)]}
    BY <2>1, DiscardEffect, TempNames
  <2>3. pc'["rotator"] # "stopped" => \A f : ~Needed(f)'
    <3> SUFFICES ASSUME pc'["rotator"] # "stopped" PROVE ~Pending'
      BY <2>1 DEF Needed
    <3>1. queue_ = <<>>
      BY <2>1 DEF Service, Stopping
    <3>2. ~Renaming
      BY <2>1 DEF Service, Handled, Rotating
    <3> QED BY <2>1, <3>1, <3>2 DEF Pending, Swapped, Queued, Renaming
  <2> QED BY <2>1, <2>2, <2>3 DEF Temps
<1>7. CASE JoinRotator
  <2>1. Discards \/ UNCHANGED <<closed, dir>>
    BY <1>7 DEF JoinRotator, Discards
  <2>2. \A f \in 1 .. MaxFiles : dir'[Temp(f)] \in {NoFile, dir[Temp(f)]}
    BY <2>1, DiscardEffect, TempNames
  <2>3. pc'["rotator"] = "stopped"
    BY <1>7 DEF JoinRotator
  <2> QED BY <2>2, <2>3 DEF Temps
<1>8. CASE NotifyRotator
  <2>1. UNCHANGED <<dir, files, next_fd_, new_fd, current_fd_, pc["rotator"]>>
        /\ pc["writer"] = "notify" /\ pc'["writer"] = "idle"
    BY <1>8 DEF NotifyRotator
  <2>2. Pending' => Pending
    BY <2>1 DEF Pending, Swapped
  <2>3. \A f \in 1 .. files : Needed(f)' => Needed(f)
    BY <2>1, <2>2, NeededSame
  <2> QED BY <2>1, <2>3, TempNames, TempsSame
<1>9. CASE CloseHandle
  <2>1. UNCHANGED <<dir, files, next_fd_, new_fd, current_fd_, pc["rotator"]>>
        /\ pc["writer"] = "idle" /\ pc'["writer"] = "dropped" /\ (Queued' => Queued)
    BY <1>9, CloseEffect DEF CloseHandle
  <2>2. Pending' => Pending
    BY <2>1 DEF Pending, Swapped, Renaming
  <2>3. \A f \in 1 .. files : Needed(f)' => Needed(f)
    BY <2>1, <2>2, NeededSame
  <2> QED BY <2>1, <2>3, TempNames, TempsSame
<1>10. CASE Dequeue
  <2>1. UNCHANGED <<dir, files, next_fd_, new_fd, current_fd_>>
        /\ pc["rotator"] = "dequeue" /\ pc' = [pc EXCEPT !["rotator"] = Head(queue_).type]
        /\ ~Queued' /\ Head(queue_).type \in {"rotate", "close"}
        /\ (Head(queue_).type = "rotate" => Queued)
    BY <1>10, DequeueEffect DEF Dequeue
  <2>2. Pending' => Pending
    BY <2>1 DEF Pending, Swapped, Renaming
  <2>3. \A f \in 1 .. files : Needed(f)' => Needed(f)
    BY <2>1, <2>2, NeededSame
  <2> QED BY <2>1, <2>3, TempNames, TempsSame
<1>11. CASE Drain \/ CheckRunning
  <2>1. UNCHANGED <<dir, files, next_fd_, new_fd, current_fd_, pc["writer"]>>
        /\ pc["rotator"] # "stopped" /\ pc'["rotator"] \in {"dequeue", "stopped"}
        /\ (queue_' = queue_ \/ DOMAIN queue_' = {})
    BY <1>11 DEF Drain, CheckRunning
  <2>2. Pending' => Pending
    BY <2>1 DEF Pending, Swapped, Renaming, Queued
  <2>3. \A f \in 1 .. files : Needed(f)' => Needed(f)
    BY <2>1, <2>2, NeededSame
  <2> QED BY <2>1, <2>3, TempNames, TempsSame
<1>12. CASE LinkBase \/ RenameBase
  <2>1. /\ \A f \in 1 .. MaxFiles : dir'[Temp(f)] = dir[Temp(f)]
        /\ UNCHANGED <<files, queue_, next_fd_, new_fd, current_fd_>>
    <3>1. UNCHANGED <<files, queue_, next_fd_, new_fd, current_fd_>>
      BY <1>12 DEF LinkBase, RenameBase
    <3>2. LinkBase => name' \in RotatedNames /\ Leads(name', dir[Base])
      BY LinkEffect
    <3>3. RenameBase => /\ name \in RotatedNames
                        /\ \A m \in Names : dir'[m] = IF m = name THEN dir[Base]
                                                      ELSE IF m = Base THEN NoFile ELSE dir[m]
      BY RenameEffect
    <3> QED BY <1>12, <3>1, <3>2, <3>3, TempNames DEF Leads
  <2>2. pc["writer"] = "gone" => pc'["writer"] = "gone"
    BY <1>12 DEF LinkBase, RenameBase
  <2>3. pc'["writer"] = "swap" => pc["writer"] = "swap"
    BY <1>12 DEF LinkBase, RenameBase
  <2>4. Pending' => Pending
    BY <1>12, <2>1 DEF LinkBase, RenameBase, Pending, Swapped, Renaming, Queued
  <2>5. pc["rotator"] = "stopped" => pc'["rotator"] = "stopped"
    BY <1>12 DEF LinkBase, RenameBase
  <2>6. \A f \in 1 .. files : Needed(f)' => Needed(f)
    BY <2>1, <2>2, <2>3, <2>4, NeededSame
  <2> QED BY <2>1, <2>5, <2>6, TempNames, TempsSame
<1>13. CASE LinkCollides
  <2>1. /\ files' = files + 1 /\ Leads(name', files + 1) /\ name' \in RotatedNames
        /\ UNCHANGED <<queue_, next_fd_, new_fd, current_fd_, pc["writer"]>> /\ pc["rotator"] = "link"
        /\ current_fd_ <= files /\ files \in Nat /\ current_fd_ \in Nat
    BY <1>13, LinkEffect DEF LinkCollides, FileTypes
  <2>2. \A f \in 1 .. MaxFiles : dir'[Temp(f)] = dir[Temp(f)]
    BY <2>1, TempNames DEF Leads
  <2>3. ASSUME NEW f \in 1 .. files', Needed(f)' PROVE Needed(f) /\ f \in 1 .. files
    <3>1. ~Prepared /\ ~Swapping /\ Renaming
      BY <2>1 DEF Exclusive, Rotating, Renaming
    <3>2. f = current_fd_ /\ Pending
      BY <2>1, <2>3, <3>1 DEF Needed, Prepared, Swapping, Pending
    <3> QED BY <2>1, <2>3, <3>2 DEF Needed
  <2>4. \A f \in 1 .. files : f \in 1 .. MaxFiles
    BY TempNames
  <2> QED BY <2>1, <2>2, <2>3, <2>4 DEF Temps
<1>14. CASE RenameTemp
  <2>1. /\ current_fd_ \in 1 .. files
        /\ \A m \in Names : dir'[m] = IF m = Base THEN current_fd_
                                      ELSE IF m = Temp(current_fd_) THEN NoFile ELSE dir[m]
    BY <1>14, RenameEffect
  <2>2. /\ UNCHANGED <<files, queue_, next_fd_, new_fd, current_fd_, pc["writer"]>>
        /\ pc["rotator"] = "rename" /\ pc'["rotator"] = "stat"
    BY <1>14 DEF RenameTemp
  <2>3. \A f \in 1 .. MaxFiles : dir'[Temp(f)] \in {NoFile, dir[Temp(f)]}
    BY <2>1, TempNames
  <2>4. ~Prepared /\ ~Swapping /\ ~Queued
    BY <2>2 DEF Exclusive, Rotating, Renaming
  <2>5. \A f : ~Needed(f)'
    BY <2>2, <2>4 DEF Needed, Prepared, Swapping, Swapped, Pending, Queued, Renaming
  <2> QED BY <2>2, <2>3, <2>5 DEF Temps
<1>15. CASE TrackHandle \/ Write \/ TimePasses \/ CheckRotation \/ Unready
  <2>1. UNCHANGED <<dir, files, queue_, next_fd_, new_fd, current_fd_>>
    BY <1>15 DEF TrackHandle, Write, TimePasses, CheckRotation, Unready, StartPreparing
  <2>2. pc["writer"] = "gone" => pc'["writer"] = "gone"
    BY <1>15 DEF TrackHandle, Write, TimePasses, CheckRotation, Unready, StartPreparing
  <2>3. pc'["writer"] = "swap" => pc["writer"] = "swap"
    BY <1>15 DEF TrackHandle, Write, TimePasses, CheckRotation, Unready, StartPreparing
  <2>4. Pending' => Pending
    BY <1>15, <2>1 DEF TrackHandle, Write, TimePasses, CheckRotation, Unready, StartPreparing,
       Pending, Swapped, Renaming, Queued
  <2>5. pc["rotator"] = "stopped" => pc'["rotator"] = "stopped"
    BY <1>15 DEF TrackHandle, Write, TimePasses, CheckRotation, Unready, StartPreparing
  <2>6. \A f \in 1 .. files : Needed(f)' => Needed(f)
    BY <2>1, <2>2, <2>3, <2>4, NeededSame
  <2> QED BY <2>1, <2>5, <2>6, TempNames, TempsSame
<1>16. CASE WaitForNextFd \/ CheckErrorState \/
          (\E t \in {"writer", "rotator"} : PublishTemp(t))
  <2>1. UNCHANGED <<dir, files, queue_, next_fd_, new_fd, current_fd_>>
    BY <1>16 DEF WaitForNextFd, CheckErrorState, PublishTemp
  <2>2. pc["writer"] = "gone" => pc'["writer"] = "gone"
    BY <1>16 DEF WaitForNextFd, CheckErrorState, PublishTemp
  <2>3. pc'["writer"] = "swap" => pc["writer"] = "swap"
    BY <1>16 DEF WaitForNextFd, CheckErrorState, PublishTemp
  <2>4. Pending' => Pending
    BY <1>16, <2>1 DEF WaitForNextFd, CheckErrorState, PublishTemp, Pending, Swapped, Renaming,
       Queued
  <2>5. pc["rotator"] = "stopped" => pc'["rotator"] = "stopped"
    BY <1>16 DEF WaitForNextFd, CheckErrorState, PublishTemp
  <2>6. \A f \in 1 .. files : Needed(f)' => Needed(f)
    BY <2>1, <2>2, <2>3, <2>4, NeededSame
  <2> QED BY <2>1, <2>5, <2>6, TempNames, TempsSame
<1>17. CASE (\E t \in {"writer", "rotator"} : SignalNextFd(t)) \/
          (\E t \in {"writer", "rotator"} : GiveUpPreparing(t)) \/ HandleClose
  <2>1. UNCHANGED <<dir, files, queue_, next_fd_, new_fd, current_fd_>>
    BY <1>17 DEF SignalNextFd, GiveUpPreparing, HandleClose, AfterPrepare
  <2>2. pc["writer"] = "gone" => pc'["writer"] = "gone"
    BY <1>17 DEF SignalNextFd, GiveUpPreparing, HandleClose, AfterPrepare
  <2>3. pc'["writer"] = "swap" => pc["writer"] = "swap"
    BY <1>17 DEF SignalNextFd, GiveUpPreparing, HandleClose, AfterPrepare
  <2>4. Pending' => Pending
    BY <1>17, <2>1 DEF SignalNextFd, GiveUpPreparing, HandleClose, AfterPrepare, Pending,
       Swapped, Renaming, Queued
  <2>5. pc["rotator"] = "stopped" => pc'["rotator"] = "stopped"
    BY <1>17 DEF SignalNextFd, GiveUpPreparing, HandleClose, AfterPrepare
  <2>6. \A f \in 1 .. files : Needed(f)' => Needed(f)
    BY <2>1, <2>2, <2>3, <2>4, NeededSame
  <2> QED BY <2>1, <2>5, <2>6, TempNames, TempsSame
<1>18. CASE CloseOld \/ LinkFails \/ RenameFails \/ AddToCache \/ ComputeNextTime \/
          ClearRunning \/ EnqueueShutdown
  <2>1. UNCHANGED <<dir, files, queue_, next_fd_, new_fd, current_fd_>>
    BY <1>18 DEF CloseOld, LinkFails, RenameFails, AddToCache, ComputeNextTime, ClearRunning,
         EnqueueShutdown, StartPreparing
  <2>2. pc["writer"] = "gone" => pc'["writer"] = "gone"
    BY <1>18 DEF CloseOld, LinkFails, RenameFails, AddToCache, ComputeNextTime, ClearRunning,
         EnqueueShutdown, StartPreparing
  <2>3. pc'["writer"] = "swap" => pc["writer"] = "swap"
    BY <1>18 DEF CloseOld, LinkFails, RenameFails, AddToCache, ComputeNextTime, ClearRunning,
         EnqueueShutdown, StartPreparing
  <2>4. Pending' => Pending
    BY <1>18, <2>1 DEF CloseOld, LinkFails, RenameFails, AddToCache, ComputeNextTime,
       ClearRunning,
         EnqueueShutdown, StartPreparing, Pending, Swapped, Renaming, Queued
  <2>5. pc["rotator"] = "stopped" => pc'["rotator"] = "stopped"
    BY <1>18 DEF CloseOld, LinkFails, RenameFails, AddToCache, ComputeNextTime, ClearRunning,
         EnqueueShutdown, StartPreparing
  <2>6. \A f \in 1 .. files : Needed(f)' => Needed(f)
    BY <2>1, <2>2, <2>3, <2>4, NeededSame
  <2> QED BY <2>1, <2>5, <2>6, TempNames, TempsSame
<1>19. CASE UNCHANGED vars
  <2>1. UNCHANGED <<dir, files, queue_, next_fd_, new_fd, current_fd_, pc>>
    BY <1>19
  <2>2. Pending' => Pending
    BY <2>1 DEF Pending, Swapped, Renaming, Queued
  <2>3. \A f \in 1 .. files : Needed(f)' => Needed(f)
    BY <2>1, <2>2, NeededSame
  <2> QED BY <2>1, <2>3, TempNames, TempsSame
<1> QED BY <1>1, <1>2, <1>3, <1>4, <1>5, <1>6, <1>7, <1>8, <1>9, <1>10, <1>11, <1>12, <1>13, <1>14,
       <1>15, <1>16, <1>17, <1>18, <1>19, NextCases

LEMMA BaseNamedStep == ASSUME Inv, [Next]_vars PROVE BaseNamed'
<1> USE DEF vars, fsVars, fdVars, handleVars, serviceVars, rotateLocals, prepareLocals,
             writerLocals, outsideWriter, outsideRotator, outsidePrepare, rotating,
             outsideOwner, Goto, Inv, Types, Token, PcTypes, Threads, WriterLabels,
             RotatorLabels, OwnerLabels
<1>1. CASE Open
  <2>1. /\ pc' = [pc EXCEPT !["writer"] = "retain"] /\ pc["writer"] = "open"
        /\ (Exists(Base) /\ dir' = dir) \/ Leads(Base, files + 1)
        /\ files \in Nat /\ Base \in Names /\ Base # NoName
    BY <1>1, OpenEffect, NameFacts DEF FileTypes, Base, NoName
  <2>2. dir'[Base] # NoFile
    BY <2>1 DEF Leads, Exists, NoFile
  <2>3. pc'["rotator"] # "fallback"
    BY <2>1 DEF Service, Handled, Starting
  <2> QED BY <2>1, <2>2, <2>3 DEF BaseNamed, Exists
<1>2. CASE RetainAtOpen \/ Retain \/ (\E t \in {"writer", "rotator"} : OpenTempFails(t))
  <2>1. dir'[Base] = dir[Base]
    BY <1>2, ForgetEffect, NameFacts
  <2>2. /\ pc["writer"] = "open" => pc'["writer"] = "open"
        /\ pc'["rotator"] = "fallback" => pc["rotator"] = "fallback"
        /\ faults'["link"] = faults["link"]
    BY <1>2 DEF RetainAtOpen, Retain, OpenTempFails, StartPreparing, Fault, FaultTypes
  <2> QED BY <2>1, <2>2 DEF BaseNamed, Exists
<1>3. CASE \E t \in {"writer", "rotator"} : OpenTemp(t)
  <2>1. PICK t \in {"writer", "rotator"} : OpenTemp(t)
    BY <1>3
  <2>2. /\ Leads(Temp(files + 1), files + 1) /\ UNCHANGED faults
        /\ pc' = [pc EXCEPT ![t] = "publish"] /\ pc[t] = "prepare"
    BY <2>1, OpenTempEffect
  <2>3. dir'[Base] = dir[Base]
    BY <2>2, NameFacts DEF Leads, Temp, Base
  <2>4. /\ pc["writer"] = "open" => pc'["writer"] = "open"
        /\ pc'["rotator"] = "fallback" => pc["rotator"] = "fallback"
    BY <2>2
  <2> QED BY <2>2, <2>3, <2>4 DEF BaseNamed, Exists
<1>4. CASE DestroyHandle \/ JoinRotator
  <2>1. Discards \/ UNCHANGED <<closed, dir>>
    BY <1>4 DEF DestroyHandle, JoinRotator, Discards
  <2>2. dir'[Base] = dir[Base]
    BY <2>1, DiscardEffect, NameFacts DEF Base, Temp
  <2>3. /\ pc["writer"] = "open" => pc'["writer"] = "open"
        /\ pc'["rotator"] = "fallback" => pc["rotator"] = "fallback"
        /\ UNCHANGED faults
    BY <1>4 DEF DestroyHandle, JoinRotator
  <2> QED BY <2>2, <2>3 DEF BaseNamed, Exists
<1>5. CASE Dequeue
  <2>1. UNCHANGED <<dir, faults>> /\ pc' = [pc EXCEPT !["rotator"] = Head(queue_).type]
        /\ Head(queue_).type \in {"rotate", "close"}
    BY <1>5, DequeueEffect DEF Dequeue
  <2> QED BY <2>1 DEF BaseNamed, Exists
<1>6. CASE LinkBase
  <2>1. Leads(name', dir[Base]) /\ name' # Base /\ Base \in Names
    BY <1>6, LinkEffect, NameFacts
  <2>2. UNCHANGED <<faults, pc["writer"]>> /\ pc'["rotator"] = "rename"
    BY <1>6 DEF LinkBase
  <2> QED BY <2>1, <2>2 DEF BaseNamed, Exists, Leads
<1>7. CASE LinkCollides
  <2>1. Leads(name', files + 1) /\ name' # Base /\ Base \in Names
    BY <1>7, LinkEffect, NameFacts
  <2>2. UNCHANGED pc["writer"] /\ pc'["rotator"] # "fallback" /\ faults'["link"] = faults["link"]
    BY <1>7 DEF LinkCollides, Fault, FaultTypes
  <2> QED BY <2>1, <2>2 DEF BaseNamed, Exists, Leads
<1>8. CASE LinkFails
  <2>1. UNCHANGED <<dir, pc["writer"]>>
    BY <1>8 DEF LinkFails
  <2>2. CASE Exists(Base)
    <3>1. faults'["link"] # 0
      BY <1>8, <2>2 DEF LinkFails, Fault, FaultTypes
    <3> QED BY <3>1 DEF BaseNamed
  <2>3. CASE ~Exists(Base)
    <3>1. UNCHANGED faults /\ pc["writer"] # "open"
      BY <1>8, <2>3 DEF LinkFails, Service, Handled, Starting
    <3> QED BY <2>1, <2>3, <3>1 DEF BaseNamed
  <2> QED BY <2>2, <2>3
<1>9. CASE RenameBase
  <2>1. faults["link"] # 0 /\ UNCHANGED faults
    BY <1>9 DEF RenameBase, BaseNamed, Service, Handled, Starting
  <2> QED BY <2>1 DEF BaseNamed
<1>10. CASE RenameTemp
  <2>1. dir'[Base] # NoFile /\ Base # NoName
    BY <1>10, RenameEffect, NameFacts DEF NoFile, Base, NoName
  <2>2. pc'["rotator"] = "stat"
    BY <1>10 DEF RenameTemp
  <2> QED BY <2>1, <2>2 DEF BaseNamed, Exists
<1>11. CASE TrackHandle \/ Write \/ TimePasses \/ CheckRotation \/ TakeNextFd
  <2>1. /\ UNCHANGED dir /\ (pc["writer"] = "open" => pc'["writer"] = "open")
        /\ pc'["rotator"] = "fallback" => pc["rotator"] = "fallback"
        /\ faults'["link"] = faults["link"]
    BY <1>11 DEF TrackHandle, Write, TimePasses, CheckRotation, TakeNextFd, Fault, FaultTypes
  <2> QED BY <2>1 DEF BaseNamed, Exists
<1>12. CASE SwapFd \/ Unready \/ NotifyRotator \/ WaitForNextFd \/ CheckErrorState \/
          CloseHandle
  <2>1. /\ UNCHANGED dir /\ (pc["writer"] = "open" => pc'["writer"] = "open")
        /\ pc'["rotator"] = "fallback" => pc["rotator"] = "fallback"
        /\ faults'["link"] = faults["link"]
    BY <1>12 DEF SwapFd, Unready, NotifyRotator, WaitForNextFd, CheckErrorState, CloseHandle
  <2> QED BY <2>1 DEF BaseNamed, Exists
<1>13. CASE (\E t \in {"writer", "rotator"} : PublishTemp(t)) \/
          (\E t \in {"writer", "rotator"} : SignalNextFd(t)) \/
          (\E t \in {"writer", "rotator"} : GiveUpPreparing(t))
  <2>1. /\ UNCHANGED dir /\ (pc["writer"] = "open" => pc'["writer"] = "open")
        /\ pc'["rotator"] = "fallback" => pc["rotator"] = "fallback"
        /\ faults'["link"] = faults["link"]
    BY <1>13 DEF PublishTemp, SignalNextFd, GiveUpPreparing, AfterPrepare
  <2> QED BY <2>1 DEF BaseNamed, Exists
<1>14. CASE CheckRunning \/ Drain \/ HandleClose \/ CloseOld \/ RenameFails \/ AddToCache \/
          ComputeNextTime \/ ClearRunning \/ EnqueueShutdown
  <2>1. /\ UNCHANGED dir /\ (pc["writer"] = "open" => pc'["writer"] = "open")
        /\ pc'["rotator"] = "fallback" => pc["rotator"] = "fallback"
        /\ faults'["link"] = faults["link"]
    BY <1>14 DEF CheckRunning, Drain, HandleClose, CloseOld, RenameFails, AddToCache,
       ComputeNextTime,
         ClearRunning, EnqueueShutdown, StartPreparing, Fault, FaultTypes
  <2> QED BY <2>1 DEF BaseNamed, Exists
<1>15. CASE UNCHANGED vars
  <2>1. UNCHANGED <<dir, pc, faults>>
    BY <1>15
  <2> QED BY <2>1 DEF BaseNamed, Exists
<1> QED BY <1>1, <1>2, <1>3, <1>4, <1>5, <1>6, <1>7, <1>8, <1>9, <1>10, <1>11, <1>12, <1>13, <1>14,
       <1>15, NextCases

LEMMA UntouchedStep == ASSUME Inv, [Next]_vars PROVE Untouched'
<1> USE DEF vars, fsVars, fdVars, handleVars, serviceVars, rotateLocals, prepareLocals,
             writerLocals, outsideWriter, outsideRotator, outsidePrepare, rotating,
             outsideOwner, Goto, Inv, Types, Token, PcTypes, Threads, WriterLabels,
             RotatorLabels, OwnerLabels
<1>1. CASE Open \/ RetainAtOpen \/ TrackHandle \/ Write \/ CheckRotation \/ TakeNextFd \/
          SwapFd
  <2>1. pc'["writer"] # "open"
    BY <1>1 DEF Open, RetainAtOpen, TrackHandle, Write, CheckRotation, TakeNextFd, SwapFd,
       StartPreparing
  <2> QED BY <2>1 DEF Untouched
<1>2. CASE Unready \/ NotifyRotator \/ WaitForNextFd \/ CheckErrorState \/ CloseHandle \/
          DestroyHandle
  <2>1. pc'["writer"] # "open"
    BY <1>2 DEF Unready, NotifyRotator, WaitForNextFd, CheckErrorState, CloseHandle, DestroyHandle
  <2> QED BY <2>1 DEF Untouched
<1>3. CASE TimePasses
  <2>1. UNCHANGED pc /\ pc["writer"] # "open"
    BY <1>3 DEF TimePasses
  <2> QED BY <2>1 DEF Untouched
<1>4. CASE (\E t \in {"writer", "rotator"} : OpenTemp(t)) \/
          (\E t \in {"writer", "rotator"} : PublishTemp(t)) \/
          (\E t \in {"writer", "rotator"} : SignalNextFd(t)) \/
          (\E t \in {"writer", "rotator"} : OpenTempFails(t)) \/
          (\E t \in {"writer", "rotator"} : GiveUpPreparing(t))
  <2>1. PICK t \in {"writer", "rotator"} :
          OpenTemp(t) \/ PublishTemp(t) \/ SignalNextFd(t) \/ OpenTempFails(t) \/ GiveUpPreparing(t)
    BY <1>4
  <2>2. pc[t] \in {"prepare", "publish", "signal"}
    BY <2>1 DEF OpenTemp, PublishTemp, SignalNextFd, OpenTempFails, GiveUpPreparing
  <2>3. pc["writer"] # "open"
    BY <2>2 DEF Service, Handled, Starting
  <2>4. pc'["writer"] # "open"
    BY <2>1, <2>3 DEF OpenTemp, PublishTemp, SignalNextFd, OpenTempFails, GiveUpPreparing,
       AfterPrepare
  <2> QED BY <2>4 DEF Untouched
<1>5. CASE HandleClose \/ CloseOld \/ LinkBase \/ LinkCollides \/ LinkFails \/ RenameBase \/
          RenameTemp \/ RenameFails \/ AddToCache \/ Retain \/ ComputeNextTime
  <2>1. pc["writer"] # "open" /\ UNCHANGED pc["writer"]
    BY <1>5 DEF HandleClose, CloseOld, LinkBase, LinkCollides, LinkFails, RenameBase, RenameTemp,
         RenameFails, AddToCache, Retain, ComputeNextTime, StartPreparing, Service, Handled,
         Starting
  <2> QED BY <2>1 DEF Untouched
<1>6. CASE CheckRunning \/ Dequeue \/ ClearRunning \/ EnqueueShutdown
  <2>1. UNCHANGED <<files, dir, where, closed, current_fd_, next_fd_, new_fd, next_fd_ready_, cache,
                    pc["writer"]>>
    BY <1>6 DEF CheckRunning, Dequeue, ClearRunning, EnqueueShutdown
  <2> QED BY <2>1 DEF Untouched
<1>7. CASE Drain
  <2> SUFFICES ASSUME pc["writer"] = "open" PROVE Untouched'
    <3>1. UNCHANGED pc["writer"]
      BY <1>7 DEF Drain
    <3> QED BY <3>1 DEF Untouched
  <2>1. queue_ = <<>>
    BY DEF Service, Handled, Starting
  <2>2. closed' = closed
    BY <1>7, <2>1 DEF Drain
  <2>3. UNCHANGED <<files, dir, where, current_fd_, next_fd_, new_fd, next_fd_ready_, cache,
                    pc["writer"]>>
    BY <1>7 DEF Drain
  <2> QED BY <2>2, <2>3 DEF Untouched
<1>8. CASE JoinRotator
  <2> SUFFICES ASSUME pc["writer"] = "open" PROVE Untouched'
    <3>1. UNCHANGED pc["writer"]
      BY <1>8 DEF JoinRotator
    <3> QED BY <3>1 DEF Untouched
  <2>1. next_fd_ = NoFd
    BY DEF Untouched
  <2>2. UNCHANGED <<files, dir, where, closed, current_fd_, next_fd_, new_fd, next_fd_ready_, cache,
                    pc["writer"]>>
    BY <1>8, <2>1 DEF JoinRotator
  <2> QED BY <2>2 DEF Untouched
<1>9. CASE UNCHANGED vars
  <2>1. UNCHANGED <<files, dir, where, closed, current_fd_, next_fd_, new_fd, next_fd_ready_, cache,
                    pc>>
    BY <1>9
  <2> QED BY <2>1 DEF Untouched
<1> QED BY <1>1, <1>2, <1>3, <1>4, <1>5, <1>6, <1>7, <1>8, <1>9, NextCases

LEMMA KeptStep == ASSUME Inv, [Next]_vars PROVE Kept'
<1> USE DEF vars, fsVars, fdVars, handleVars, serviceVars, rotateLocals, prepareLocals,
             writerLocals, outsideWriter, outsideRotator, outsidePrepare, rotating,
             outsideOwner, Goto, Inv, Types, Token, PcTypes, Threads, WriterLabels,
             RotatorLabels, OwnerLabels, Opened
<1>1. CASE Open
  <2>1. ~Opened'
    BY <1>1 DEF Open
  <2> QED BY <2>1 DEF Kept
<1>2. CASE RetainAtOpen \/ Retain
  <2>1. KeepFiles > 0 => Len(cache') <= KeepFiles
    BY <1>2, ForgetEffect
  <2> QED BY <2>1 DEF Kept
<1>3. CASE \E t \in {"writer", "rotator"} : OpenTempFails(t)
  <2>1. UNCHANGED pc /\ Len(cache') <= Len(cache) /\ cache' \in Seq(Entries) /\ cache \in Seq(Entries)
    BY <1>3, ForgetEffect DEF OpenTempFails, NameTypes
  <2>2. KeepFiles \in Nat /\ Len(cache) \in Nat /\ Len(cache') \in Nat
    BY <2>1, Constants
  <2> QED BY <2>1, <2>2 DEF Kept
<1>4. CASE AddToCache
  <2>1. pc'["rotator"] = "retain"
    BY <1>4 DEF AddToCache
  <2> QED BY <2>1 DEF Kept
<1>5. CASE Dequeue
  <2>1. UNCHANGED cache /\ pc' = [pc EXCEPT !["rotator"] = Head(queue_).type] /\ pc["rotator"] = "dequeue"
    BY <1>5, DequeueEffect DEF Dequeue
  <2> QED BY <2>1 DEF Kept
<1>6. CASE \E t \in {"writer", "rotator"} : OpenTemp(t)
  <2>1. PICK t \in {"writer", "rotator"} : OpenTemp(t)
    BY <1>6
  <2>2. UNCHANGED cache /\ pc' = [pc EXCEPT ![t] = "publish"] /\ pc[t] = "prepare"
    BY <2>1, OpenTempEffect
  <2>3. (Opened' => Opened) /\ (pc["rotator"] = pc'["rotator"] \/ pc["rotator"] # "retain")
    BY <2>2
  <2> QED BY <2>2, <2>3 DEF Kept
<1>7. CASE TrackHandle \/ Write \/ TimePasses \/ CheckRotation \/ TakeNextFd \/ SwapFd
  <2>1. UNCHANGED cache /\ (Opened' => Opened)
        /\ (pc["rotator"] = "retain" => pc'["rotator"] = "retain")
    BY <1>7 DEF TrackHandle, Write, TimePasses, CheckRotation, TakeNextFd, SwapFd
  <2> QED BY <2>1 DEF Kept
<1>8. CASE Unready \/ NotifyRotator \/ WaitForNextFd \/ CheckErrorState \/ CloseHandle \/
          DestroyHandle
  <2>1. UNCHANGED cache /\ (Opened' => Opened)
        /\ (pc["rotator"] = "retain" => pc'["rotator"] = "retain")
    BY <1>8 DEF Unready, NotifyRotator, WaitForNextFd, CheckErrorState, CloseHandle, DestroyHandle
  <2> QED BY <2>1 DEF Kept
<1>9. CASE (\E t \in {"writer", "rotator"} : PublishTemp(t)) \/
          (\E t \in {"writer", "rotator"} : SignalNextFd(t)) \/
          (\E t \in {"writer", "rotator"} : GiveUpPreparing(t))
  <2>1. UNCHANGED cache /\ (Opened' => Opened)
        /\ (pc["rotator"] = "retain" => pc'["rotator"] = "retain")
    BY <1>9 DEF PublishTemp, SignalNextFd, GiveUpPreparing, AfterPrepare
  <2> QED BY <2>1 DEF Kept
<1>10. CASE CheckRunning \/ Drain \/ HandleClose \/ CloseOld \/ LinkBase \/ LinkCollides \/
          LinkFails
  <2>1. UNCHANGED cache /\ (Opened' => Opened)
        /\ (pc["rotator"] = "retain" => pc'["rotator"] = "retain")
    BY <1>10 DEF CheckRunning, Drain, HandleClose, CloseOld, LinkBase, LinkCollides, LinkFails
  <2> QED BY <2>1 DEF Kept
<1>11. CASE RenameBase \/ RenameTemp \/ RenameFails \/ ComputeNextTime \/ ClearRunning \/
          EnqueueShutdown \/ JoinRotator
  <2>1. UNCHANGED cache /\ (Opened' => Opened)
        /\ (pc["rotator"] = "retain" => pc'["rotator"] = "retain")
    BY <1>11 DEF RenameBase, RenameTemp, RenameFails, ComputeNextTime, ClearRunning,
       EnqueueShutdown,
         JoinRotator, StartPreparing
  <2> QED BY <2>1 DEF Kept
<1>12. CASE UNCHANGED vars
  <2>1. UNCHANGED <<cache, pc>>
    BY <1>12
  <2> QED BY <2>1 DEF Kept
<1> QED BY <1>1, <1>2, <1>3, <1>4, <1>5, <1>6, <1>7, <1>8, <1>9, <1>10, <1>11, <1>12, NextCases

(* Which names a step changes.                                               *)
LEMMA TempDir == ASSUME Inv, [Next]_vars, UNCHANGED next_fd_
           PROVE \A f \in 1 .. MaxFiles : dir'[Temp(f)] \in {NoFile, dir[Temp(f)]}
<1> USE DEF vars, fsVars, fdVars, handleVars, serviceVars, rotateLocals, prepareLocals,
             writerLocals, outsideWriter, outsideRotator, outsidePrepare, rotating,
             outsideOwner, Goto, Inv, Types
<1>1. CASE Open
  <2>1. dir' = dir \/ Leads(Base, files + 1)
    BY <1>1, OpenEffect
  <2> QED BY <2>1, TempNames DEF Leads
<1>2. CASE \E t \in {"writer", "rotator"} : OpenTemp(t)
  <2>1. next_fd_ = NoFd /\ next_fd_' = files + 1 /\ files \in Nat
    BY <1>2, OpenTempEffect DEF FileTypes
  <2> QED BY <2>1 DEF NoFd
<1>3. CASE RetainAtOpen \/ Retain \/ (\E t \in {"writer", "rotator"} : OpenTempFails(t))
  <2>1. \A m \in Names : m \notin RotatedNames => dir'[m] = dir[m]
    BY <1>3, ForgetEffect
  <2> QED BY <2>1, TempNames
<1>4. CASE DestroyHandle \/ JoinRotator
  <2>1. Discards \/ UNCHANGED <<closed, dir>>
    BY <1>4 DEF DestroyHandle, JoinRotator, Discards
  <2> QED BY <2>1, DiscardEffect, TempNames
<1>5. CASE LinkBase \/ LinkCollides
  <2>1. name' \in RotatedNames /\ (Leads(name', dir[Base]) \/ Leads(name', files + 1))
    BY <1>5, LinkEffect
  <2> QED BY <2>1, TempNames DEF Leads
<1>6. CASE RenameBase
  BY <1>6, RenameEffect, TempNames
<1>7. CASE RenameTemp
  BY <1>7, RenameEffect, TempNames
<1>8. CASE TrackHandle \/ Write \/ TimePasses \/ CheckRotation \/ TakeNextFd \/ SwapFd \/
          Unready \/ NotifyRotator \/ WaitForNextFd \/ CheckErrorState
  <2>1. UNCHANGED dir
    BY <1>8 DEF TrackHandle, Write, TimePasses, CheckRotation, TakeNextFd, SwapFd, Unready,
       NotifyRotator,
         WaitForNextFd, CheckErrorState
  <2> QED BY <2>1
<1>9. CASE CloseHandle \/ (\E t \in {"writer", "rotator"} : PublishTemp(t)) \/
          (\E t \in {"writer", "rotator"} : SignalNextFd(t)) \/
          (\E t \in {"writer", "rotator"} : GiveUpPreparing(t)) \/ CheckRunning \/
          Dequeue \/ Drain \/ HandleClose \/ CloseOld \/ LinkFails \/ RenameFails \/
          AddToCache \/ ComputeNextTime \/ ClearRunning \/ EnqueueShutdown
  <2>1. UNCHANGED dir
    BY <1>9 DEF CloseHandle, PublishTemp, SignalNextFd, GiveUpPreparing, CheckRunning, Dequeue,
       Drain,
         HandleClose, CloseOld, LinkFails, RenameFails, AddToCache, ComputeNextTime,
         ClearRunning, EnqueueShutdown
  <2> QED BY <2>1
<1>10. CASE UNCHANGED vars
  <2>1. UNCHANGED dir
    BY <1>10
  <2> QED BY <2>1
<1> QED BY <1>1, <1>2, <1>3, <1>4, <1>5, <1>6, <1>7, <1>8, <1>9, <1>10, NextCases

(* Most steps leave the log's name, the rotated names, the cache and the     *)
(* lines alone.                                                             *)
Unmoved == /\ UNCHANGED <<cache, where>> /\ dir'[Base] = dir[Base]
           /\ \A r \in RotatedNames : dir'[r] = dir[r]

LEMMA UnmovedSteps ==
    ASSUME Inv, TrackHandle \/ TimePasses \/ CheckRotation \/ TakeNextFd \/ SwapFd \/
           Unready \/ NotifyRotator \/ WaitForNextFd \/ CheckErrorState \/ CloseHandle \/
           DestroyHandle \/ (\E t \in {"writer", "rotator"} : OpenTemp(t)) \/
           (\E t \in {"writer", "rotator"} : PublishTemp(t)) \/
           (\E t \in {"writer", "rotator"} : SignalNextFd(t)) \/
           (\E t \in {"writer", "rotator"} : GiveUpPreparing(t)) \/ CheckRunning \/
           Dequeue \/ Drain \/ HandleClose \/ CloseOld \/ LinkFails \/ RenameFails \/
           ComputeNextTime \/ ClearRunning \/ EnqueueShutdown \/ JoinRotator \/
           UNCHANGED vars
    PROVE  Unmoved
<1> USE DEF vars, fsVars, fdVars, handleVars, serviceVars, rotateLocals, prepareLocals,
             writerLocals, outsideWriter, outsideRotator, outsidePrepare, rotating,
             outsideOwner, Goto, Inv, Types
<1>1. CASE \E t \in {"writer", "rotator"} : OpenTemp(t)
  <2>1. PICK t \in {"writer", "rotator"} : OpenTemp(t)
    BY <1>1
  <2>2. Leads(Temp(files + 1), files + 1) /\ files + 1 <= MaxFiles /\ UNCHANGED <<cache, where>>
    BY <2>1, OpenTempEffect DEF OpenTemp
  <2> QED BY <2>2, NameFacts DEF Leads, Temp, Base, Unmoved
<1>2. CASE DestroyHandle \/ JoinRotator
  <2>1. (Discards \/ UNCHANGED <<closed, dir>>) /\ UNCHANGED <<cache, where>>
    BY <1>2 DEF DestroyHandle, JoinRotator, Discards
  <2> QED BY <2>1, DiscardEffect, NameFacts DEF Temp, Base, Unmoved
<1>3. CASE TrackHandle \/ TimePasses \/ CheckRotation \/ TakeNextFd \/ SwapFd \/ Unready \/
          NotifyRotator \/ WaitForNextFd \/ UNCHANGED vars
  <2>1. UNCHANGED <<dir, cache, where>>
    BY <1>3 DEF TrackHandle, TimePasses, CheckRotation, TakeNextFd, SwapFd, Unready,
       NotifyRotator, WaitForNextFd
  <2> QED BY <2>1 DEF Unmoved
<1>4. CASE CheckErrorState \/ CloseHandle \/
          (\E t \in {"writer", "rotator"} : PublishTemp(t)) \/
          (\E t \in {"writer", "rotator"} : SignalNextFd(t)) \/
          (\E t \in {"writer", "rotator"} : GiveUpPreparing(t)) \/ CheckRunning \/
          UNCHANGED vars
  <2>1. UNCHANGED <<dir, cache, where>>
    BY <1>4 DEF CheckErrorState, CloseHandle, PublishTemp, SignalNextFd, GiveUpPreparing,
       CheckRunning
  <2> QED BY <2>1 DEF Unmoved
<1>5. CASE Dequeue \/ Drain \/ HandleClose \/ CloseOld \/ LinkFails \/ RenameFails \/
          ComputeNextTime \/ ClearRunning \/ EnqueueShutdown \/ UNCHANGED vars
  <2>1. UNCHANGED <<dir, cache, where>>
    BY <1>5 DEF Dequeue, Drain, HandleClose, CloseOld, LinkFails, RenameFails,
       ComputeNextTime, ClearRunning, EnqueueShutdown
  <2> QED BY <2>1 DEF Unmoved
<1> QED BY <1>1, <1>2, <1>3, <1>4, <1>5

(* What a step does not do when things stay as they should be.               *)
LEMMA Living ==
    ASSUME Inv, [Next]_vars, Alive'
    PROVE  /\ Alive /\ ~Drain /\ ~JoinRotator /\ ~RenameFails /\ (LinkFails => Exists(Base))
           /\ pc["owner"] # "destroyed"
           /\ TempsGone /\ BaseLeads /\ NotInUse /\ Listed /\ Older /\ InOrder /\ AllListed
<1> USE DEF vars, fsVars, fdVars, handleVars, serviceVars, rotateLocals, prepareLocals,
           writerLocals, outsideWriter, outsideRotator, outsidePrepare, rotating,
           outsideOwner, Goto, Inv, Types, PcTypes, Threads, WriterLabels, RotatorLabels,
           OwnerLabels, Alive
<1>1. pc["rotator"] = "stopped" => pc'["rotator"] = "stopped"
  <2> SUFFICES ASSUME pc["rotator"] = "stopped" PROVE pc'["rotator"] = "stopped"
    OBVIOUS
  <2>1. CASE Open \/ RetainAtOpen \/ TrackHandle \/ Write \/ TimePasses \/ CheckRotation
    BY <2>1 DEF Open, RetainAtOpen, TrackHandle, Write, TimePasses, CheckRotation,
       StartPreparing
  <2>2. CASE TakeNextFd \/ SwapFd \/ Unready \/ NotifyRotator \/ WaitForNextFd \/
            CheckErrorState \/ CloseHandle \/ DestroyHandle
    BY <2>2 DEF TakeNextFd, SwapFd, Unready, NotifyRotator, WaitForNextFd, CheckErrorState,
       CloseHandle, DestroyHandle
  <2>3. CASE (\E t \in {"writer", "rotator"} : OpenTemp(t)) \/
            (\E t \in {"writer", "rotator"} : PublishTemp(t)) \/
            (\E t \in {"writer", "rotator"} : SignalNextFd(t)) \/
            (\E t \in {"writer", "rotator"} : OpenTempFails(t)) \/
            (\E t \in {"writer", "rotator"} : GiveUpPreparing(t))
    BY <2>3 DEF OpenTemp, PublishTemp, SignalNextFd, OpenTempFails, GiveUpPreparing,
       AfterPrepare
  <2>4. CASE CheckRunning \/ Dequeue \/ Drain \/ HandleClose \/ CloseOld \/ LinkBase \/
            LinkCollides \/ LinkFails \/ RenameBase \/ RenameTemp \/ RenameFails \/
            AddToCache \/ Retain \/ ComputeNextTime
    BY <2>4 DEF CheckRunning, Dequeue, Drain, HandleClose, CloseOld, LinkBase, LinkCollides,
       LinkFails, RenameBase, RenameTemp, RenameFails, AddToCache, Retain, ComputeNextTime
  <2>5. CASE ClearRunning \/ EnqueueShutdown \/ JoinRotator
    BY <2>5 DEF ClearRunning, EnqueueShutdown, JoinRotator
  <2>6. CASE UNCHANGED vars
    BY <2>6
  <2> QED BY <2>1, <2>2, <2>3, <2>4, <2>5, <2>6, NextCases
<1>2. gave_up => gave_up'
  <2>1. CASE Open \/ RetainAtOpen \/ TrackHandle \/ Write \/ TimePasses \/ CheckRotation
    <3>1. UNCHANGED gave_up
      BY <2>1 DEF Open, RetainAtOpen, TrackHandle, Write, TimePasses, CheckRotation
    <3> QED BY <3>1
  <2>2. CASE TakeNextFd \/ SwapFd \/ Unready \/ NotifyRotator \/ WaitForNextFd \/
            CheckErrorState \/ CloseHandle \/ DestroyHandle
    <3>1. UNCHANGED gave_up
      BY <2>2 DEF TakeNextFd, SwapFd, Unready, NotifyRotator, WaitForNextFd,
         CheckErrorState, CloseHandle, DestroyHandle
    <3> QED BY <3>1
  <2>3. CASE (\E t \in {"writer", "rotator"} : OpenTemp(t)) \/
            (\E t \in {"writer", "rotator"} : PublishTemp(t)) \/
            (\E t \in {"writer", "rotator"} : SignalNextFd(t)) \/
            (\E t \in {"writer", "rotator"} : OpenTempFails(t)) \/
            (\E t \in {"writer", "rotator"} : GiveUpPreparing(t))
    <3>1. UNCHANGED gave_up
      BY <2>3 DEF OpenTemp, PublishTemp, SignalNextFd, OpenTempFails, GiveUpPreparing
    <3> QED BY <3>1
  <2>4. CASE LinkCollides \/ LinkFails \/ RenameFails
    BY <2>4 DEF LinkCollides, LinkFails, RenameFails
  <2>5. CASE CheckRunning \/ Dequeue \/ Drain \/ HandleClose \/ CloseOld \/ LinkBase \/
            RenameBase \/ RenameTemp \/ AddToCache \/ Retain \/ ComputeNextTime
    <3>1. UNCHANGED gave_up
      BY <2>5 DEF CheckRunning, Dequeue, Drain, HandleClose, CloseOld, LinkBase, RenameBase,
         RenameTemp, AddToCache, Retain, ComputeNextTime
    <3> QED BY <3>1
  <2>6. CASE ClearRunning \/ EnqueueShutdown \/ JoinRotator
    <3>1. UNCHANGED gave_up
      BY <2>6 DEF ClearRunning, EnqueueShutdown, JoinRotator
    <3> QED BY <3>1
  <2>7. CASE UNCHANGED vars
    BY <2>7
  <2> QED BY <2>1, <2>2, <2>3, <2>4, <2>5, <2>6, <2>7, NextCases
<1>3. Alive
  BY <1>1, <1>2
<1>4. ~Drain /\ ~JoinRotator /\ ~RenameFails /\ (LinkFails => Exists(Base))
  BY DEF Drain, JoinRotator, RenameFails, LinkFails
<1>5. pc["owner"] # "destroyed"
  BY <1>3 DEF Token, Service, Stopping
<1> QED BY <1>3, <1>4, <1>5 DEF Named

LEMMA TempsGoneSame ==
    ASSUME TempsGone, \A f \in 1 .. MaxFiles : dir'[Temp(f)] \in {NoFile, dir[Temp(f)]},
           \A f : Needed(f) => Needed(f)'
    PROVE  TempsGone'
  BY DEF TempsGone

LEMMA NeededStays ==
    ASSUME UNCHANGED <<next_fd_, new_fd, current_fd_>>,
           pc'["writer"] = "gone" => pc["writer"] = "gone",
           pc["writer"] = "swap" => pc'["writer"] = "swap",
           Pending => Pending', NEW f
    PROVE  Needed(f) => Needed(f)'
  BY DEF Needed, Prepared

LEMMA TempsGoneStep == ASSUME Inv, [Next]_vars, Alive' PROVE TempsGone'
<1> USE DEF vars, fsVars, fdVars, handleVars, serviceVars, rotateLocals, prepareLocals,
             writerLocals, outsideWriter, outsideRotator, outsidePrepare, rotating,
             outsideOwner, Goto, Inv, Types, Token, PcTypes, Threads, WriterLabels,
             RotatorLabels, OwnerLabels
<1>1. CASE Open
  <2>1. dir' = dir \/ Leads(Base, files + 1)
    BY <1>1, OpenEffect
  <2>2. \A f \in 1 .. MaxFiles : dir'[Temp(f)] = dir[Temp(f)]
    BY <2>1, TempNames DEF Leads
  <2>3. \A f \in 1 .. MaxFiles : dir[Temp(f)] = NoFile
    BY <1>1, TempNames DEF Open, Untouched
  <2> QED BY <2>2, <2>3 DEF TempsGone
<1>2. CASE \E t \in {"writer", "rotator"} : OpenTemp(t)
  <2>1. PICK t \in {"writer", "rotator"} : OpenTemp(t)
    BY <1>2
  <2>2. /\ next_fd_' = files + 1 /\ Leads(Temp(files + 1), files + 1) /\ next_fd_ = NoFd
        /\ pc' = [pc EXCEPT ![t] = "publish"] /\ pc[t] = "prepare"
        /\ UNCHANGED <<queue_, new_fd, current_fd_>> /\ files \in Nat
    BY <2>1, OpenTempEffect DEF FileTypes
  <2>3. pc["writer"] # "gone" /\ pc["writer"] # "swap"
    BY <2>2 DEF Service, Handled, Starting, Rotating, Exclusive, Swapping
  <2>4. Pending => Pending'
    BY <2>2 DEF Pending, Swapped, Queued, Renaming
  <2>5. Prepared' /\ pc'["writer"] # "gone"
    BY <2>2, <2>3 DEF Prepared, NoFd
  <2>6. \A f : Needed(f) \/ f = files + 1 => Needed(f)'
    BY <2>2, <2>3, <2>4, <2>5 DEF Needed, Prepared
  <2>7. \A f \in 1 .. MaxFiles : dir'[Temp(f)] = IF f = files + 1 THEN files + 1 ELSE dir[Temp(f)]
    BY <2>2, TempNames DEF Leads
  <2> QED BY <2>6, <2>7, Living DEF TempsGone
<1>3. CASE TakeNextFd
  <2>1. UNCHANGED <<dir, current_fd_, queue_, pc["rotator"]>> /\ pc["writer"] = "next"
        /\ pc'["writer"] \in {"swap", "wait"}
    BY <1>3 DEF TakeNextFd
  <2>2. UNCHANGED next_fd_ \/ ~Prepared \/ (pc'["writer"] = "swap" /\ new_fd' = next_fd_)
    BY <1>3 DEF TakeNextFd, Prepared
  <2>3. Pending => Pending'
    BY <2>1 DEF Pending, Swapped, Queued, Renaming
  <2>4. \A f : Needed(f) => Needed(f)'
    BY <2>1, <2>2, <2>3 DEF Needed, Prepared
  <2> QED BY <2>1, <2>4, Living, TempsGoneSame
<1>4. CASE SwapFd
  <2>1. UNCHANGED <<dir, queue_, next_fd_, new_fd, pc["rotator"]>> /\ pc["writer"] = "swap"
        /\ pc'["writer"] = "unready" /\ current_fd_' = new_fd
    BY <1>4 DEF SwapFd
  <2>2. ~Prepared /\ ~Queued /\ ~Renaming /\ ~Swapped
    BY <2>1 DEF Exclusive, Swapping, Rotating, Swapped
  <2>3. \A f : Needed(f) => Needed(f)'
    BY <2>1, <2>2 DEF Needed, Pending, Swapped
  <2> QED BY <2>1, <2>3, Living, TempsGoneSame
<1>5. CASE NotifyRotator
  <2>1. UNCHANGED <<dir, next_fd_, new_fd, current_fd_, pc["rotator"]>>
        /\ pc["writer"] = "notify" /\ pc'["writer"] = "idle"
    BY <1>5 DEF NotifyRotator
  <2>2. Queued'
    <3> DEFINE m == [type |-> "rotate", fd |-> old_fd, temp |-> next_temp_]
    <3>1. queue_' = Append(queue_, m) /\ m \in Messages /\ m.type = "rotate"
      BY <1>5 DEF NotifyRotator, Messages, FileTypes
    <3> HIDE DEF m
    <3>2. /\ DOMAIN queue_' = DOMAIN queue_ \cup {Len(queue_) + 1}
          /\ queue_'[Len(queue_) + 1] = m
      BY <3>1, QueueFacts DEF MessageTypes
    <3> QED BY <3>1, <3>2 DEF Queued
  <2>3. \A f : Needed(f) => Needed(f)'
    BY <2>1, <2>2, NeededStays DEF Pending
  <2> QED BY <2>1, <2>3, Living, TempsGoneSame
<1>6. CASE CloseHandle
  <2>1. UNCHANGED <<dir, next_fd_, new_fd, current_fd_, pc["rotator"]>>
        /\ pc["writer"] = "idle" /\ pc'["writer"] = "dropped" /\ UNCHANGED Queued
    BY <1>6, CloseEffect DEF CloseHandle
  <2>2. Pending => Pending'
    BY <2>1 DEF Pending, Swapped, Renaming
  <2>3. \A f : Needed(f) => Needed(f)'
    BY <2>1, <2>2, NeededStays
  <2> QED BY <2>1, <2>3, Living, TempsGoneSame
<1>7. CASE DestroyHandle
  <2>1. Discards /\ pc["writer"] = "dropped" /\ queue_ = <<>> /\ msg = NoMsg
    BY <1>7, Living DEF DestroyHandle, Discards
  <2>2. ~Pending
    BY <2>1 DEF Service, Handled, Rotating, Pending, Swapped, Renaming, Queued
  <2>3. \A f \in 1 .. MaxFiles : dir[Temp(f)] # NoFile => Prepared /\ f = next_fd_
    BY <2>1, <2>2, Living DEF TempsGone, Needed
  <2>4. Prepared => next_temp_ = next_fd_
    BY <2>1 DEF Published, Service, Handled
  <2>5. \A f \in 1 .. MaxFiles : dir'[Temp(f)] = NoFile
    <3> SUFFICES ASSUME NEW f \in 1 .. MaxFiles PROVE dir'[Temp(f)] = NoFile
      OBVIOUS
    <3>1. CASE dir[Temp(f)] = NoFile
      BY <2>1, <3>1, DiscardEffect, TempNames
    <3>2. CASE dir[Temp(f)] # NoFile
      BY <2>1, <2>3, <2>4, <3>2, DiscardEffect, TempNames DEF Prepared
    <3> QED BY <3>1, <3>2
  <2> QED BY <2>5 DEF TempsGone
<1>8. CASE Dequeue
  <2>1. UNCHANGED <<dir, next_fd_, new_fd, current_fd_>>
        /\ pc["rotator"] = "dequeue" /\ pc' = [pc EXCEPT !["rotator"] = Head(queue_).type]
        /\ Head(queue_) = queue_[1] /\ Head(queue_).type \in {"rotate", "close"}
    BY <1>8, DequeueEffect DEF Dequeue
  <2>2. Queued => Head(queue_).type = "rotate"
    BY <2>1 DEF Queued, Service, Enqueued
  <2>3. Pending => Pending'
    BY <2>1, <2>2 DEF Pending, Swapped, Renaming
  <2>4. \A f : Needed(f) => Needed(f)'
    BY <2>1, <2>3, NeededStays
  <2> QED BY <2>1, <2>4, Living, TempsGoneSame
<1>9. CASE Drain \/ JoinRotator \/ RenameFails
  BY <1>9, Living
<1>10. CASE LinkFails
  <2>1. UNCHANGED <<dir, queue_, next_fd_, new_fd, current_fd_, pc["writer"]>> /\ pc["rotator"] = "link"
        /\ pc'["rotator"] = "fallback"
    BY <1>10, Living DEF LinkFails
  <2>2. Pending => Pending'
    BY <2>1 DEF Pending, Swapped, Renaming, Queued
  <2>3. \A f : Needed(f) => Needed(f)'
    BY <2>1, <2>2, NeededStays
  <2> QED BY <2>1, <2>3, Living, TempsGoneSame
<1>11. CASE RenameTemp
  <2>1. /\ current_fd_ \in 1 .. MaxFiles
        /\ \A m \in Names : dir'[m] = IF m = Base THEN current_fd_
                                      ELSE IF m = Temp(current_fd_) THEN NoFile ELSE dir[m]
    BY <1>11, RenameEffect
  <2>2. ~Prepared /\ ~Swapping
    BY <1>11 DEF RenameTemp, Exclusive, Rotating, Renaming
  <2>3. \A f : Needed(f) => f = current_fd_
    BY <2>2 DEF Needed, Swapping
  <2>4. \A f \in 1 .. MaxFiles : dir'[Temp(f)] = NoFile
    <3> SUFFICES ASSUME NEW f \in 1 .. MaxFiles PROVE dir'[Temp(f)] = NoFile
      OBVIOUS
    <3>1. dir'[Temp(f)] = IF f = current_fd_ THEN NoFile ELSE dir[Temp(f)]
      BY <2>1, TempNames
    <3> QED BY <2>3, <3>1, Living DEF TempsGone
  <2> QED BY <2>4 DEF TempsGone
<1>12. CASE RetainAtOpen \/ TrackHandle \/ Write \/ TimePasses \/ CheckRotation \/ Unready
  <2>1. UNCHANGED <<queue_, next_fd_, new_fd, current_fd_>>
    BY <1>12 DEF RetainAtOpen, TrackHandle, Write, TimePasses, CheckRotation, Unready,
       StartPreparing
  <2>2. pc'["writer"] = "gone" => pc["writer"] = "gone"
    BY <1>12 DEF RetainAtOpen, TrackHandle, Write, TimePasses, CheckRotation, Unready,
       StartPreparing
  <2>3. pc["writer"] = "swap" => pc'["writer"] = "swap"
    BY <1>12 DEF RetainAtOpen, TrackHandle, Write, TimePasses, CheckRotation, Unready,
       StartPreparing
  <2>4. Pending => Pending'
    BY <1>12, <2>1, Living DEF RetainAtOpen, TrackHandle, Write, TimePasses, CheckRotation,
       Unready, StartPreparing, Pending, Swapped, Renaming, Queued, Alive
  <2>5. \A f : Needed(f) => Needed(f)'
    BY <2>1, <2>2, <2>3, <2>4, NeededStays
  <2> QED BY <2>1, <2>5, Living, TempDir, TempsGoneSame
<1>13. CASE WaitForNextFd \/ CheckErrorState \/
          (\E t \in {"writer", "rotator"} : PublishTemp(t))
  <2>1. UNCHANGED <<queue_, next_fd_, new_fd, current_fd_>>
    BY <1>13 DEF WaitForNextFd, CheckErrorState, PublishTemp
  <2>2. pc'["writer"] = "gone" => pc["writer"] = "gone"
    BY <1>13 DEF WaitForNextFd, CheckErrorState, PublishTemp
  <2>3. pc["writer"] = "swap" => pc'["writer"] = "swap"
    BY <1>13 DEF WaitForNextFd, CheckErrorState, PublishTemp
  <2>4. Pending => Pending'
    BY <1>13, <2>1, Living DEF WaitForNextFd, CheckErrorState, PublishTemp, Pending, Swapped,
       Renaming, Queued, Alive
  <2>5. \A f : Needed(f) => Needed(f)'
    BY <2>1, <2>2, <2>3, <2>4, NeededStays
  <2> QED BY <2>1, <2>5, Living, TempDir, TempsGoneSame
<1>14. CASE (\E t \in {"writer", "rotator"} : SignalNextFd(t)) \/
          (\E t \in {"writer", "rotator"} : OpenTempFails(t)) \/
          (\E t \in {"writer", "rotator"} : GiveUpPreparing(t)) \/ CheckRunning
  <2>1. UNCHANGED <<queue_, next_fd_, new_fd, current_fd_>>
    BY <1>14 DEF SignalNextFd, OpenTempFails, GiveUpPreparing, CheckRunning, AfterPrepare
  <2>2. pc'["writer"] = "gone" => pc["writer"] = "gone"
    BY <1>14 DEF SignalNextFd, OpenTempFails, GiveUpPreparing, CheckRunning, AfterPrepare
  <2>3. pc["writer"] = "swap" => pc'["writer"] = "swap"
    BY <1>14 DEF SignalNextFd, OpenTempFails, GiveUpPreparing, CheckRunning, AfterPrepare
  <2>4. Pending => Pending'
    BY <1>14, <2>1, Living DEF SignalNextFd, OpenTempFails, GiveUpPreparing, CheckRunning,
       AfterPrepare, Pending, Swapped, Renaming, Queued, Alive
  <2>5. \A f : Needed(f) => Needed(f)'
    BY <2>1, <2>2, <2>3, <2>4, NeededStays
  <2> QED BY <2>1, <2>5, Living, TempDir, TempsGoneSame
<1>15. CASE HandleClose \/ CloseOld \/ LinkBase
  <2>1. UNCHANGED <<queue_, next_fd_, new_fd, current_fd_>>
    BY <1>15 DEF HandleClose, CloseOld, LinkBase
  <2>2. pc'["writer"] = "gone" => pc["writer"] = "gone"
    BY <1>15 DEF HandleClose, CloseOld, LinkBase
  <2>3. pc["writer"] = "swap" => pc'["writer"] = "swap"
    BY <1>15 DEF HandleClose, CloseOld, LinkBase
  <2>4. Pending => Pending'
    BY <1>15, <2>1, Living DEF HandleClose, CloseOld, LinkBase, Pending, Swapped, Renaming,
       Queued, Alive
  <2>5. \A f : Needed(f) => Needed(f)'
    BY <2>1, <2>2, <2>3, <2>4, NeededStays
  <2> QED BY <2>1, <2>5, Living, TempDir, TempsGoneSame
<1>16. CASE LinkBase \/ LinkCollides \/ RenameBase
  <2>1. UNCHANGED <<queue_, next_fd_, new_fd, current_fd_>>
    BY <1>16 DEF LinkBase, LinkCollides, RenameBase
  <2>2. pc'["writer"] = "gone" => pc["writer"] = "gone"
    BY <1>16 DEF LinkBase, LinkCollides, RenameBase
  <2>3. pc["writer"] = "swap" => pc'["writer"] = "swap"
    BY <1>16 DEF LinkBase, LinkCollides, RenameBase
  <2>4. Pending => Pending'
    BY <1>16, <2>1, Living DEF LinkBase, LinkCollides, RenameBase, Pending, Swapped, Renaming,
       Queued, Alive
  <2>5. \A f : Needed(f) => Needed(f)'
    BY <2>1, <2>2, <2>3, <2>4, NeededStays
  <2> QED BY <2>1, <2>5, Living, TempDir, TempsGoneSame
<1>17. CASE AddToCache \/ Retain \/ ComputeNextTime \/ ClearRunning \/ EnqueueShutdown
  <2>1. UNCHANGED <<queue_, next_fd_, new_fd, current_fd_>>
    BY <1>17 DEF AddToCache, Retain, ComputeNextTime, ClearRunning, EnqueueShutdown,
       StartPreparing
  <2>2. pc'["writer"] = "gone" => pc["writer"] = "gone"
    BY <1>17 DEF AddToCache, Retain, ComputeNextTime, ClearRunning, EnqueueShutdown,
       StartPreparing
  <2>3. pc["writer"] = "swap" => pc'["writer"] = "swap"
    BY <1>17 DEF AddToCache, Retain, ComputeNextTime, ClearRunning, EnqueueShutdown,
       StartPreparing
  <2>4. Pending => Pending'
    BY <1>17, <2>1, Living DEF AddToCache, Retain, ComputeNextTime, ClearRunning,
       EnqueueShutdown, StartPreparing, Pending, Swapped, Renaming, Queued, Alive
  <2>5. \A f : Needed(f) => Needed(f)'
    BY <2>1, <2>2, <2>3, <2>4, NeededStays
  <2> QED BY <2>1, <2>5, Living, TempDir, TempsGoneSame
<1>18. CASE UNCHANGED vars
  <2>1. UNCHANGED <<dir, queue_, next_fd_, new_fd, current_fd_, pc>>
    BY <1>18
  <2>2. Pending => Pending'
    BY <2>1 DEF Pending, Swapped, Renaming, Queued
  <2>3. \A f : Needed(f) => Needed(f)'
    BY <2>1, <2>2, NeededStays
  <2> QED BY <2>1, <2>3, Living, TempsGoneSame
<1> QED BY <1>1, <1>2, <1>3, <1>4, <1>5, <1>6, <1>7, <1>8, <1>9, <1>10, <1>11, <1>12, <1>13, <1>14,
       <1>15, <1>16, <1>17, <1>18, NextCases

(* The message about a swap is about the old descriptor and comes last.      *)
LEMMA Notified ==
    ASSUME Types, NotifyRotator
    PROVE  /\ DOMAIN queue_' = DOMAIN queue_ \cup {Len(queue_) + 1}
           /\ queue_'[Len(queue_) + 1].type = "rotate" /\ queue_'[Len(queue_) + 1].fd = old_fd
           /\ \A i \in DOMAIN queue_ : queue_'[i] = queue_[i]
<1> DEFINE m == [type |-> "rotate", fd |-> old_fd, temp |-> next_temp_]
<1>1. queue_' = Append(queue_, m) /\ m \in Messages /\ m.type = "rotate" /\ m.fd = old_fd
  BY DEF NotifyRotator, Messages, FileTypes, Types
<1> HIDE DEF m
<1>2. /\ DOMAIN queue_' = DOMAIN queue_ \cup {Len(queue_) + 1}
      /\ queue_'[Len(queue_) + 1] = m
      /\ \A i \in DOMAIN queue_ : queue_'[i] = queue_[i]
  BY <1>1, QueueFacts DEF MessageTypes, Types
<1> QED BY <1>1, <1>2

LEMMA LeadsNowSame ==
    ASSUME LeadsNow, dir'[Base] = dir[Base], UNCHANGED <<current_fd_, old_fd>>,
           Pending => Pending', Swapped' => Swapped,
           pc'["writer"] # "open" => pc["writer"] # "open"
    PROVE  LeadsNow'
  BY DEF LeadsNow

(* What retention leaves alone.                                              *)
LEMMA ForgetsOnly ==
    ASSUME Types, RetainAtOpen \/ Retain \/ (\E t \in {"writer", "rotator"} : OpenTempFails(t))
    PROVE  UNCHANGED where /\ dir'[Base] = dir[Base]
<1>1. dir'[Base] = dir[Base]
  BY ForgetEffect, NameFacts
<1> QED BY <1>1 DEF RetainAtOpen, Retain, OpenTempFails, outsideRotator, outsidePrepare, rotating

LEMMA LeadsNowStep == ASSUME Inv, [Next]_vars, Alive' PROVE LeadsNow'
<1> USE DEF vars, fsVars, fdVars, handleVars, serviceVars, rotateLocals, prepareLocals,
             writerLocals, outsideWriter, outsideRotator, outsidePrepare, rotating,
             outsideOwner, Goto, Inv, Types, Token, PcTypes, Threads, WriterLabels,
             RotatorLabels, OwnerLabels
<1>1. CASE Open
  <2>1. /\ pc["writer"] = "open" /\ pc' = [pc EXCEPT !["writer"] = "retain"]
    BY <1>1, OpenEffect
  <2>2. dir'[Base] = current_fd_'
    BY <1>1, OpenEffect, NameFacts DEF Leads
  <2>3. ~Swapped'
    BY <2>1 DEF Swapped
  <2> QED BY <2>2, <2>3 DEF LeadsNow
<1>2. CASE SwapFd
  <2>1. /\ UNCHANGED dir /\ pc["writer"] = "swap" /\ old_fd' = current_fd_
        /\ pc' = [pc EXCEPT !["writer"] = "unready"]
    BY <1>2 DEF SwapFd
  <2>2. ~Pending
    BY <2>1 DEF Exclusive, Swapping, Rotating, Pending, Swapped
  <2>3. Pending'
    BY <2>1 DEF Pending, Swapped
  <2> QED BY <2>1, <2>2, <2>3, Living DEF BaseLeads, LeadsNow
<1>3. CASE NotifyRotator
  <2>1. UNCHANGED <<dir, current_fd_, old_fd>> /\ pc["writer"] = "notify" /\ pc'["writer"] = "idle"
    BY <1>3 DEF NotifyRotator
  <2>2. Queued'
    BY <1>3, Notified DEF Queued
  <2>3. Pending' /\ ~Swapped'
    BY <2>1, <2>2 DEF Pending, Swapped
  <2> QED BY <2>3 DEF LeadsNow
<1>4. CASE Dequeue
  <2>1. UNCHANGED <<dir, current_fd_, old_fd>>
        /\ pc["rotator"] = "dequeue" /\ pc' = [pc EXCEPT !["rotator"] = Head(queue_).type]
        /\ Head(queue_) = queue_[1] /\ Head(queue_).type \in {"rotate", "close"}
    BY <1>4, DequeueEffect DEF Dequeue
  <2>2. Queued => Head(queue_).type = "rotate"
    BY <2>1 DEF Queued, Service, Enqueued
  <2>3. (Pending => Pending') /\ (Swapped' => Swapped)
    BY <2>1, <2>2 DEF Pending, Swapped, Renaming
  <2> QED BY <2>1, <2>3, Living, LeadsNowSame DEF BaseLeads
<1>5. CASE CloseHandle
  <2>1. UNCHANGED <<dir, current_fd_, old_fd, pc["rotator"]>>
        /\ pc["writer"] = "idle" /\ pc'["writer"] = "dropped" /\ UNCHANGED Queued
    BY <1>5, CloseEffect DEF CloseHandle
  <2>2. (Pending => Pending') /\ (Swapped' => Swapped)
    BY <2>1 DEF Pending, Swapped, Renaming
  <2> QED BY <2>1, <2>2, Living, LeadsNowSame DEF BaseLeads
<1>6. CASE Write \/ AddToCache
  <2>1. UNCHANGED <<queue_, current_fd_, old_fd>>
    BY <1>6 DEF Write, AddToCache
  <2>2. dir'[Base] = dir[Base]
    BY <1>6 DEF Write, AddToCache
  <2>3. Pending => Pending'
    BY <1>6, <2>1, Living DEF Write, AddToCache, Pending, Swapped, Renaming, Queued, Alive
  <2>4. Swapped' => Swapped
    BY <1>6 DEF Write, AddToCache, Swapped
  <2>5. pc'["writer"] # "open" => pc["writer"] # "open"
    BY <1>6 DEF Write, AddToCache
  <2> QED BY <2>1, <2>2, <2>3, <2>4, <2>5, Living, LeadsNowSame DEF BaseLeads
<1>7. CASE LinkFails
  <2>1. UNCHANGED <<dir, queue_, current_fd_, old_fd, pc["writer"]>> /\ pc["rotator"] = "link"
        /\ pc'["rotator"] = "fallback"
    BY <1>7, Living DEF LinkFails
  <2>2. (Pending => Pending') /\ (Swapped' => Swapped)
    BY <2>1 DEF Pending, Swapped, Renaming, Queued
  <2> QED BY <2>1, <2>2, Living, LeadsNowSame DEF BaseLeads
<1>8. CASE LinkBase \/ LinkCollides
  <2>1. UNCHANGED <<queue_, current_fd_, old_fd>>
    BY <1>8 DEF LinkBase, LinkCollides
  <2>2. dir'[Base] = dir[Base]
    <3>1. name' \in RotatedNames /\ (Leads(name', dir[Base]) \/ Leads(name', files + 1))
      BY <1>8, LinkEffect
    <3> QED BY <3>1, NameFacts DEF Leads
  <2>3. Pending => Pending'
    BY <1>8, <2>1, Living DEF LinkBase, LinkCollides, Pending, Swapped, Renaming, Queued, Alive
  <2>4. Swapped' => Swapped
    BY <1>8 DEF LinkBase, LinkCollides, Swapped
  <2>5. pc'["writer"] # "open" => pc["writer"] # "open"
    BY <1>8 DEF LinkBase, LinkCollides
  <2> QED BY <2>1, <2>2, <2>3, <2>4, <2>5, Living, LeadsNowSame DEF BaseLeads
<1>9. CASE RenameBase \/ RenameTemp
  <2>1. /\ UNCHANGED <<queue_, current_fd_, old_fd, pc["writer"]>> /\ Rotating
        /\ RenameBase => Pending'
    BY <1>9 DEF RenameBase, RenameTemp, Rotating, Renaming, Pending
  <2>2. RenameTemp => dir'[Base] = current_fd_'
    BY <2>1, RenameEffect, NameFacts
  <2>3. ~Swapped'
    BY <2>1 DEF Exclusive, Swapping, Swapped
  <2> QED BY <1>9, <2>1, <2>2, <2>3 DEF LeadsNow
<1>10. CASE RetainAtOpen \/ Retain \/ (\E t \in {"writer", "rotator"} : OpenTempFails(t))
  <2>1. UNCHANGED <<queue_, current_fd_, old_fd>>
    BY <1>10 DEF RetainAtOpen, Retain, OpenTempFails, StartPreparing
  <2>2. dir'[Base] = dir[Base]
    BY <1>10, ForgetsOnly
  <2>3. Pending => Pending'
    BY <1>10, <2>1, Living DEF RetainAtOpen, Retain, OpenTempFails, StartPreparing, Pending,
       Swapped, Renaming, Queued, Alive
  <2>4. Swapped' => Swapped
    BY <1>10 DEF RetainAtOpen, Retain, OpenTempFails, StartPreparing, Swapped
  <2>5. pc'["writer"] # "open" => pc["writer"] # "open"
    BY <1>10 DEF RetainAtOpen, Retain, OpenTempFails, StartPreparing
  <2> QED BY <2>1, <2>2, <2>3, <2>4, <2>5, Living, LeadsNowSame DEF BaseLeads
<1>11. CASE Drain \/ JoinRotator \/ RenameFails
  BY <1>11, Living
<1>12. CASE TrackHandle \/ TimePasses \/ CheckRotation \/ TakeNextFd \/ Unready
  <2>1. UNCHANGED <<queue_, current_fd_, old_fd>>
    BY <1>12 DEF TrackHandle, TimePasses, CheckRotation, TakeNextFd, Unready, StartPreparing,
       AfterPrepare
  <2>2. dir'[Base] = dir[Base]
    BY <1>12, UnmovedSteps DEF Unmoved
  <2>3. Pending => Pending'
    BY <1>12, <2>1, Living DEF TrackHandle, TimePasses, CheckRotation, TakeNextFd, Unready,
       StartPreparing, AfterPrepare, Pending, Swapped, Renaming, Queued, Alive
  <2>4. Swapped' => Swapped
    BY <1>12 DEF TrackHandle, TimePasses, CheckRotation, TakeNextFd, Unready, StartPreparing,
       AfterPrepare, Swapped
  <2>5. pc'["writer"] # "open" => pc["writer"] # "open"
    BY <1>12 DEF TrackHandle, TimePasses, CheckRotation, TakeNextFd, Unready, StartPreparing,
       AfterPrepare
  <2> QED BY <2>1, <2>2, <2>3, <2>4, <2>5, Living, LeadsNowSame DEF BaseLeads
<1>13. CASE WaitForNextFd \/ CheckErrorState \/ DestroyHandle \/
          (\E t \in {"writer", "rotator"} : OpenTemp(t))
  <2>1. UNCHANGED <<queue_, current_fd_, old_fd>>
    BY <1>13 DEF WaitForNextFd, CheckErrorState, DestroyHandle, OpenTemp, StartPreparing,
       AfterPrepare
  <2>2. dir'[Base] = dir[Base]
    BY <1>13, UnmovedSteps DEF Unmoved
  <2>3. Pending => Pending'
    BY <1>13, <2>1, Living DEF WaitForNextFd, CheckErrorState, DestroyHandle, OpenTemp,
       StartPreparing, AfterPrepare, Pending, Swapped, Renaming, Queued, Alive
  <2>4. Swapped' => Swapped
    BY <1>13 DEF WaitForNextFd, CheckErrorState, DestroyHandle, OpenTemp, StartPreparing,
       AfterPrepare, Swapped
  <2>5. pc'["writer"] # "open" => pc["writer"] # "open"
    BY <1>13 DEF WaitForNextFd, CheckErrorState, DestroyHandle, OpenTemp, StartPreparing,
       AfterPrepare
  <2> QED BY <2>1, <2>2, <2>3, <2>4, <2>5, Living, LeadsNowSame DEF BaseLeads
<1>14. CASE (\E t \in {"writer", "rotator"} : PublishTemp(t)) \/
          (\E t \in {"writer", "rotator"} : SignalNextFd(t)) \/
          (\E t \in {"writer", "rotator"} : GiveUpPreparing(t)) \/ CheckRunning
  <2>1. UNCHANGED <<queue_, current_fd_, old_fd>>
    BY <1>14 DEF PublishTemp, SignalNextFd, GiveUpPreparing, CheckRunning, StartPreparing,
       AfterPrepare
  <2>2. dir'[Base] = dir[Base]
    BY <1>14, UnmovedSteps DEF Unmoved
  <2>3. Pending => Pending'
    BY <1>14, <2>1, Living DEF PublishTemp, SignalNextFd, GiveUpPreparing, CheckRunning,
       StartPreparing, AfterPrepare, Pending, Swapped, Renaming, Queued, Alive
  <2>4. Swapped' => Swapped
    BY <1>14 DEF PublishTemp, SignalNextFd, GiveUpPreparing, CheckRunning, StartPreparing,
       AfterPrepare, Swapped
  <2>5. pc'["writer"] # "open" => pc["writer"] # "open"
    BY <1>14 DEF PublishTemp, SignalNextFd, GiveUpPreparing, CheckRunning, StartPreparing,
       AfterPrepare
  <2> QED BY <2>1, <2>2, <2>3, <2>4, <2>5, Living, LeadsNowSame DEF BaseLeads
<1>15. CASE HandleClose \/ CloseOld \/ ComputeNextTime \/ ClearRunning
  <2>1. UNCHANGED <<queue_, current_fd_, old_fd>>
    BY <1>15 DEF HandleClose, CloseOld, ComputeNextTime, ClearRunning, StartPreparing,
       AfterPrepare
  <2>2. dir'[Base] = dir[Base]
    BY <1>15, UnmovedSteps DEF Unmoved
  <2>3. Pending => Pending'
    BY <1>15, <2>1, Living DEF HandleClose, CloseOld, ComputeNextTime, ClearRunning,
       StartPreparing, AfterPrepare, Pending, Swapped, Renaming, Queued, Alive
  <2>4. Swapped' => Swapped
    BY <1>15 DEF HandleClose, CloseOld, ComputeNextTime, ClearRunning, StartPreparing,
       AfterPrepare, Swapped
  <2>5. pc'["writer"] # "open" => pc["writer"] # "open"
    BY <1>15 DEF HandleClose, CloseOld, ComputeNextTime, ClearRunning, StartPreparing,
       AfterPrepare
  <2> QED BY <2>1, <2>2, <2>3, <2>4, <2>5, Living, LeadsNowSame DEF BaseLeads
<1>16. CASE EnqueueShutdown
  <2>1. UNCHANGED <<queue_, current_fd_, old_fd>>
    BY <1>16 DEF EnqueueShutdown, StartPreparing, AfterPrepare
  <2>2. dir'[Base] = dir[Base]
    BY <1>16, UnmovedSteps DEF Unmoved
  <2>3. Pending => Pending'
    BY <1>16, <2>1, Living DEF EnqueueShutdown, StartPreparing, AfterPrepare, Pending, Swapped,
       Renaming, Queued, Alive
  <2>4. Swapped' => Swapped
    BY <1>16 DEF EnqueueShutdown, StartPreparing, AfterPrepare, Swapped
  <2>5. pc'["writer"] # "open" => pc["writer"] # "open"
    BY <1>16 DEF EnqueueShutdown, StartPreparing, AfterPrepare
  <2> QED BY <2>1, <2>2, <2>3, <2>4, <2>5, Living, LeadsNowSame DEF BaseLeads
<1>17. CASE UNCHANGED vars
  <2>1. UNCHANGED <<dir, queue_, current_fd_, old_fd, pc>>
    BY <1>17
  <2>2. (Pending => Pending') /\ (Swapped' => Swapped)
    BY <2>1 DEF Pending, Swapped, Renaming, Queued
  <2> QED BY <2>1, <2>2, Living, LeadsNowSame DEF BaseLeads
<1> QED BY <1>1, <1>2, <1>3, <1>4, <1>5, <1>6, <1>7, <1>8, <1>9, <1>10, <1>11, <1>12, <1>13, <1>14,
       <1>15, <1>16, <1>17, NextCases

LEMMA LeadsQueuedStep == ASSUME Inv, [Next]_vars, Alive' PROVE LeadsQueued'
<1> USE DEF vars, fsVars, fdVars, handleVars, serviceVars, rotateLocals, prepareLocals,
             writerLocals, outsideWriter, outsideRotator, outsidePrepare, rotating,
             outsideOwner, Goto, Inv, Types, Token, PcTypes, Threads, WriterLabels,
             RotatorLabels, OwnerLabels
<1>1. CASE Open
  <2>1. queue_' = <<>>
    BY <1>1 DEF Open, Service, Handled, Starting
  <2> QED BY <2>1 DEF LeadsQueued
<1>2. CASE NotifyRotator
  <2>1. UNCHANGED dir /\ Swapped
    BY <1>2 DEF NotifyRotator, Swapped
  <2>2. dir[Base] = old_fd
    BY <2>1, Living DEF BaseLeads, LeadsNow
  <2>3. LeadsQueued
    BY Living DEF BaseLeads
  <2> QED BY <1>2, <2>1, <2>2, <2>3, Notified DEF LeadsQueued
<1>3. CASE Dequeue
  <2>1. ~Queued'
    BY <1>3, DequeueEffect
  <2> QED BY <2>1 DEF LeadsQueued, Queued
<1>4. CASE CloseHandle
  <2>1. UNCHANGED dir
    BY <1>4 DEF CloseHandle
  <2>2. LeadsQueued
    BY Living DEF BaseLeads
  <2> QED BY <1>4, <2>1, <2>2, CloseEffect DEF LeadsQueued
<1>5. CASE RenameBase \/ RenameTemp
  <2>1. UNCHANGED queue_ /\ Rotating
    BY <1>5 DEF RenameBase, RenameTemp, Rotating, Renaming
  <2>2. ~Queued
    BY <2>1 DEF Exclusive
  <2> QED BY <2>1, <2>2 DEF LeadsQueued, Queued
<1>6. CASE Write \/ AddToCache
  <2>1. UNCHANGED queue_
    BY <1>6 DEF Write, AddToCache, StartPreparing, AfterPrepare
  <2>2. dir'[Base] = dir[Base]
    BY <1>6 DEF Write, AddToCache, StartPreparing, AfterPrepare
  <2> QED BY <2>1, <2>2, Living DEF BaseLeads, LeadsQueued
<1>7. CASE LinkBase \/ LinkCollides
  <2>1. UNCHANGED queue_
    BY <1>7 DEF LinkBase, LinkCollides, StartPreparing, AfterPrepare
  <2>2. dir'[Base] = dir[Base]
    <3>1. name' \in RotatedNames /\ (Leads(name', dir[Base]) \/ Leads(name', files + 1))
      BY <1>7, LinkEffect
    <3> QED BY <3>1, NameFacts DEF Leads
  <2> QED BY <2>1, <2>2, Living DEF BaseLeads, LeadsQueued
<1>8. CASE RetainAtOpen \/ Retain \/ (\E t \in {"writer", "rotator"} : OpenTempFails(t))
  <2>1. UNCHANGED queue_
    BY <1>8 DEF RetainAtOpen, Retain, OpenTempFails, StartPreparing, AfterPrepare
  <2>2. dir'[Base] = dir[Base]
    BY <1>8, ForgetsOnly
  <2> QED BY <2>1, <2>2, Living DEF BaseLeads, LeadsQueued
<1>9. CASE Drain \/ JoinRotator \/ RenameFails
  BY <1>9, Living
<1>10. CASE TrackHandle \/ TimePasses \/ CheckRotation \/ TakeNextFd \/ SwapFd
  <2>1. UNCHANGED queue_
    BY <1>10 DEF TrackHandle, TimePasses, CheckRotation, TakeNextFd, SwapFd, StartPreparing,
       AfterPrepare
  <2>2. dir'[Base] = dir[Base]
    BY <1>10, UnmovedSteps DEF Unmoved
  <2> QED BY <2>1, <2>2, Living DEF BaseLeads, LeadsQueued
<1>11. CASE Unready \/ WaitForNextFd \/ CheckErrorState \/ DestroyHandle
  <2>1. UNCHANGED queue_
    BY <1>11 DEF Unready, WaitForNextFd, CheckErrorState, DestroyHandle, StartPreparing,
       AfterPrepare
  <2>2. dir'[Base] = dir[Base]
    BY <1>11, UnmovedSteps DEF Unmoved
  <2> QED BY <2>1, <2>2, Living DEF BaseLeads, LeadsQueued
<1>12. CASE (\E t \in {"writer", "rotator"} : OpenTemp(t)) \/
          (\E t \in {"writer", "rotator"} : PublishTemp(t)) \/
          (\E t \in {"writer", "rotator"} : SignalNextFd(t)) \/
          (\E t \in {"writer", "rotator"} : GiveUpPreparing(t))
  <2>1. UNCHANGED queue_
    BY <1>12 DEF OpenTemp, PublishTemp, SignalNextFd, GiveUpPreparing, StartPreparing,
       AfterPrepare
  <2>2. dir'[Base] = dir[Base]
    BY <1>12, UnmovedSteps DEF Unmoved
  <2> QED BY <2>1, <2>2, Living DEF BaseLeads, LeadsQueued
<1>13. CASE CheckRunning \/ HandleClose \/ CloseOld \/ LinkFails
  <2>1. UNCHANGED queue_
    BY <1>13 DEF CheckRunning, HandleClose, CloseOld, LinkFails, StartPreparing, AfterPrepare
  <2>2. dir'[Base] = dir[Base]
    BY <1>13, UnmovedSteps DEF Unmoved
  <2> QED BY <2>1, <2>2, Living DEF BaseLeads, LeadsQueued
<1>14. CASE ComputeNextTime \/ ClearRunning \/ EnqueueShutdown
  <2>1. UNCHANGED queue_
    BY <1>14 DEF ComputeNextTime, ClearRunning, EnqueueShutdown, StartPreparing, AfterPrepare
  <2>2. dir'[Base] = dir[Base]
    BY <1>14, UnmovedSteps DEF Unmoved
  <2> QED BY <2>1, <2>2, Living DEF BaseLeads, LeadsQueued
<1>15. CASE UNCHANGED vars
  <2>1. UNCHANGED <<dir, queue_>>
    BY <1>15
  <2> QED BY <2>1, Living DEF BaseLeads, LeadsQueued
<1> QED BY <1>1, <1>2, <1>3, <1>4, <1>5, <1>6, <1>7, <1>8, <1>9, <1>10, <1>11, <1>12, <1>13, <1>14,
       <1>15, NextCases

LEMMA LeadsHandledStep == ASSUME Inv, [Next]_vars, Alive' PROVE LeadsHandled'
<1> USE DEF vars, fsVars, fdVars, handleVars, serviceVars, rotateLocals, prepareLocals,
             writerLocals, outsideWriter, outsideRotator, outsidePrepare, rotating,
             outsideOwner, Goto, Inv, Types, Token, PcTypes, Threads, WriterLabels,
             RotatorLabels, OwnerLabels
<1>1. CASE Open
  <2>1. UNCHANGED pc["rotator"] /\ pc["rotator"] \in {"loop", "dequeue", "stopped"}
    BY <1>1 DEF Open, Service, Handled, Starting
  <2> QED BY <2>1 DEF LeadsHandled
<1>2. CASE Dequeue
  <2>1. UNCHANGED dir /\ pc'["rotator"] = queue_[1].type /\ msg' = queue_[1]
        /\ 1 \in DOMAIN queue_ /\ queue_[1].type \in {"rotate", "close"}
    BY <1>2, DequeueEffect DEF Dequeue
  <2>2. LeadsQueued
    BY Living DEF BaseLeads
  <2> QED BY <2>1, <2>2 DEF LeadsQueued, LeadsHandled
<1>3. CASE CheckRunning
  <2>1. pc'["rotator"] \in {"dequeue", "stopped"}
    BY <1>3 DEF CheckRunning
  <2> QED BY <2>1 DEF LeadsHandled
<1>4. CASE CloseOld \/ LinkFails
  <2>1. UNCHANGED <<dir, msg>> /\ pc["rotator"] \in {"rotate", "link"}
        /\ pc'["rotator"] \in {"link", "fallback"}
    BY <1>4, Living DEF CloseOld, LinkFails
  <2> QED BY <2>1, Living DEF BaseLeads, LeadsHandled
<1>5. CASE LinkBase \/ LinkCollides
  <2>1. UNCHANGED msg /\ pc["rotator"] = "link" /\ pc'["rotator"] \in {"link", "stat", "rename"}
    BY <1>5 DEF LinkBase, LinkCollides
  <2>2. dir'[Base] = dir[Base]
    <3>1. name' \in RotatedNames /\ (Leads(name', dir[Base]) \/ Leads(name', files + 1))
      BY <1>5, LinkEffect
    <3> QED BY <3>1, NameFacts DEF Leads
  <2> QED BY <2>1, <2>2, Living DEF BaseLeads, LeadsHandled
<1>6. CASE RenameBase \/ RenameTemp
  <2>1. /\ RenameBase => pc'["rotator"] = "rename"
        /\ RenameTemp => pc'["rotator"] = "stat"
    BY <1>6 DEF RenameBase, RenameTemp
  <2>2. RenameBase => dir'[Base] = NoFile
    BY RenameEffect, NameFacts
  <2> QED BY <1>6, <2>1, <2>2 DEF LeadsHandled
<1>7. CASE Write \/ AddToCache
  <2>1. UNCHANGED msg /\ (pc'["rotator"] \in {"rotate", "link", "fallback", "rename"} =>
                             UNCHANGED pc["rotator"])
    BY <1>7 DEF Write, AddToCache, StartPreparing, AfterPrepare
  <2>2. dir'[Base] = dir[Base]
    BY <1>7 DEF Write, AddToCache, StartPreparing, AfterPrepare
  <2> QED BY <2>1, <2>2, Living DEF BaseLeads, LeadsHandled
<1>8. CASE RetainAtOpen \/ Retain \/ (\E t \in {"writer", "rotator"} : OpenTempFails(t))
  <2>1. UNCHANGED msg /\ (pc'["rotator"] \in {"rotate", "link", "fallback", "rename"} =>
                             UNCHANGED pc["rotator"])
    BY <1>8 DEF RetainAtOpen, Retain, OpenTempFails, StartPreparing, AfterPrepare
  <2>2. dir'[Base] = dir[Base]
    BY <1>8, ForgetsOnly
  <2> QED BY <2>1, <2>2, Living DEF BaseLeads, LeadsHandled
<1>9. CASE Drain \/ JoinRotator \/ RenameFails
  BY <1>9, Living
<1>10. CASE TrackHandle \/ TimePasses \/ CheckRotation \/ TakeNextFd \/ SwapFd
  <2>1. UNCHANGED msg /\ (pc'["rotator"] \in {"rotate", "link", "fallback", "rename"} =>
                             UNCHANGED pc["rotator"])
    BY <1>10 DEF TrackHandle, TimePasses, CheckRotation, TakeNextFd, SwapFd, StartPreparing,
       AfterPrepare
  <2>2. dir'[Base] = dir[Base]
    BY <1>10, UnmovedSteps DEF Unmoved
  <2> QED BY <2>1, <2>2, Living DEF BaseLeads, LeadsHandled
<1>11. CASE Unready \/ NotifyRotator \/ WaitForNextFd \/ CheckErrorState
  <2>1. UNCHANGED msg /\ (pc'["rotator"] \in {"rotate", "link", "fallback", "rename"} =>
                             UNCHANGED pc["rotator"])
    BY <1>11 DEF Unready, NotifyRotator, WaitForNextFd, CheckErrorState, StartPreparing,
       AfterPrepare
  <2>2. dir'[Base] = dir[Base]
    BY <1>11, UnmovedSteps DEF Unmoved
  <2> QED BY <2>1, <2>2, Living DEF BaseLeads, LeadsHandled
<1>12. CASE CloseHandle \/ DestroyHandle \/
          (\E t \in {"writer", "rotator"} : OpenTemp(t)) \/
          (\E t \in {"writer", "rotator"} : PublishTemp(t))
  <2>1. UNCHANGED msg /\ (pc'["rotator"] \in {"rotate", "link", "fallback", "rename"} =>
                             UNCHANGED pc["rotator"])
    BY <1>12 DEF CloseHandle, DestroyHandle, OpenTemp, PublishTemp, StartPreparing, AfterPrepare
  <2>2. dir'[Base] = dir[Base]
    BY <1>12, UnmovedSteps DEF Unmoved
  <2> QED BY <2>1, <2>2, Living DEF BaseLeads, LeadsHandled
<1>13. CASE (\E t \in {"writer", "rotator"} : SignalNextFd(t)) \/
          (\E t \in {"writer", "rotator"} : GiveUpPreparing(t)) \/ HandleClose \/
          ComputeNextTime
  <2>1. UNCHANGED msg /\ (pc'["rotator"] \in {"rotate", "link", "fallback", "rename"} =>
                             UNCHANGED pc["rotator"])
    BY <1>13 DEF SignalNextFd, GiveUpPreparing, HandleClose, ComputeNextTime, StartPreparing,
       AfterPrepare
  <2>2. dir'[Base] = dir[Base]
    BY <1>13, UnmovedSteps DEF Unmoved
  <2> QED BY <2>1, <2>2, Living DEF BaseLeads, LeadsHandled
<1>14. CASE ClearRunning \/ EnqueueShutdown
  <2>1. UNCHANGED msg /\ (pc'["rotator"] \in {"rotate", "link", "fallback", "rename"} =>
                             UNCHANGED pc["rotator"])
    BY <1>14 DEF ClearRunning, EnqueueShutdown, StartPreparing, AfterPrepare
  <2>2. dir'[Base] = dir[Base]
    BY <1>14, UnmovedSteps DEF Unmoved
  <2> QED BY <2>1, <2>2, Living DEF BaseLeads, LeadsHandled
<1>15. CASE UNCHANGED vars
  <2>1. UNCHANGED <<dir, msg, pc>>
    BY <1>15
  <2> QED BY <2>1, Living DEF BaseLeads, LeadsHandled
<1> QED BY <1>1, <1>2, <1>3, <1>4, <1>5, <1>6, <1>7, <1>8, <1>9, <1>10, <1>11, <1>12, <1>13, <1>14,
       <1>15, NextCases

LEMMA NameThere ==
    ASSUME Inv, pc["rotator"] \in {"fallback", "rename", "stat"} PROVE name \in RotatedNames
  BY DEF Inv, Types, NameTypes

(* The cache does not list a name without a file.                            *)
LEMMA NotListed ==
    ASSUME Inv, Listed, NEW r, dir[r] = NoFile PROVE r \notin NamesIn(cache)
<1> SUFFICES ASSUME NEW i \in DOMAIN cache, cache[i].name = r PROVE FALSE
  BY DEF NamesIn
<1>1. cache[i].stamp \in DOMAIN where /\ where[cache[i].stamp] = dir[r]
  BY DEF Listed
<1>2. where[cache[i].stamp] \in 1 .. files /\ files \in Nat
  BY <1>1 DEF Inv, Types, FileTypes
<1> QED BY <1>1, <1>2 DEF NoFile

LEMMA NameTakenStep == ASSUME Inv, [Next]_vars, Alive' PROVE NameTaken'
<1> USE DEF vars, fsVars, fdVars, handleVars, serviceVars, rotateLocals, prepareLocals,
             writerLocals, outsideWriter, outsideRotator, outsidePrepare, rotating,
             outsideOwner, Goto, Inv, Types, Token, PcTypes, Threads, WriterLabels,
             RotatorLabels, OwnerLabels
<1>1. CASE Open \/ RetainAtOpen
  <2>1. UNCHANGED pc["rotator"] /\ pc["rotator"] \in {"loop", "dequeue", "stopped"}
    BY <1>1 DEF Open, RetainAtOpen, StartPreparing, Service, Handled, Starting
  <2> QED BY <2>1 DEF NameTaken
<1>2. CASE \E t \in {"writer", "rotator"} : OpenTempFails(t)
  <2>1. PICK t \in {"writer", "rotator"} : pc[t] = "prepare" /\ UNCHANGED pc
    BY <1>2 DEF OpenTempFails
  <2>2. pc["rotator"] \in {"loop", "dequeue", "stopped", "prepare"}
    BY <2>1 DEF Service, Handled, Starting
  <2> QED BY <2>1, <2>2 DEF NameTaken
<1>3. CASE Dequeue
  <2>1. pc'["rotator"] \in {"rotate", "close"}
    BY <1>3, DequeueEffect
  <2> QED BY <2>1 DEF NameTaken
<1>4. CASE Retain \/ AddToCache
  <2>1. pc'["rotator"] \in {"compute", "retain"}
    BY <1>4 DEF Retain, AddToCache
  <2> QED BY <2>1 DEF NameTaken
<1>5. CASE LinkFails
  <2>1. UNCHANGED dir /\ pc'["rotator"] = "fallback" /\ name' \in RotatedNames /\ ~Exists(name')
    BY <1>5, Living DEF LinkFails, FreeNames
  <2> QED BY <2>1, NameFacts DEF NameTaken, Exists
<1>6. CASE LinkBase
  <2>1. UNCHANGED <<msg, cache>> /\ pc["rotator"] = "link" /\ pc'["rotator"] = "rename"
    BY <1>6 DEF LinkBase
  <2>2. name' \in RotatedNames /\ dir[name'] = NoFile /\ Leads(name', dir[Base])
    BY <1>6, LinkEffect
  <2>3. dir'[name'] = msg.fd
    BY <2>1, <2>2, NameFacts, Living DEF Leads, BaseLeads, LeadsHandled
  <2>4. name' \notin NamesIn(cache)
    BY <2>2, Living, NotListed
  <2>5. NamesIn(cache)' = NamesIn(cache)
    BY <2>1 DEF NamesIn
  <2> QED BY <2>1, <2>3, <2>4, <2>5 DEF NameTaken
<1>7. CASE LinkCollides
  <2>1. pc'["rotator"] = "link"
    BY <1>7 DEF LinkCollides, Alive
  <2> QED BY <2>1 DEF NameTaken
<1>8. CASE RenameBase
  <2>1. UNCHANGED <<msg, name, cache>> /\ pc["rotator"] = "fallback" /\ pc'["rotator"] = "rename"
    BY <1>8 DEF RenameBase
  <2>2. name \in RotatedNames /\ dir[name] = NoFile
    BY <2>1, NameThere, Living DEF BaseLeads, NameTaken
  <2>3. dir'[name] = msg.fd
    BY <1>8, <2>1, <2>2, RenameEffect, NameFacts, Living DEF BaseLeads, LeadsHandled
  <2>4. name \notin NamesIn(cache)
    BY <2>2, Living, NotListed
  <2>5. NamesIn(cache)' = NamesIn(cache)
    BY <2>1 DEF NamesIn
  <2> QED BY <2>1, <2>3, <2>4, <2>5 DEF NameTaken
<1>9. CASE RenameTemp
  <2>1. UNCHANGED <<msg, name, cache>> /\ pc["rotator"] = "rename" /\ pc'["rotator"] = "stat"
    BY <1>9 DEF RenameTemp
  <2>2. name \in RotatedNames /\ dir[name] = msg.fd /\ name \notin NamesIn(cache)
    BY <2>1, NameThere, Living DEF BaseLeads, NameTaken
  <2>3. dir'[name] = dir[name]
    BY <1>9, <2>2, RenameEffect, NameFacts
  <2>4. NamesIn(cache)' = NamesIn(cache)
    BY <2>1 DEF NamesIn
  <2> QED BY <2>1, <2>2, <2>3, <2>4 DEF NameTaken
<1>10. CASE Write
  <2>1. /\ UNCHANGED <<name, cache>>
        /\ pc'["rotator"] \in {"fallback", "rename", "stat"} => UNCHANGED <<pc["rotator"], msg>>
    BY <1>10 DEF Write, StartPreparing, AfterPrepare
  <2>2. \A r \in RotatedNames : dir'[r] = dir[r]
    BY <1>10 DEF Write, StartPreparing, AfterPrepare
  <2> QED BY <2>1, <2>2, Living, NameThere DEF BaseLeads, NameTaken, NamesIn
<1>11. CASE Drain \/ JoinRotator \/ RenameFails
  BY <1>11, Living
<1>12. CASE TrackHandle \/ TimePasses \/ CheckRotation \/ TakeNextFd \/ SwapFd
  <2>1. /\ UNCHANGED <<name, cache>>
        /\ pc'["rotator"] \in {"fallback", "rename", "stat"} => UNCHANGED <<pc["rotator"], msg>>
    BY <1>12 DEF TrackHandle, TimePasses, CheckRotation, TakeNextFd, SwapFd, StartPreparing,
       AfterPrepare
  <2>2. \A r \in RotatedNames : dir'[r] = dir[r]
    BY <1>12, UnmovedSteps DEF Unmoved
  <2> QED BY <2>1, <2>2, Living, NameThere DEF BaseLeads, NameTaken, NamesIn
<1>13. CASE Unready \/ NotifyRotator \/ WaitForNextFd \/ CheckErrorState
  <2>1. /\ UNCHANGED <<name, cache>>
        /\ pc'["rotator"] \in {"fallback", "rename", "stat"} => UNCHANGED <<pc["rotator"], msg>>
    BY <1>13 DEF Unready, NotifyRotator, WaitForNextFd, CheckErrorState, StartPreparing,
       AfterPrepare
  <2>2. \A r \in RotatedNames : dir'[r] = dir[r]
    BY <1>13, UnmovedSteps DEF Unmoved
  <2> QED BY <2>1, <2>2, Living, NameThere DEF BaseLeads, NameTaken, NamesIn
<1>14. CASE CloseHandle \/ DestroyHandle \/
          (\E t \in {"writer", "rotator"} : OpenTemp(t)) \/
          (\E t \in {"writer", "rotator"} : PublishTemp(t))
  <2>1. /\ UNCHANGED <<name, cache>>
        /\ pc'["rotator"] \in {"fallback", "rename", "stat"} => UNCHANGED <<pc["rotator"], msg>>
    BY <1>14 DEF CloseHandle, DestroyHandle, OpenTemp, PublishTemp, StartPreparing, AfterPrepare
  <2>2. \A r \in RotatedNames : dir'[r] = dir[r]
    BY <1>14, UnmovedSteps DEF Unmoved
  <2> QED BY <2>1, <2>2, Living, NameThere DEF BaseLeads, NameTaken, NamesIn
<1>15. CASE (\E t \in {"writer", "rotator"} : SignalNextFd(t)) \/
          (\E t \in {"writer", "rotator"} : GiveUpPreparing(t)) \/ CheckRunning \/
          HandleClose
  <2>1. /\ UNCHANGED <<name, cache>>
        /\ pc'["rotator"] \in {"fallback", "rename", "stat"} => UNCHANGED <<pc["rotator"], msg>>
    BY <1>15 DEF SignalNextFd, GiveUpPreparing, CheckRunning, HandleClose, StartPreparing,
       AfterPrepare
  <2>2. \A r \in RotatedNames : dir'[r] = dir[r]
    BY <1>15, UnmovedSteps DEF Unmoved
  <2> QED BY <2>1, <2>2, Living, NameThere DEF BaseLeads, NameTaken, NamesIn
<1>16. CASE CloseOld \/ ComputeNextTime \/ ClearRunning \/ EnqueueShutdown
  <2>1. /\ UNCHANGED <<name, cache>>
        /\ pc'["rotator"] \in {"fallback", "rename", "stat"} => UNCHANGED <<pc["rotator"], msg>>
    BY <1>16 DEF CloseOld, ComputeNextTime, ClearRunning, EnqueueShutdown, StartPreparing,
       AfterPrepare
  <2>2. \A r \in RotatedNames : dir'[r] = dir[r]
    BY <1>16, UnmovedSteps DEF Unmoved
  <2> QED BY <2>1, <2>2, Living, NameThere DEF BaseLeads, NameTaken, NamesIn
<1>17. CASE UNCHANGED vars
  <2>1. UNCHANGED <<dir, msg, name, cache, pc>>
    BY <1>17
  <2> QED BY <2>1, Living DEF BaseLeads, NameTaken, NamesIn
<1> QED BY <1>1, <1>2, <1>3, <1>4, <1>5, <1>6, <1>7, <1>8, <1>9, <1>10, <1>11, <1>12, <1>13, <1>14,
       <1>15, <1>16, <1>17, NextCases

LEMMA NotInUseSame ==
    ASSUME NotInUse, \A r \in RotatedNames : dir'[r] \in {NoFile, dir[r]},
           {current_fd_', next_fd_', new_fd'} \subseteq {current_fd_, next_fd_, new_fd, NoFile},
           pc'["writer"] # "open" => pc["writer"] # "open"
    PROVE  NotInUse'
  BY DEF NotInUse

(* The first file is newer than all of an earlier process's.                 *)
LEMMA OpenFacts ==
    ASSUME Inv, Open
    PROVE  /\ current_fd_' = OldFiles + 1
           /\ \A r \in RotatedNames : dir'[r] = dir[r] /\ dir[r] \in Nat /\ dir[r] <= OldFiles
           /\ \A r, s \in RotatedNames : dir[r] # NoFile /\ dir[r] = dir[s] => r = s
           /\ \A r \in RotatedNames : dir[r] # NoFile => LinesIn(dir[r]) # {}
           /\ next_fd_ = NoFd /\ new_fd = NoFd /\ UNCHANGED <<where, next_fd_, new_fd>>
<1>1. /\ \/ Exists(Base) /\ dir' = dir /\ current_fd_' = dir[Base]
         \/ ~Exists(Base) /\ Leads(Base, files + 1) /\ current_fd_' = files + 1
      /\ pc["writer"] = "open" /\ UNCHANGED <<where, next_fd_, new_fd>>
  BY OpenEffect DEF Inv, Open, writerLocals
<1>2. PICK b \in {0, 1} :
         /\ files = OldFiles + b
         /\ dir = [n \in Names |->
                     IF n \in RotatedNames /\ n[2] <= OldFiles THEN n[2]
                     ELSE IF n = Base /\ b = 1 THEN OldFiles + 1 ELSE NoFile]
         /\ where = [n \in 1 .. OldFiles + b |-> n]
  BY <1>1 DEF Inv, Untouched
<1>3. next_fd_ = NoFd /\ new_fd = NoFd
  BY <1>1 DEF Inv, Untouched
<1>4. dir[Base] = IF b = 1 THEN OldFiles + 1 ELSE NoFile
  BY <1>2, NameFacts
<1>5. current_fd_' = OldFiles + 1
  BY <1>1, <1>2, <1>4, NameFacts, Constants DEF Exists, NoFile, Base, NoName
<1>6. \A r \in RotatedNames : r[2] \in Nat \ {0} /\ r = <<"rotated", r[2]>>
  BY DEF RotatedNames
<1>7. ASSUME NEW r \in RotatedNames
      PROVE  /\ dir'[r] = dir[r] /\ dir[r] \in Nat /\ dir[r] <= OldFiles
             /\ dir[r] # NoFile => dir[r] = r[2] /\ LinesIn(dir[r]) # {}
  <2>1. dir'[r] = dir[r]
    BY <1>1, NameFacts DEF Leads
  <2>2. dir[r] = IF r[2] <= OldFiles THEN r[2] ELSE NoFile
    BY <1>2, NameFacts
  <2>3. dir[r] \in Nat /\ dir[r] <= OldFiles
    BY <2>2, <1>6, Constants DEF NoFile
  <2>4. ASSUME dir[r] # NoFile PROVE dir[r] = r[2] /\ LinesIn(dir[r]) # {}
    <3>1. r[2] \in 1 .. OldFiles + b /\ dir[r] = r[2]
      BY <2>2, <2>4, <1>6, Constants
    <3>2. r[2] \in DOMAIN where /\ where[r[2]] = r[2]
      BY <3>1, <1>2
    <3> QED BY <3>1, <3>2 DEF LinesIn
  <2> QED BY <2>1, <2>3, <2>4
<1>8. \A r, s \in RotatedNames : dir[r] # NoFile /\ dir[r] = dir[s] => r = s
  BY <1>6, <1>7
<1> QED BY <1>1, <1>3, <1>5, <1>7, <1>8

LEMMA NotInUseStep == ASSUME Inv, [Next]_vars, Alive' PROVE NotInUse'
<1> USE DEF vars, fsVars, fdVars, handleVars, serviceVars, rotateLocals, prepareLocals,
             writerLocals, outsideWriter, outsideRotator, outsidePrepare, rotating,
             outsideOwner, Goto, Inv, Types, Token, PcTypes, Threads, WriterLabels,
             RotatorLabels, OwnerLabels
<1>1. CASE Open
  <2>1. /\ current_fd_' = OldFiles + 1 /\ next_fd_' = NoFd /\ new_fd' = NoFd
        /\ \A r \in RotatedNames : dir'[r] = dir[r] /\ dir[r] \in Nat /\ dir[r] <= OldFiles
    BY <1>1, OpenFacts
  <2> QED BY <2>1, Constants DEF NotInUse, NoFile, NoFd
<1>2. CASE \E t \in {"writer", "rotator"} : OpenTemp(t)
  <2>1. PICK t \in {"writer", "rotator"} : OpenTemp(t)
    BY <1>2
  <2>2. /\ next_fd_' = files + 1 /\ pc[t] = "prepare" /\ Goto(t, "publish")
        /\ UNCHANGED <<current_fd_, new_fd>> /\ files \in Nat
    BY <2>1, OpenTempEffect DEF FileTypes
  <2>3. pc["writer"] # "open"
    BY <2>2 DEF Service, Handled, Starting, Rotating
  <2>4. \A r \in RotatedNames : dir'[r] = dir[r] /\ dir[r] \in Nat /\ dir[r] <= files
    BY <1>2, UnmovedSteps, NameFacts DEF Unmoved, FileTypes
  <2> QED BY <2>2, <2>3, <2>4, Living DEF NotInUse
<1>3. CASE TakeNextFd
  <2>1. UNCHANGED <<dir, current_fd_>> /\ pc["writer"] = "next"
        /\ {next_fd_', new_fd'} \subseteq {next_fd_, new_fd, NoFile}
    BY <1>3 DEF TakeNextFd, NoFd, NoFile
  <2> QED BY <2>1, Living, NotInUseSame
<1>4. CASE SwapFd
  <2>1. UNCHANGED <<dir, next_fd_, new_fd>> /\ pc["writer"] = "swap" /\ current_fd_' = new_fd
    BY <1>4 DEF SwapFd
  <2> QED BY <2>1, Living, NotInUseSame
<1>5. CASE LinkBase \/ RenameBase
  <2>1. /\ UNCHANGED <<current_fd_, next_fd_, new_fd, pc["writer"]>>
        /\ pc["rotator"] \in {"link", "fallback"}
    BY <1>5 DEF LinkBase, RenameBase
  <2>2. \A r \in RotatedNames : dir'[r] \in {dir[r], dir[Base]}
    <3>1. LinkBase => \A r \in RotatedNames : dir'[r] \in {dir[r], dir[Base]}
      BY LinkEffect, NameFacts DEF Leads
    <3>2. RenameBase => \A r \in RotatedNames : dir'[r] \in {dir[r], dir[Base]}
      BY RenameEffect, NameFacts
    <3> QED BY <3>1, <3>2, <1>5
  <2>3. dir[Base] = msg.fd /\ msg.fd < current_fd_ /\ msg.fd \in 1 .. files /\ files \in Nat
        /\ current_fd_ \in Nat
    <3>1. dir[Base] = msg.fd
      BY <2>1, Living DEF BaseLeads, LeadsHandled
    <3>2. msg.fd < current_fd_ /\ msg # NoMsg
      BY <2>1 DEF Ordered, Ascending, Rotating, Renaming, Service, Handled
    <3> QED BY <3>1, <3>2 DEF MessageTypes, FileTypes
  <2>4. next_fd_ = NoFd /\ new_fd \in {NoFd, current_fd_}
    BY <2>1 DEF Exclusive, Prepared, Swapping, Rotating, Renaming, Ordered, Ascending
  <2>5. dir[Base] \notin {current_fd_, next_fd_, new_fd}
    BY <2>3, <2>4 DEF NoFd
  <2>6. \A r \in RotatedNames : dir[r] # NoFile => dir[r] \notin {current_fd_, next_fd_, new_fd}
    <3>1. pc["writer"] # "open"
      BY <2>1 DEF Service, Handled, Starting
    <3> QED BY <3>1, Living DEF NotInUse
  <2> QED BY <2>1, <2>2, <2>5, <2>6 DEF NotInUse
<1>6. CASE LinkCollides
  <2>1. UNCHANGED <<current_fd_, next_fd_, new_fd, pc["writer"]>> /\ pc["rotator"] = "link"
    BY <1>6 DEF LinkCollides
  <2>2. \A r \in RotatedNames : dir'[r] \in {dir[r], files + 1}
    BY <1>6, LinkEffect, NameFacts DEF Leads
  <2>3. files + 1 \notin {current_fd_, next_fd_, new_fd}
    BY DEF FileTypes
  <2>4. pc["writer"] # "open"
    BY <2>1 DEF Service, Handled, Starting
  <2>5. \A r \in RotatedNames : dir[r] # NoFile => dir[r] \notin {current_fd_, next_fd_, new_fd}
    BY <2>4, Living DEF NotInUse
  <2> QED BY <2>1, <2>2, <2>3, <2>5 DEF NotInUse
<1>7. CASE RenameTemp
  <2>1. UNCHANGED <<current_fd_, next_fd_, new_fd>>
    BY <1>7 DEF RenameTemp, StartPreparing, AfterPrepare
  <2>2. \A r \in RotatedNames : dir'[r] = dir[r]
    BY <1>7, RenameEffect, NameFacts
  <2>3. pc'["writer"] # "open" => pc["writer"] # "open"
    BY <1>7 DEF RenameTemp, StartPreparing, AfterPrepare
  <2> QED BY <2>1, <2>2, <2>3, Living, NotInUseSame
<1>8. CASE Write \/ AddToCache
  <2>1. UNCHANGED <<current_fd_, next_fd_, new_fd>>
    BY <1>8 DEF Write, AddToCache, StartPreparing, AfterPrepare
  <2>2. \A r \in RotatedNames : dir'[r] = dir[r]
    BY <1>8 DEF Write, AddToCache, StartPreparing, AfterPrepare
  <2>3. pc'["writer"] # "open" => pc["writer"] # "open"
    BY <1>8 DEF Write, AddToCache, StartPreparing, AfterPrepare
  <2> QED BY <2>1, <2>2, <2>3, Living, NotInUseSame
<1>9. CASE RetainAtOpen \/ Retain \/ (\E t \in {"writer", "rotator"} : OpenTempFails(t))
  <2>1. UNCHANGED <<current_fd_, next_fd_, new_fd>>
    BY <1>9 DEF RetainAtOpen, Retain, OpenTempFails, StartPreparing, AfterPrepare
  <2>2. \A r \in RotatedNames : dir'[r] \in {NoFile, dir[r]}
    BY <1>9, ForgetEffect, NameFacts
  <2>3. pc'["writer"] # "open" => pc["writer"] # "open"
    BY <1>9 DEF RetainAtOpen, Retain, OpenTempFails, StartPreparing, AfterPrepare
  <2> QED BY <2>1, <2>2, <2>3, Living, NotInUseSame
<1>10. CASE Drain \/ JoinRotator \/ RenameFails
  BY <1>10, Living
<1>11. CASE TrackHandle \/ TimePasses \/ CheckRotation \/ Unready \/ NotifyRotator
  <2>1. UNCHANGED <<current_fd_, next_fd_, new_fd>>
    BY <1>11 DEF TrackHandle, TimePasses, CheckRotation, Unready, NotifyRotator, StartPreparing,
         AfterPrepare
  <2>2. \A r \in RotatedNames : dir'[r] = dir[r]
    BY <1>11, UnmovedSteps DEF Unmoved
  <2>3. pc'["writer"] # "open" => pc["writer"] # "open"
    BY <1>11 DEF TrackHandle, TimePasses, CheckRotation, Unready, NotifyRotator, StartPreparing,
         AfterPrepare
  <2> QED BY <2>1, <2>2, <2>3, Living, NotInUseSame
<1>12. CASE WaitForNextFd \/ CheckErrorState \/ CloseHandle \/ DestroyHandle
  <2>1. UNCHANGED <<current_fd_, next_fd_, new_fd>>
    BY <1>12 DEF WaitForNextFd, CheckErrorState, CloseHandle, DestroyHandle, StartPreparing,
       AfterPrepare
  <2>2. \A r \in RotatedNames : dir'[r] = dir[r]
    BY <1>12, UnmovedSteps DEF Unmoved
  <2>3. pc'["writer"] # "open" => pc["writer"] # "open"
    BY <1>12 DEF WaitForNextFd, CheckErrorState, CloseHandle, DestroyHandle, StartPreparing,
       AfterPrepare
  <2> QED BY <2>1, <2>2, <2>3, Living, NotInUseSame
<1>13. CASE (\E t \in {"writer", "rotator"} : PublishTemp(t)) \/
          (\E t \in {"writer", "rotator"} : SignalNextFd(t)) \/
          (\E t \in {"writer", "rotator"} : GiveUpPreparing(t)) \/ CheckRunning
  <2>1. UNCHANGED <<current_fd_, next_fd_, new_fd>>
    BY <1>13 DEF PublishTemp, SignalNextFd, GiveUpPreparing, CheckRunning, StartPreparing,
       AfterPrepare
  <2>2. \A r \in RotatedNames : dir'[r] = dir[r]
    BY <1>13, UnmovedSteps DEF Unmoved
  <2>3. pc'["writer"] # "open" => pc["writer"] # "open"
    BY <1>13 DEF PublishTemp, SignalNextFd, GiveUpPreparing, CheckRunning, StartPreparing,
       AfterPrepare
  <2> QED BY <2>1, <2>2, <2>3, Living, NotInUseSame
<1>14. CASE Dequeue \/ HandleClose \/ CloseOld \/ LinkFails
  <2>1. UNCHANGED <<current_fd_, next_fd_, new_fd>>
    BY <1>14 DEF Dequeue, HandleClose, CloseOld, LinkFails, StartPreparing, AfterPrepare
  <2>2. \A r \in RotatedNames : dir'[r] = dir[r]
    BY <1>14, UnmovedSteps DEF Unmoved
  <2>3. pc'["writer"] # "open" => pc["writer"] # "open"
    BY <1>14 DEF Dequeue, HandleClose, CloseOld, LinkFails, StartPreparing, AfterPrepare
  <2> QED BY <2>1, <2>2, <2>3, Living, NotInUseSame
<1>15. CASE ComputeNextTime \/ ClearRunning \/ EnqueueShutdown
  <2>1. UNCHANGED <<current_fd_, next_fd_, new_fd>>
    BY <1>15 DEF ComputeNextTime, ClearRunning, EnqueueShutdown, StartPreparing, AfterPrepare
  <2>2. \A r \in RotatedNames : dir'[r] = dir[r]
    BY <1>15, UnmovedSteps DEF Unmoved
  <2>3. pc'["writer"] # "open" => pc["writer"] # "open"
    BY <1>15 DEF ComputeNextTime, ClearRunning, EnqueueShutdown, StartPreparing, AfterPrepare
  <2> QED BY <2>1, <2>2, <2>3, Living, NotInUseSame
<1>16. CASE UNCHANGED vars
  <2>1. UNCHANGED <<current_fd_, next_fd_, new_fd, dir, pc>>
    BY <1>16
  <2> QED BY <2>1, Living, NotInUseSame
<1> QED BY <1>1, <1>2, <1>3, <1>4, <1>5, <1>6, <1>7, <1>8, <1>9, <1>10, <1>11, <1>12, <1>13, <1>14,
       <1>15, <1>16, NextCases

LEMMA ListedSame ==
    ASSUME Listed, UNCHANGED <<cache, where>>,
           \A i \in DOMAIN cache : dir'[cache[i].name] = dir[cache[i].name],
           Types, current_fd_ <= current_fd_', current_fd_' \in Nat
    PROVE  Listed'
<1> SUFFICES ASSUME NEW i \in DOMAIN cache
             PROVE  /\ cache[i].stamp \in DOMAIN where
                    /\ where[cache[i].stamp] = dir'[cache[i].name]
                    /\ dir'[cache[i].name] < current_fd_'
  BY DEF Listed
<1>1. /\ cache[i].stamp \in DOMAIN where /\ where[cache[i].stamp] = dir[cache[i].name]
      /\ dir[cache[i].name] < current_fd_ /\ dir'[cache[i].name] = dir[cache[i].name]
  BY DEF Listed
<1>2. where[cache[i].stamp] \in Nat /\ current_fd_ \in Nat
  BY <1>1 DEF Types, FileTypes
<1> QED BY <1>1, <1>2

LEMMA CacheNames == ASSUME Types, NEW i \in DOMAIN cache PROVE cache[i].name \in RotatedNames
<1>1. cache \in Seq(Entries)
  BY DEF Types, NameTypes
<1>2. cache[i] \in Entries
  BY <1>1
<1> QED BY <1>2 DEF Entries

(* What stays listed stays in the directory.                                 *)
LEMMA KeptNames ==
    ASSUME Types, InOrder,
           RetainAtOpen \/ Retain \/ (\E t \in {"writer", "rotator"} : OpenTempFails(t))
    PROVE  /\ \A j \in DOMAIN cache' : \E i \in DOMAIN cache :
                cache'[j] = cache[i] /\ dir'[cache[i].name] = dir[cache[i].name]
           /\ InOrder'
           /\ \A r \in RotatedNames : dir'[r] # NoFile =>
                dir'[r] = dir[r] /\ (r \in NamesIn(cache) => r \in NamesIn(cache)')
<1>1. Forgets \/ UNCHANGED <<cache, dir>>
  BY ForgetEffect
<1>2. CASE UNCHANGED <<cache, dir>>
  BY <1>2 DEF InOrder, NamesIn
<1>3. CASE Forgets
  <2>1. PICK g : Chosen(g)
    BY <1>3 DEF Forgets
  <2>2. PICK X : Unlinked(X)
    BY <1>3 DEF Forgets
  <2>3. /\ cache \in Seq(Entries) /\ cache' \in Seq(Entries)
        /\ DOMAIN cache = 1 .. Len(cache) /\ DOMAIN cache' = 1 .. Len(cache')
    BY <1>3 DEF Forgets, Types, NameTypes
  <2>4. \A j \in DOMAIN cache' : g[j] \in DOMAIN cache /\ cache'[j] = cache[g[j]]
    BY <2>1, <2>3 DEF Chosen
  <2>5. \A i, j \in DOMAIN cache' : g[i] = g[j] => i = j
    BY <2>1, <2>3 DEF Chosen
  <2>6. Len(cache) \in Nat /\ Len(cache') \in Nat /\ \A i \in DOMAIN cache : cache[i].stamp \in Nat
    <3>1. Len(cache) \in Nat /\ Len(cache') \in Nat /\ \A i \in DOMAIN cache : cache[i] \in Entries
      BY <2>3
    <3> QED BY <3>1 DEF Entries
  <2>7. \A i, j \in 1 .. Len(cache) : cache[i].name = cache[j].name => i = j
    <3> SUFFICES ASSUME NEW i \in 1 .. Len(cache), NEW j \in 1 .. Len(cache), i # j
                 PROVE  cache[i].name # cache[j].name
      OBVIOUS
    <3>1. i < j \/ j < i
      BY <2>6
    <3> QED BY <2>3, <3>1 DEF InOrder
  <2>8. X \cap NamesIn(cache') = {} /\ dir' = Unlink(dir, X) /\ X \cup NamesIn(cache') = NamesIn(cache)
    BY <2>2, <2>7 DEF Unlinked
  <2>9. \A r \in RotatedNames : dir'[r] = IF r \in X THEN NoFile ELSE dir[r]
    <3>1. \A r \in RotatedNames : r \in DOMAIN dir
      BY NameFacts DEF Types, FileTypes
    <3> QED BY <2>8, <3>1, UnlinkFacts
  <2>10. ASSUME NEW j \in DOMAIN cache'
         PROVE  cache'[j] = cache[g[j]] /\ dir'[cache[g[j]].name] = dir[cache[g[j]].name]
    <3>1. cache'[j].name \in NamesIn(cache') /\ cache'[j] = cache[g[j]]
      BY <2>4 DEF NamesIn
    <3>2. cache[g[j]].name \in RotatedNames /\ cache[g[j]].name \notin X
      BY <3>1, <2>4, <2>8, CacheNames
    <3> QED BY <3>1, <3>2, <2>9
  <2>11. Sorted(cache)
    BY <2>6, <2>3 DEF Sorted, InOrder
  <2>12. Sorted(cache')
    BY <1>3, <2>11 DEF Forgets
  <2>13. ASSUME NEW i \in DOMAIN cache', NEW j \in DOMAIN cache', i < j
         PROVE  cache'[i].stamp < cache'[j].stamp /\ cache'[i].name # cache'[j].name
    <3>1. cache'[i].stamp <= cache'[j].stamp
      BY <2>12, <2>13 DEF Sorted
    <3>2. i # j
      BY <2>13, <2>3, <2>6
    <3>3. g[i] # g[j] /\ g[i] \in DOMAIN cache /\ g[j] \in DOMAIN cache
      BY <3>2, <2>4, <2>5
    <3>4. g[i] < g[j] \/ g[j] < g[i]
      BY <3>3, <2>3, <2>6
    <3>5. cache[g[i]].stamp # cache[g[j]].stamp /\ cache[g[i]].name # cache[g[j]].name
      BY <3>3, <3>4, <2>6 DEF InOrder
    <3> QED BY <3>1, <3>3, <3>5, <2>4, <2>6
  <2>14. InOrder'
    BY <2>13 DEF InOrder
  <2>15. \A r \in RotatedNames : dir'[r] # NoFile =>
           dir'[r] = dir[r] /\ (r \in NamesIn(cache) => r \in NamesIn(cache)')
    BY <2>8, <2>9 DEF NamesIn
  <2> QED BY <2>4, <2>10, <2>14, <2>15
<1> QED BY <1>1, <1>2, <1>3

(* The file being renamed is as old as its last line.                        *)
LEMMA Added ==
    ASSUME Inv, AddToCache, Alive, BaseLeads
    PROVE  /\ \/ UNCHANGED cache /\ dir[name] = NoFile
              \/ cache' = Append(cache, Entry(name)) /\ dir[name] # NoFile
           /\ UNCHANGED <<dir, where, current_fd_>> /\ pc["rotator"] = "stat" /\ Goto("rotator", "retain")
           /\ name \in RotatedNames /\ dir[name] = msg.fd /\ msg.fd < current_fd_
           /\ name \notin NamesIn(cache)
           /\ Entry(name) \in Entries /\ Entry(name).name = name
           /\ Entry(name).stamp \in DOMAIN where /\ where[Entry(name).stamp] = msg.fd
<1>1. /\ cache' = IF Exists(name) THEN Append(cache, Entry(name)) ELSE cache
      /\ UNCHANGED <<dir, where, current_fd_>> /\ pc["rotator"] = "stat" /\ Goto("rotator", "retain")
  BY DEF AddToCache, rotating, outsideRotator
<1>2. name \in RotatedNames
  BY <1>1, NameThere
<1>3. dir[name] = msg.fd /\ name \notin NamesIn(cache)
  BY <1>1 DEF BaseLeads, NameTaken
<1>4. msg.fd < current_fd_ /\ LinesIn(msg.fd) # {}
  BY <1>1 DEF Inv, Ordered, Ascending, Rotating, Written, Used
<1>5. where \in Seq(Nat)
  BY DEF Inv, Types, FileTypes
<1>6. Entry(name) \in Entries /\ Entry(name).name = name /\ Entry(name).stamp = Stamp(msg.fd)
  BY <1>2, <1>3, <1>5, EntryFacts
<1>7. Stamp(msg.fd) \in DOMAIN where /\ where[Stamp(msg.fd)] = msg.fd
  BY <1>4, <1>5, StampFacts
<1> QED BY <1>1, <1>2, <1>3, <1>4, <1>6, <1>7, NameFacts DEF Exists

LEMMA AddedPlaces ==
    ASSUME cache \in Seq(Entries), NEW e \in Entries, cache' = Append(cache, e)
    PROVE  /\ Len(cache) \in Nat /\ DOMAIN cache = 1 .. Len(cache)
           /\ DOMAIN cache' = DOMAIN cache \cup {Len(cache) + 1}
           /\ cache'[Len(cache) + 1] = e /\ \A i \in DOMAIN cache : cache'[i] = cache[i]
<1>1. /\ cache' \in Seq(Entries) /\ Len(cache') = Len(cache) + 1 /\ Len(cache) \in Nat
      /\ cache'[Len(cache) + 1] = e /\ \A i \in 1 .. Len(cache) : cache'[i] = cache[i]
      /\ DOMAIN cache = 1 .. Len(cache)
  BY AppendProperties
<1>2. DOMAIN cache' = 1 .. Len(cache) + 1
  BY <1>1
<1> QED BY <1>1, <1>2

(* What Open puts into the cache.                                            *)
LEMMA ScannedFacts ==
    ASSUME Inv, Open
    PROVE  /\ Listed' /\ InOrder'
           /\ \A r \in RotatedNames : dir'[r] # NoFile => r \in NamesIn(cache)'
<1>1. /\ current_fd_' = OldFiles + 1 /\ UNCHANGED where
      /\ \A r \in RotatedNames : dir'[r] = dir[r] /\ dir[r] \in Nat /\ dir[r] <= OldFiles
      /\ \A r, s \in RotatedNames : dir[r] # NoFile /\ dir[r] = dir[s] => r = s
      /\ \A r \in RotatedNames : dir[r] # NoFile => LinesIn(dir[r]) # {}
  BY OpenFacts
<1>2. /\ cache' \in Seq(Entries) /\ Sorted(cache')
      /\ \A i \in DOMAIN cache' : cache'[i].name \in Present /\ cache'[i] = Entry(cache'[i].name)
      /\ \A i, j \in DOMAIN cache' : cache'[i].name = cache'[j].name => i = j
      /\ \A n \in Present : \E i \in DOMAIN cache' : cache'[i].name = n
  BY ScanEffect DEF Inv
<1>3. where \in Seq(Nat)
  BY DEF Inv, Types, FileTypes
<1>4. ASSUME NEW i \in DOMAIN cache'
      PROVE  /\ cache'[i].name \in RotatedNames /\ dir[cache'[i].name] # NoFile
             /\ cache'[i].stamp \in DOMAIN where /\ cache'[i].stamp \in Nat
             /\ where[cache'[i].stamp] = dir[cache'[i].name]
  <2>1. cache'[i].name \in RotatedNames /\ dir[cache'[i].name] # NoFile
    BY <1>2 DEF Present, Exists
  <2>2. cache'[i].stamp = Stamp(dir[cache'[i].name])
    BY <1>2, <1>3, <2>1, EntryFacts
  <2> QED BY <2>1, <2>2, <1>1, <1>3, StampFacts
<1>5. Listed'
  BY <1>1, <1>4, Constants DEF Listed
<1>6. ASSUME NEW i \in DOMAIN cache', NEW j \in DOMAIN cache', i < j
      PROVE  cache'[i].stamp < cache'[j].stamp /\ cache'[i].name # cache'[j].name
  <2>1. i # j
    BY <1>2, <1>6
  <2>2. cache'[i].name # cache'[j].name
    BY <2>1, <1>2
  <2>3. cache'[i].stamp # cache'[j].stamp
    BY <2>2, <1>1, <1>4
  <2>4. cache'[i].stamp <= cache'[j].stamp
    BY <1>2, <1>6 DEF Sorted
  <2> QED BY <2>2, <2>3, <2>4, <1>4
<1>7. \A r \in RotatedNames : dir'[r] # NoFile => r \in NamesIn(cache)'
  BY <1>1, <1>2, NameFacts DEF Present, Exists, NamesIn
<1> QED BY <1>5, <1>6, <1>7 DEF InOrder

LEMMA ListedStep == ASSUME Inv, [Next]_vars, Alive' PROVE Listed'
<1> USE DEF vars, fsVars, fdVars, handleVars, serviceVars, rotateLocals, prepareLocals,
             writerLocals, outsideWriter, outsideRotator, outsidePrepare, rotating,
             outsideOwner, Goto, Inv, Types, Token, PcTypes, Threads, WriterLabels,
             RotatorLabels, OwnerLabels
<1>1. CASE Open
  BY <1>1, ScannedFacts
<1>2. CASE Write
  <2>1. UNCHANGED <<dir, cache, current_fd_>> /\ where' = Append(where, current_fd_)
    BY <1>2 DEF Write
  <2>2. \A i \in DOMAIN where : i \in DOMAIN where' /\ where'[i] = where[i]
    BY <2>1, WriteFacts DEF FileTypes
  <2> QED BY <2>1, <2>2, Living DEF Listed
<1>3. CASE SwapFd
  <2>1. UNCHANGED <<dir, cache, where>> /\ pc["writer"] = "swap" /\ current_fd_' = new_fd
    BY <1>3 DEF SwapFd
  <2>2. current_fd_ <= current_fd_' /\ current_fd_' \in Nat
    BY <2>1 DEF Ordered, Ascending, FileTypes
  <2> QED BY <2>1, <2>2, Living, ListedSame
<1>4. CASE AddToCache
  <2> DEFINE e == Entry(name)
  <2>1. /\ UNCHANGED cache \/ cache' = Append(cache, e)
        /\ UNCHANGED <<dir, where, current_fd_>> /\ e \in Entries /\ e.name = name
        /\ e.stamp \in DOMAIN where /\ where[e.stamp] = dir[name] /\ dir[name] < current_fd_
    BY <1>4, Living, Added
  <2> HIDE DEF e
  <2>2. CASE UNCHANGED cache
    BY <2>1, <2>2, Living DEF Listed
  <2>3. CASE cache' = Append(cache, e)
    <3>1. /\ DOMAIN cache' = DOMAIN cache \cup {Len(cache) + 1}
          /\ cache'[Len(cache) + 1] = e /\ \A i \in DOMAIN cache : cache'[i] = cache[i]
      BY <2>1, <2>3, AddedPlaces DEF NameTypes
    <3> QED BY <2>1, <3>1, Living DEF Listed
  <2> QED BY <2>1, <2>2, <2>3
<1>5. CASE LinkBase \/ LinkCollides \/ RenameBase
  <2>1. UNCHANGED <<cache, where, current_fd_>>
    BY <1>5 DEF LinkBase, LinkCollides, RenameBase, StartPreparing, AfterPrepare
  <2>2. \A i \in DOMAIN cache : dir'[cache[i].name] = dir[cache[i].name]
    <3> SUFFICES ASSUME NEW i \in DOMAIN cache PROVE dir'[cache[i].name] = dir[cache[i].name]
      OBVIOUS
    <3>1. cache[i].name \in NamesIn(cache) /\ cache[i].name \in RotatedNames
      BY CacheNames DEF NamesIn
    <3>2. LinkBase \/ LinkCollides => cache[i].name # name'
      BY <3>1, LinkEffect, NotListed, Living
    <3>3. RenameBase => cache[i].name # name
      <4>1. RenameBase => pc["rotator"] = "fallback"
        BY DEF RenameBase
      <4>2. RenameBase => dir[name] = NoFile
        BY <4>1, Living DEF BaseLeads, NameTaken
      <4> QED BY <4>2, <3>1, NotListed, Living
    <3>4. LinkBase \/ LinkCollides => dir'[cache[i].name] = dir[cache[i].name]
      BY <3>1, <3>2, LinkEffect, NameFacts DEF Leads
    <3>5. RenameBase => dir'[cache[i].name] = dir[cache[i].name]
      BY <3>1, <3>3, RenameEffect, NameFacts
    <3> QED BY <1>5, <3>4, <3>5
  <2>3. current_fd_ \in Nat
    BY DEF FileTypes
  <2> QED BY <2>1, <2>2, <2>3, CacheNames, Living, ListedSame
<1>6. CASE RenameTemp
  <2>1. UNCHANGED <<cache, where, current_fd_>>
    BY <1>6 DEF RenameTemp, StartPreparing, AfterPrepare
  <2>2. \A r \in RotatedNames : dir'[r] = dir[r]
    BY <1>6, RenameEffect, NameFacts
  <2>3. current_fd_ \in Nat
    BY DEF FileTypes
  <2> QED BY <2>1, <2>2, <2>3, CacheNames, Living, ListedSame
<1>7. CASE RetainAtOpen \/ Retain \/ (\E t \in {"writer", "rotator"} : OpenTempFails(t))
  <2>1. UNCHANGED <<where, current_fd_>>
    BY <1>7 DEF RetainAtOpen, Retain, OpenTempFails
  <2>2. \A j \in DOMAIN cache' : \E i \in DOMAIN cache :
          cache'[j] = cache[i] /\ dir'[cache[i].name] = dir[cache[i].name]
    BY <1>7, KeptNames, Living
  <2> QED BY <2>1, <2>2, Living DEF Listed
<1>8. CASE Drain \/ JoinRotator \/ RenameFails
  BY <1>8, Living
<1>9. CASE TrackHandle \/ TimePasses \/ CheckRotation \/ TakeNextFd \/ Unready
  <2>1. UNCHANGED <<cache, where, current_fd_>>
    BY <1>9 DEF TrackHandle, TimePasses, CheckRotation, TakeNextFd, Unready, StartPreparing,
       AfterPrepare
  <2>2. \A r \in RotatedNames : dir'[r] = dir[r]
    BY <1>9, UnmovedSteps DEF Unmoved
  <2>3. current_fd_ \in Nat
    BY DEF FileTypes
  <2> QED BY <2>1, <2>2, <2>3, CacheNames, Living, ListedSame
<1>10. CASE NotifyRotator \/ WaitForNextFd \/ CheckErrorState \/ CloseHandle
  <2>1. UNCHANGED <<cache, where, current_fd_>>
    BY <1>10 DEF NotifyRotator, WaitForNextFd, CheckErrorState, CloseHandle, StartPreparing,
       AfterPrepare
  <2>2. \A r \in RotatedNames : dir'[r] = dir[r]
    BY <1>10, UnmovedSteps DEF Unmoved
  <2>3. current_fd_ \in Nat
    BY DEF FileTypes
  <2> QED BY <2>1, <2>2, <2>3, CacheNames, Living, ListedSame
<1>11. CASE DestroyHandle \/ (\E t \in {"writer", "rotator"} : OpenTemp(t)) \/
          (\E t \in {"writer", "rotator"} : PublishTemp(t)) \/
          (\E t \in {"writer", "rotator"} : SignalNextFd(t))
  <2>1. UNCHANGED <<cache, where, current_fd_>>
    BY <1>11 DEF DestroyHandle, OpenTemp, PublishTemp, SignalNextFd, StartPreparing, AfterPrepare
  <2>2. \A r \in RotatedNames : dir'[r] = dir[r]
    BY <1>11, UnmovedSteps DEF Unmoved
  <2>3. current_fd_ \in Nat
    BY DEF FileTypes
  <2> QED BY <2>1, <2>2, <2>3, CacheNames, Living, ListedSame
<1>12. CASE (\E t \in {"writer", "rotator"} : GiveUpPreparing(t)) \/ CheckRunning \/
          Dequeue \/ HandleClose
  <2>1. UNCHANGED <<cache, where, current_fd_>>
    BY <1>12 DEF GiveUpPreparing, CheckRunning, Dequeue, HandleClose, StartPreparing, AfterPrepare
  <2>2. \A r \in RotatedNames : dir'[r] = dir[r]
    BY <1>12, UnmovedSteps DEF Unmoved
  <2>3. current_fd_ \in Nat
    BY DEF FileTypes
  <2> QED BY <2>1, <2>2, <2>3, CacheNames, Living, ListedSame
<1>13. CASE CloseOld \/ LinkFails \/ ComputeNextTime \/ ClearRunning \/ EnqueueShutdown
  <2>1. UNCHANGED <<cache, where, current_fd_>>
    BY <1>13 DEF CloseOld, LinkFails, ComputeNextTime, ClearRunning, EnqueueShutdown,
       StartPreparing,
         AfterPrepare
  <2>2. \A r \in RotatedNames : dir'[r] = dir[r]
    BY <1>13, UnmovedSteps DEF Unmoved
  <2>3. current_fd_ \in Nat
    BY DEF FileTypes
  <2> QED BY <2>1, <2>2, <2>3, CacheNames, Living, ListedSame
<1>14. CASE UNCHANGED vars
  <2>1. UNCHANGED <<cache, where, current_fd_, dir>>
    BY <1>14
  <2> QED BY <2>1, Living DEF Listed
<1> QED BY <1>1, <1>2, <1>3, <1>4, <1>5, <1>6, <1>7, <1>8, <1>9, <1>10, <1>11, <1>12, <1>13, <1>14, NextCases

LEMMA OlderSame ==
    ASSUME Older, UNCHANGED cache, \A i \in DOMAIN cache : dir'[cache[i].name] = dir[cache[i].name],
           Swapped' => Swapped /\ UNCHANGED old_fd,
           (Renaming \/ pc["rotator"] = "stat")' =>
             (Renaming \/ pc["rotator"] = "stat") /\ UNCHANGED msg,
           UNCHANGED queue_
    PROVE  Older'
  BY DEF Older

LEMMA OlderStep == ASSUME Inv, [Next]_vars, Alive' PROVE Older'
<1> USE DEF vars, fsVars, fdVars, handleVars, serviceVars, rotateLocals, prepareLocals,
             writerLocals, outsideWriter, outsideRotator, outsidePrepare, rotating,
             outsideOwner, Goto, Inv, Types, Token, PcTypes, Threads, WriterLabels,
             RotatorLabels, OwnerLabels
<1>1. CASE Open
  <2>1. queue_' = <<>> /\ pc'["writer"] = "retain" /\ pc'["rotator"] \in {"loop", "dequeue", "stopped"}
    BY <1>1 DEF Open, Service, Handled, Starting
  <2> QED BY <2>1 DEF Older, Swapped, Renaming
<1>2. CASE SwapFd
  <2>1. UNCHANGED <<dir, cache, queue_, pc["rotator"]>> /\ pc["writer"] = "swap" /\ old_fd' = current_fd_
    BY <1>2 DEF SwapFd
  <2>2. ~Queued /\ ~Rotating
    BY <2>1 DEF Exclusive, Swapping
  <2> QED BY <2>1, <2>2, Living DEF Older, Listed, Queued, Rotating, Renaming
<1>3. CASE NotifyRotator
  <2>1. UNCHANGED <<dir, cache, old_fd, msg, pc["rotator"]>> /\ Swapped
        /\ pc'["writer"] = "idle"
    BY <1>3 DEF NotifyRotator, Swapped
  <2>2. ~Swapped' /\ ~Rotating
    BY <2>1 DEF Exclusive, Swapping, Swapped
  <2>3. \A j \in DOMAIN queue_' :
          \/ j \in DOMAIN queue_ /\ queue_'[j] = queue_[j]
          \/ queue_'[j].fd = old_fd
    BY <1>3, Notified
  <2> QED BY <2>1, <2>2, <2>3, Living DEF Older, Rotating, Renaming
<1>4. CASE CloseHandle
  <2>1. UNCHANGED <<dir, cache, msg, pc["rotator"]>> /\ ~Swapped'
    BY <1>4 DEF CloseHandle, Swapped
  <2>2. Older
    BY Living
  <2> QED BY <1>4, <2>1, <2>2, CloseEffect DEF Older, Renaming
<1>5. CASE Dequeue
  <2>1. UNCHANGED <<dir, cache, old_fd, pc["writer"]>> /\ pc'["rotator"] = queue_[1].type
        /\ msg' = queue_[1] /\ 1 \in DOMAIN queue_ /\ queue_[1].type \in {"rotate", "close"} /\ ~Queued'
    BY <1>5, DequeueEffect DEF Dequeue
  <2> QED BY <2>1, Living DEF Older, Swapped, Renaming, Queued
<1>6. CASE CheckRunning
  <2>1. UNCHANGED <<dir, cache, old_fd, queue_, pc["writer"]>> /\ pc'["rotator"] \in {"dequeue", "stopped"}
    BY <1>6 DEF CheckRunning
  <2> QED BY <2>1, Living DEF Older, Swapped, Renaming
<1>7. CASE AddToCache
  <2>1. UNCHANGED <<queue_, pc["writer"]>> /\ Rotating /\ pc'["rotator"] = "retain"
    BY <1>7 DEF AddToCache, Rotating
  <2>2. ~Queued /\ ~Swapped
    BY <2>1 DEF Exclusive, Swapping
  <2> QED BY <2>1, <2>2 DEF Older, Queued, Swapped, Renaming
<1>8. CASE LinkBase \/ LinkCollides \/ RenameBase
  <2>1. UNCHANGED <<cache, queue_>>
    BY <1>8 DEF LinkBase, LinkCollides, RenameBase, StartPreparing, AfterPrepare
  <2>2. \A i \in DOMAIN cache : dir'[cache[i].name] = dir[cache[i].name]
    <3> SUFFICES ASSUME NEW i \in DOMAIN cache PROVE dir'[cache[i].name] = dir[cache[i].name]
      OBVIOUS
    <3>1. cache[i].name \in NamesIn(cache) /\ cache[i].name \in RotatedNames
      BY CacheNames DEF NamesIn
    <3>2. LinkBase \/ LinkCollides => cache[i].name # name'
      BY <3>1, LinkEffect, NotListed, Living
    <3>3. RenameBase => cache[i].name # name
      <4>1. RenameBase => pc["rotator"] = "fallback"
        BY DEF RenameBase
      <4>2. RenameBase => dir[name] = NoFile
        BY <4>1, Living DEF BaseLeads, NameTaken
      <4> QED BY <4>2, <3>1, NotListed, Living
    <3>4. LinkBase \/ LinkCollides => dir'[cache[i].name] = dir[cache[i].name]
      BY <3>1, <3>2, LinkEffect, NameFacts DEF Leads
    <3>5. RenameBase => dir'[cache[i].name] = dir[cache[i].name]
      BY <3>1, <3>3, RenameEffect, NameFacts
    <3> QED BY <1>8, <3>4, <3>5
  <2>3. Swapped' => Swapped /\ UNCHANGED old_fd
    BY <1>8 DEF LinkBase, LinkCollides, RenameBase, StartPreparing, AfterPrepare, Swapped
  <2>4. (Renaming \/ pc["rotator"] = "stat")' => (Renaming \/ pc["rotator"] = "stat") /\ UNCHANGED msg
    BY <1>8 DEF LinkBase, LinkCollides, RenameBase, StartPreparing, AfterPrepare, Renaming
  <2> QED BY <2>1, <2>2, <2>3, <2>4, Living, OlderSame
<1>9. CASE RenameTemp
  <2>1. UNCHANGED <<cache, queue_>>
    BY <1>9 DEF RenameTemp, StartPreparing, AfterPrepare
  <2>2. \A i \in DOMAIN cache : dir'[cache[i].name] = dir[cache[i].name]
    BY <1>9, RenameEffect, NameFacts, CacheNames
  <2>3. Swapped' => Swapped /\ UNCHANGED old_fd
    BY <1>9 DEF RenameTemp, StartPreparing, AfterPrepare, Swapped
  <2>4. (Renaming \/ pc["rotator"] = "stat")' => (Renaming \/ pc["rotator"] = "stat") /\ UNCHANGED msg
    BY <1>9 DEF RenameTemp, StartPreparing, AfterPrepare, Renaming
  <2> QED BY <2>1, <2>2, <2>3, <2>4, Living, OlderSame
<1>10. CASE Write
  <2>1. UNCHANGED <<cache, queue_>>
    BY <1>10 DEF Write, StartPreparing, AfterPrepare
  <2>2. \A i \in DOMAIN cache : dir'[cache[i].name] = dir[cache[i].name]
    BY <1>10 DEF Write, StartPreparing, AfterPrepare
  <2>3. Swapped' => Swapped /\ UNCHANGED old_fd
    BY <1>10 DEF Write, StartPreparing, AfterPrepare, Swapped
  <2>4. (Renaming \/ pc["rotator"] = "stat")' => (Renaming \/ pc["rotator"] = "stat") /\ UNCHANGED msg
    BY <1>10 DEF Write, StartPreparing, AfterPrepare, Renaming
  <2> QED BY <2>1, <2>2, <2>3, <2>4, Living, OlderSame
<1>11. CASE RetainAtOpen \/ Retain \/ (\E t \in {"writer", "rotator"} : OpenTempFails(t))
  <2>1. UNCHANGED queue_
    BY <1>11 DEF RetainAtOpen, Retain, OpenTempFails
  <2>2. Swapped' => Swapped /\ UNCHANGED old_fd
    BY <1>11 DEF RetainAtOpen, Retain, OpenTempFails, StartPreparing, Swapped
  <2>3. (Renaming \/ pc["rotator"] = "stat")' => (Renaming \/ pc["rotator"] = "stat") /\ UNCHANGED msg
    BY <1>11 DEF RetainAtOpen, Retain, OpenTempFails, StartPreparing, Renaming
  <2>4. \A j \in DOMAIN cache' : \E i \in DOMAIN cache :
          cache'[j] = cache[i] /\ dir'[cache[i].name] = dir[cache[i].name]
    BY <1>11, KeptNames, Living
  <2>5. Older
    BY Living
  <2> QED BY <2>1, <2>2, <2>3, <2>4, <2>5 DEF Older
<1>12. CASE Drain \/ JoinRotator \/ RenameFails
  BY <1>12, Living
<1>13. CASE TrackHandle \/ TimePasses \/ CheckRotation \/ TakeNextFd \/ Unready
  <2>1. UNCHANGED <<cache, queue_>>
    BY <1>13 DEF TrackHandle, TimePasses, CheckRotation, TakeNextFd, Unready, StartPreparing,
       AfterPrepare
  <2>2. \A i \in DOMAIN cache : dir'[cache[i].name] = dir[cache[i].name]
    BY <1>13, UnmovedSteps, CacheNames DEF Unmoved
  <2>3. Swapped' => Swapped /\ UNCHANGED old_fd
    BY <1>13 DEF TrackHandle, TimePasses, CheckRotation, TakeNextFd, Unready, StartPreparing,
       AfterPrepare, Swapped
  <2>4. (Renaming \/ pc["rotator"] = "stat")' => (Renaming \/ pc["rotator"] = "stat") /\ UNCHANGED msg
    BY <1>13 DEF TrackHandle, TimePasses, CheckRotation, TakeNextFd, Unready, StartPreparing,
       AfterPrepare, Renaming
  <2> QED BY <2>1, <2>2, <2>3, <2>4, Living, OlderSame
<1>14. CASE WaitForNextFd \/ CheckErrorState \/ DestroyHandle \/
          (\E t \in {"writer", "rotator"} : OpenTemp(t))
  <2>1. UNCHANGED <<cache, queue_>>
    BY <1>14 DEF WaitForNextFd, CheckErrorState, DestroyHandle, OpenTemp, StartPreparing,
       AfterPrepare
  <2>2. \A i \in DOMAIN cache : dir'[cache[i].name] = dir[cache[i].name]
    BY <1>14, UnmovedSteps, CacheNames DEF Unmoved
  <2>3. Swapped' => Swapped /\ UNCHANGED old_fd
    BY <1>14 DEF WaitForNextFd, CheckErrorState, DestroyHandle, OpenTemp, StartPreparing,
       AfterPrepare, Swapped
  <2>4. (Renaming \/ pc["rotator"] = "stat")' => (Renaming \/ pc["rotator"] = "stat") /\ UNCHANGED msg
    BY <1>14 DEF WaitForNextFd, CheckErrorState, DestroyHandle, OpenTemp, StartPreparing,
       AfterPrepare, Renaming
  <2> QED BY <2>1, <2>2, <2>3, <2>4, Living, OlderSame
<1>15. CASE (\E t \in {"writer", "rotator"} : PublishTemp(t)) \/
          (\E t \in {"writer", "rotator"} : SignalNextFd(t)) \/
          (\E t \in {"writer", "rotator"} : GiveUpPreparing(t)) \/ HandleClose
  <2>1. UNCHANGED <<cache, queue_>>
    BY <1>15 DEF PublishTemp, SignalNextFd, GiveUpPreparing, HandleClose, StartPreparing,
       AfterPrepare
  <2>2. \A i \in DOMAIN cache : dir'[cache[i].name] = dir[cache[i].name]
    BY <1>15, UnmovedSteps, CacheNames DEF Unmoved
  <2>3. Swapped' => Swapped /\ UNCHANGED old_fd
    BY <1>15 DEF PublishTemp, SignalNextFd, GiveUpPreparing, HandleClose, StartPreparing,
       AfterPrepare, Swapped
  <2>4. (Renaming \/ pc["rotator"] = "stat")' => (Renaming \/ pc["rotator"] = "stat") /\ UNCHANGED msg
    BY <1>15 DEF PublishTemp, SignalNextFd, GiveUpPreparing, HandleClose, StartPreparing,
       AfterPrepare, Renaming
  <2> QED BY <2>1, <2>2, <2>3, <2>4, Living, OlderSame
<1>16. CASE CloseOld \/ LinkFails \/ ComputeNextTime \/ ClearRunning
  <2>1. UNCHANGED <<cache, queue_>>
    BY <1>16 DEF CloseOld, LinkFails, ComputeNextTime, ClearRunning, StartPreparing, AfterPrepare
  <2>2. \A i \in DOMAIN cache : dir'[cache[i].name] = dir[cache[i].name]
    BY <1>16, UnmovedSteps, CacheNames DEF Unmoved
  <2>3. Swapped' => Swapped /\ UNCHANGED old_fd
    BY <1>16 DEF CloseOld, LinkFails, ComputeNextTime, ClearRunning, StartPreparing,
       AfterPrepare, Swapped
  <2>4. (Renaming \/ pc["rotator"] = "stat")' => (Renaming \/ pc["rotator"] = "stat") /\ UNCHANGED msg
    BY <1>16 DEF CloseOld, LinkFails, ComputeNextTime, ClearRunning, StartPreparing,
       AfterPrepare, Renaming
  <2> QED BY <2>1, <2>2, <2>3, <2>4, Living, OlderSame
<1>17. CASE EnqueueShutdown
  <2>1. UNCHANGED <<cache, queue_>>
    BY <1>17 DEF EnqueueShutdown, StartPreparing, AfterPrepare
  <2>2. \A i \in DOMAIN cache : dir'[cache[i].name] = dir[cache[i].name]
    BY <1>17, UnmovedSteps, CacheNames DEF Unmoved
  <2>3. Swapped' => Swapped /\ UNCHANGED old_fd
    BY <1>17 DEF EnqueueShutdown, StartPreparing, AfterPrepare, Swapped
  <2>4. (Renaming \/ pc["rotator"] = "stat")' => (Renaming \/ pc["rotator"] = "stat") /\ UNCHANGED msg
    BY <1>17 DEF EnqueueShutdown, StartPreparing, AfterPrepare, Renaming
  <2> QED BY <2>1, <2>2, <2>3, <2>4, Living, OlderSame
<1>18. CASE UNCHANGED vars
  <2>1. UNCHANGED <<cache, dir, queue_, old_fd, msg, pc>>
    BY <1>18
  <2> QED BY <2>1, Living DEF Older, Swapped, Renaming
<1> QED BY <1>1, <1>2, <1>3, <1>4, <1>5, <1>6, <1>7, <1>8, <1>9, <1>10, <1>11, <1>12, <1>13, <1>14,
       <1>15, <1>16, <1>17, <1>18, NextCases

LEMMA InOrderStep == ASSUME Inv, [Next]_vars, Alive' PROVE InOrder'
<1> USE DEF vars, fsVars, fdVars, handleVars, serviceVars, rotateLocals, prepareLocals,
             writerLocals, outsideWriter, outsideRotator, outsidePrepare, rotating,
             outsideOwner, Goto, Inv, Types, Token, PcTypes, Threads, WriterLabels,
             RotatorLabels, OwnerLabels
<1>1. CASE Open
  BY <1>1, ScannedFacts
<1>2. CASE RetainAtOpen \/ Retain \/ (\E t \in {"writer", "rotator"} : OpenTempFails(t))
  BY <1>2, KeptNames, Living
<1>3. CASE Drain \/ JoinRotator \/ RenameFails
  BY <1>3, Living
<1>4. CASE AddToCache
  <2> DEFINE e == Entry(name)
  <2>1. /\ UNCHANGED cache \/ cache' = Append(cache, e)
        /\ e \in Entries /\ e.name = name /\ name \notin NamesIn(cache)
        /\ e.stamp \in DOMAIN where /\ where[e.stamp] = msg.fd /\ pc["rotator"] = "stat"
    BY <1>4, Living, Added
  <2> HIDE DEF e
  <2>2. CASE UNCHANGED cache
    BY <2>1, <2>2, Living DEF InOrder
  <2>3. CASE cache' = Append(cache, e)
    <3>1. /\ DOMAIN cache' = DOMAIN cache \cup {Len(cache) + 1} /\ DOMAIN cache = 1 .. Len(cache)
          /\ cache'[Len(cache) + 1] = e /\ \A i \in DOMAIN cache : cache'[i] = cache[i]
          /\ Len(cache) \in Nat
      BY <2>1, <2>3, AddedPlaces DEF NameTypes
    <3>2. ASSUME NEW i \in DOMAIN cache PROVE cache[i].stamp < e.stamp /\ cache[i].name # e.name
      <4>1. /\ cache[i].stamp \in DOMAIN where /\ where[cache[i].stamp] = dir[cache[i].name]
            /\ dir[cache[i].name] < msg.fd
        BY <2>1, Living DEF Listed, Older
      <4>2. where[cache[i].stamp] \in Nat /\ where[e.stamp] \in Nat
            /\ cache[i].stamp \in Nat /\ e.stamp \in Nat
        BY <2>1, <4>1 DEF FileTypes
      <4>3. ~(e.stamp <= cache[i].stamp)
        BY <2>1, <4>1, <4>2 DEF Written, Growing
      <4> QED BY <2>1, <4>2, <4>3 DEF NamesIn
    <3>3. ASSUME NEW i \in DOMAIN cache', NEW j \in DOMAIN cache', i < j
          PROVE  cache'[i].stamp < cache'[j].stamp /\ cache'[i].name # cache'[j].name
      <4>1. i \in DOMAIN cache
        BY <3>1, <3>3
      <4> QED BY <3>1, <3>2, <3>3, <4>1, Living DEF InOrder
    <3> QED BY <3>3 DEF InOrder
  <2> QED BY <2>1, <2>2, <2>3
<1>5. CASE TrackHandle \/ Write \/ TimePasses \/ CheckRotation \/ TakeNextFd \/ SwapFd \/
          Unready \/ NotifyRotator \/ WaitForNextFd
  <2>1. UNCHANGED cache
    BY <1>5 DEF TrackHandle, Write, TimePasses, CheckRotation, TakeNextFd, SwapFd, Unready,
       NotifyRotator,
         WaitForNextFd
  <2> QED BY <2>1, Living DEF InOrder
<1>6. CASE CheckErrorState \/ CloseHandle \/ DestroyHandle \/
          (\E t \in {"writer", "rotator"} : OpenTemp(t)) \/
          (\E t \in {"writer", "rotator"} : PublishTemp(t)) \/
          (\E t \in {"writer", "rotator"} : SignalNextFd(t)) \/
          (\E t \in {"writer", "rotator"} : GiveUpPreparing(t)) \/ CheckRunning \/ Dequeue
  <2>1. UNCHANGED cache
    BY <1>6 DEF CheckErrorState, CloseHandle, DestroyHandle, OpenTemp, PublishTemp, SignalNextFd,
         GiveUpPreparing, CheckRunning, Dequeue
  <2> QED BY <2>1, Living DEF InOrder
<1>7. CASE HandleClose \/ CloseOld \/ LinkBase \/ LinkCollides \/ LinkFails \/ RenameBase \/
          RenameTemp \/ ComputeNextTime \/ ClearRunning \/ EnqueueShutdown
  <2>1. UNCHANGED cache
    BY <1>7 DEF HandleClose, CloseOld, LinkBase, LinkCollides, LinkFails, RenameBase, RenameTemp,
         ComputeNextTime, ClearRunning, EnqueueShutdown
  <2> QED BY <2>1, Living DEF InOrder
<1>8. CASE UNCHANGED vars
  <2>1. UNCHANGED cache
    BY <1>8
  <2> QED BY <2>1, Living DEF InOrder
<1> QED BY <1>1, <1>2, <1>3, <1>4, <1>5, <1>6, <1>7, <1>8, NextCases

LEMMA AllListedSame ==
    ASSUME AllListed, UNCHANGED <<cache, where>>, \A r \in RotatedNames : dir'[r] = dir[r],
           pc'["writer"] # "open" => pc["writer"] # "open",
           pc["rotator"] \in {"rename", "stat"} => UNCHANGED <<pc["rotator"], name>>
    PROVE  AllListed'
<1>1. NamesIn(cache)' = NamesIn(cache) /\ \A f : LinesIn(f)' = LinesIn(f)
  BY DEF NamesIn, LinesIn
<1> QED BY <1>1 DEF AllListed

LEMMA AllListedStep == ASSUME Inv, [Next]_vars, Alive' PROVE AllListed'
<1> USE DEF vars, fsVars, fdVars, handleVars, serviceVars, rotateLocals, prepareLocals,
             writerLocals, outsideWriter, outsideRotator, outsidePrepare, rotating,
             outsideOwner, Goto, Inv, Types, Token, PcTypes, Threads, WriterLabels,
             RotatorLabels, OwnerLabels
<1>1. CASE Open
  <2>1. \A r \in RotatedNames : dir'[r] # NoFile => r \in NamesIn(cache)'
    BY <1>1, ScannedFacts
  <2> QED BY <2>1 DEF AllListed
<1>2. CASE Write
  <2>1. UNCHANGED <<dir, cache, name, pc["rotator"]>> /\ where' = Append(where, current_fd_)
        /\ pc["writer"] = "idle"
    BY <1>2 DEF Write
  <2>2. \A g : g # current_fd_ => LinesIn(g)' = LinesIn(g)
    BY <2>1, WriteFacts DEF FileTypes
  <2>3. \A r \in RotatedNames : dir[r] # NoFile => dir[r] # current_fd_
    BY <2>1, Living DEF NotInUse
  <2>4. NamesIn(cache)' = NamesIn(cache)
    BY <2>1 DEF NamesIn
  <2> QED BY <2>1, <2>2, <2>3, <2>4, Living DEF AllListed
<1>3. CASE AddToCache
  <2> DEFINE e == Entry(name)
  <2>1. /\ \/ UNCHANGED cache /\ dir[name] = NoFile
           \/ cache' = Append(cache, e) /\ dir[name] # NoFile
        /\ UNCHANGED <<dir, where, pc["writer"]>> /\ e \in Entries /\ e.name = name
    BY <1>3, Living, Added
  <2> HIDE DEF e
  <2>2. \A f : LinesIn(f)' = LinesIn(f)
    BY <2>1 DEF LinesIn
  <2>3. NamesIn(cache) \subseteq NamesIn(cache)' /\ (dir[name] # NoFile => name \in NamesIn(cache)')
    <3>1. CASE UNCHANGED cache
      BY <3>1, <2>1 DEF NamesIn
    <3>2. CASE cache' = Append(cache, e)
      <4>1. /\ DOMAIN cache' = DOMAIN cache \cup {Len(cache) + 1}
            /\ cache'[Len(cache) + 1] = e /\ \A i \in DOMAIN cache : cache'[i] = cache[i]
        BY <2>1, <3>2, AddedPlaces DEF NameTypes
      <4> QED BY <4>1, <2>1 DEF NamesIn
    <3> QED BY <2>1, <3>1, <3>2
  <2> QED BY <2>1, <2>2, <2>3, Living DEF AllListed
<1>4. CASE LinkBase \/ RenameBase
  <2>1. UNCHANGED <<cache, where, pc["writer"]>> /\ pc'["rotator"] = "rename"
        /\ pc["rotator"] \in {"link", "fallback"}
    BY <1>4 DEF LinkBase, RenameBase
  <2>2. \A r \in RotatedNames : r # name' => dir'[r] = dir[r]
    <3>1. LinkBase => \A r \in RotatedNames : r # name' => dir'[r] = dir[r]
      BY LinkEffect, NameFacts DEF Leads
    <3>2. RenameBase => name' = name
      BY DEF RenameBase
    <3>3. RenameBase => \A r \in RotatedNames : r # name => dir'[r] = dir[r]
      BY RenameEffect, NameFacts
    <3> QED BY <1>4, <3>1, <3>2, <3>3
  <2>3. NamesIn(cache)' = NamesIn(cache) /\ \A f : LinesIn(f)' = LinesIn(f)
    BY <2>1 DEF NamesIn, LinesIn
  <2> QED BY <2>1, <2>2, <2>3, Living DEF AllListed
<1>5. CASE LinkCollides
  <2>1. UNCHANGED <<cache, where, pc["writer"]>> /\ pc["rotator"] = "link"
    BY <1>5 DEF LinkCollides
  <2>2. \A r \in RotatedNames : dir'[r] = dir[r] \/ dir'[r] = files + 1
    BY <1>5, LinkEffect, NameFacts DEF Leads
  <2>3. LinesIn(files + 1) = {}
    BY DEF LinesIn, FileTypes
  <2>4. NamesIn(cache)' = NamesIn(cache) /\ \A f : LinesIn(f)' = LinesIn(f)
    BY <2>1 DEF NamesIn, LinesIn
  <2> QED BY <2>1, <2>2, <2>3, <2>4, Living DEF AllListed
<1>6. CASE RenameTemp
  <2>1. UNCHANGED <<cache, where, name, pc["writer"]>> /\ pc'["rotator"] = "stat"
    BY <1>6 DEF RenameTemp
  <2>2. \A r \in RotatedNames : dir'[r] = dir[r]
    BY <1>6, RenameEffect, NameFacts
  <2>3. NamesIn(cache)' = NamesIn(cache) /\ \A f : LinesIn(f)' = LinesIn(f)
    BY <2>1 DEF NamesIn, LinesIn
  <2> QED BY <2>1, <2>2, <2>3, Living DEF AllListed
<1>7. CASE RetainAtOpen \/ Retain \/ (\E t \in {"writer", "rotator"} : OpenTempFails(t))
  <2>1. UNCHANGED where
    BY <1>7, ForgetsOnly
  <2>2. pc["rotator"] \notin {"rename", "stat"}
    <3>1. pc["writer"] \in {"retain", "prepare"} \/ pc["rotator"] \in {"retain", "prepare"}
      BY <1>7 DEF RetainAtOpen, Retain, OpenTempFails
    <3> QED BY <3>1 DEF Service, Handled, Starting
  <2>3. \A r \in RotatedNames : dir'[r] # NoFile =>
          dir'[r] = dir[r] /\ (r \in NamesIn(cache) => r \in NamesIn(cache)')
    BY <1>7, KeptNames, Living
  <2>4. \A f : LinesIn(f)' = LinesIn(f)
    BY <2>1 DEF LinesIn
  <2>5. pc["writer"] # "open"
    <3>1. pc["writer"] \in {"retain", "prepare"} \/ pc["rotator"] \in {"retain", "prepare"}
      BY <1>7 DEF RetainAtOpen, Retain, OpenTempFails
    <3> QED BY <3>1 DEF Service, Handled, Starting
  <2> QED BY <2>2, <2>3, <2>4, <2>5, Living DEF AllListed
<1>8. CASE Drain \/ JoinRotator \/ RenameFails
  BY <1>8, Living
<1>9. CASE TrackHandle \/ TimePasses \/ CheckRotation \/ TakeNextFd \/ SwapFd
  <2>1. UNCHANGED <<cache, where>>
    BY <1>9 DEF TrackHandle, TimePasses, CheckRotation, TakeNextFd, SwapFd, StartPreparing,
       AfterPrepare
  <2>2. \A r \in RotatedNames : dir'[r] = dir[r]
    BY <1>9, UnmovedSteps DEF Unmoved
  <2>3. pc'["writer"] # "open" => pc["writer"] # "open"
    BY <1>9 DEF TrackHandle, TimePasses, CheckRotation, TakeNextFd, SwapFd, StartPreparing,
       AfterPrepare
  <2>4. pc["rotator"] \in {"rename", "stat"} => UNCHANGED <<pc["rotator"], name>>
    BY <1>9 DEF TrackHandle, TimePasses, CheckRotation, TakeNextFd, SwapFd, StartPreparing,
       AfterPrepare
  <2> QED BY <2>1, <2>2, <2>3, <2>4, Living, AllListedSame
<1>10. CASE Unready \/ NotifyRotator \/ WaitForNextFd \/ CheckErrorState
  <2>1. UNCHANGED <<cache, where>>
    BY <1>10 DEF Unready, NotifyRotator, WaitForNextFd, CheckErrorState, StartPreparing,
       AfterPrepare
  <2>2. \A r \in RotatedNames : dir'[r] = dir[r]
    BY <1>10, UnmovedSteps DEF Unmoved
  <2>3. pc'["writer"] # "open" => pc["writer"] # "open"
    BY <1>10 DEF Unready, NotifyRotator, WaitForNextFd, CheckErrorState, StartPreparing,
       AfterPrepare
  <2>4. pc["rotator"] \in {"rename", "stat"} => UNCHANGED <<pc["rotator"], name>>
    BY <1>10 DEF Unready, NotifyRotator, WaitForNextFd, CheckErrorState, StartPreparing,
       AfterPrepare
  <2> QED BY <2>1, <2>2, <2>3, <2>4, Living, AllListedSame
<1>11. CASE CloseHandle \/ DestroyHandle \/
          (\E t \in {"writer", "rotator"} : OpenTemp(t)) \/
          (\E t \in {"writer", "rotator"} : PublishTemp(t))
  <2>1. UNCHANGED <<cache, where>>
    BY <1>11 DEF CloseHandle, DestroyHandle, OpenTemp, PublishTemp, StartPreparing, AfterPrepare
  <2>2. \A r \in RotatedNames : dir'[r] = dir[r]
    BY <1>11, UnmovedSteps DEF Unmoved
  <2>3. pc'["writer"] # "open" => pc["writer"] # "open"
    BY <1>11 DEF CloseHandle, DestroyHandle, OpenTemp, PublishTemp, StartPreparing, AfterPrepare
  <2>4. pc["rotator"] \in {"rename", "stat"} => UNCHANGED <<pc["rotator"], name>>
    BY <1>11 DEF CloseHandle, DestroyHandle, OpenTemp, PublishTemp, StartPreparing, AfterPrepare
  <2> QED BY <2>1, <2>2, <2>3, <2>4, Living, AllListedSame
<1>12. CASE (\E t \in {"writer", "rotator"} : SignalNextFd(t)) \/
          (\E t \in {"writer", "rotator"} : GiveUpPreparing(t)) \/ CheckRunning \/ Dequeue
  <2>1. UNCHANGED <<cache, where>>
    BY <1>12 DEF SignalNextFd, GiveUpPreparing, CheckRunning, Dequeue, StartPreparing,
       AfterPrepare
  <2>2. \A r \in RotatedNames : dir'[r] = dir[r]
    BY <1>12, UnmovedSteps DEF Unmoved
  <2>3. pc'["writer"] # "open" => pc["writer"] # "open"
    BY <1>12 DEF SignalNextFd, GiveUpPreparing, CheckRunning, Dequeue, StartPreparing,
       AfterPrepare
  <2>4. pc["rotator"] \in {"rename", "stat"} => UNCHANGED <<pc["rotator"], name>>
    BY <1>12 DEF SignalNextFd, GiveUpPreparing, CheckRunning, Dequeue, StartPreparing,
       AfterPrepare
  <2> QED BY <2>1, <2>2, <2>3, <2>4, Living, AllListedSame
<1>13. CASE HandleClose \/ CloseOld \/ LinkFails \/ ComputeNextTime \/ ClearRunning \/
          EnqueueShutdown
  <2>1. UNCHANGED <<cache, where>>
    BY <1>13 DEF HandleClose, CloseOld, LinkFails, ComputeNextTime, ClearRunning, EnqueueShutdown,
         StartPreparing, AfterPrepare
  <2>2. \A r \in RotatedNames : dir'[r] = dir[r]
    BY <1>13, UnmovedSteps DEF Unmoved
  <2>3. pc'["writer"] # "open" => pc["writer"] # "open"
    BY <1>13 DEF HandleClose, CloseOld, LinkFails, ComputeNextTime, ClearRunning, EnqueueShutdown,
         StartPreparing, AfterPrepare
  <2>4. pc["rotator"] \in {"rename", "stat"} => UNCHANGED <<pc["rotator"], name>>
    BY <1>13 DEF HandleClose, CloseOld, LinkFails, ComputeNextTime, ClearRunning, EnqueueShutdown,
         StartPreparing, AfterPrepare
  <2> QED BY <2>1, <2>2, <2>3, <2>4, Living, AllListedSame
<1>14. CASE UNCHANGED vars
  <2>1. UNCHANGED <<cache, where, dir, name, pc>>
    BY <1>14
  <2> QED BY <2>1, Living, AllListedSame
<1> QED BY <1>1, <1>2, <1>3, <1>4, <1>5, <1>6, <1>7, <1>8, <1>9, <1>10, <1>11, <1>12, <1>13, <1>14, NextCases

-----------------------------------------------------------------------------
(* The invariant *)

LEMMA NamedStep == ASSUME Inv, [Next]_vars PROVE Named'
<1>1. ASSUME Alive' PROVE BaseLeads'
  BY <1>1, LeadsNowStep, LeadsQueuedStep, LeadsHandledStep, NameTakenStep DEF BaseLeads
<1> QED BY <1>1, TempsGoneStep, NotInUseStep, ListedStep, OlderStep, InOrderStep,
           AllListedStep DEF Named

LEMMA InitFiles ==
    ASSUME Init
    PROVE  Untouched /\ FileTypes /\ Growing /\ Len(where) = files
<1>1. PICK b \in {0, 1} :
         /\ files = OldFiles + b
         /\ dir = [n \in Names |->
                     IF n \in RotatedNames /\ n[2] <= OldFiles THEN n[2]
                     ELSE IF n = Base /\ b = 1 THEN OldFiles + 1 ELSE NoFile]
         /\ where = [n \in 1 .. OldFiles + b |-> n]
  BY DEF Init
<1>2. /\ closed = {} /\ current_fd_ = NoFd /\ next_fd_ = NoFd /\ next_fd_ready_ = FALSE
      /\ next_temp_ = NoFile /\ new_fd = NoFd /\ old_fd = NoFd /\ cache = <<>>
      /\ pc["writer"] = "open"
  BY DEF Init, Threads
<1>3. OldFiles \in Nat /\ Lines \in Nat /\ OldFiles + b \in Nat
  BY Constants
<1>4. /\ where \in Seq(Nat) /\ Len(where) = OldFiles + b /\ DOMAIN where = 1 .. OldFiles + b
      /\ \A n \in DOMAIN where : where[n] = n
  BY <1>1, <1>3
<1>5. \A r \in RotatedNames : r[2] \in Nat /\ r # Base
  BY NameFacts DEF RotatedNames
<1>6. \A n \in Names : dir[n] \in Nat /\ dir[n] <= files
  BY <1>1, <1>3, <1>5 DEF NoFile
<1>7. dir \in [Names -> Nat]
  BY <1>1, <1>6
<1>8. FileTypes
  BY <1>1, <1>2, <1>3, <1>4, <1>6, <1>7 DEF FileTypes, NoFile, NoFd
<1>9. Growing
  BY <1>1, <1>2, <1>4 DEF Growing
<1>10. Untouched
  BY <1>1, <1>2 DEF Untouched
<1> QED BY <1>1, <1>4, <1>8, <1>9, <1>10

LEMMA InitInv == Init => Inv
<1> SUFFICES ASSUME Init PROVE Inv
  OBVIOUS
<1>1. /\ pc["writer"] = "open" /\ pc["rotator"] = "loop" /\ pc["owner"] = "up"
      /\ pc \in [Threads -> {"open", "loop", "up"}]
  BY DEF Init, Threads
<1>2. /\ queue_ = <<>> /\ msg = NoMsg /\ cache = <<>> /\ name = NoName /\ next_fd_ = NoFd
      /\ current_fd_ = NoFd /\ new_fd = NoFd /\ closed = {} /\ running_ = TRUE /\ sentinel = FALSE
      /\ next_fd_ready_ = FALSE /\ faults.link = 0 /\ faults.collision = 0
  BY DEF Init
<1>3. DOMAIN queue_ = {} /\ DOMAIN cache = {} /\ NamesIn(cache) = {}
  BY <1>2 DEF NamesIn
<1>4. Untouched /\ FileTypes /\ Growing /\ Len(where) = files
  BY InitFiles
<1>5. Types
  <2>1. PcTypes
    BY <1>1 DEF PcTypes, Threads, WriterLabels, RotatorLabels, OwnerLabels
  <2>2. FlagTypes /\ CounterTypes
    BY DEF Init, FlagTypes, CounterTypes
  <2>3. FaultTypes
    BY Constants DEF Init, FaultTypes
  <2>4. MessageTypes
    BY <1>2, <1>3 DEF MessageTypes
  <2>5. NameTypes
    BY <1>1, <1>2 DEF NameTypes
  <2> QED BY <1>4, <2>1, <2>2, <2>3, <2>4, <2>5 DEF Types
<1>6. ~Queued /\ ~Renaming /\ ~Rotating /\ ~Swapped /\ ~Swapping /\ ~Prepared /\ ~Pending
  BY <1>1, <1>2, <1>3 DEF Queued, Renaming, Rotating, Swapped, Swapping, Prepared, Pending
<1>7. Token
  BY <1>1, <1>2, <1>3, <1>6 DEF Token, Service, Stopping, Handled, Enqueued, Exclusive, Published,
     Starting, Dropped
<1>8. Ordered
  BY <1>1, <1>2, <1>3, <1>6 DEF Ordered, Ascending, QueueOlder, ClosedOlder
<1>9. Written
  BY <1>1, <1>3, <1>4, <1>6 DEF Written, Used, QueueUsed
<1>10. FewFiles
  <2>1. Credit = 2
    BY <1>1, <1>6 DEF Credit, WriterCredit, QueueCredit, RotatorCredit
  <2> QED BY <1>2, <1>4, <2>1 DEF FewFiles, FileTypes
<1>11. \A f \in 1 .. MaxFiles : dir[Temp(f)] = NoFile
  <2> SUFFICES ASSUME NEW f \in 1 .. MaxFiles PROVE dir[Temp(f)] = NoFile
    OBVIOUS
  <2>1. Temp(f) \in Names /\ Temp(f) # Base /\ Temp(f) \notin RotatedNames
    BY NameFacts
  <2> QED BY <1>1, <1>4, <2>1 DEF Untouched
<1>12. Temps
  BY <1>1, <1>6, <1>11 DEF Temps, Needed
<1>13. BaseNamed /\ Kept
  BY <1>1 DEF BaseNamed, Kept, Opened
<1>14. Named
  BY <1>1, <1>3, <1>6, <1>11 DEF Named, TempsGone, BaseLeads, LeadsNow, LeadsQueued, LeadsHandled,
     NameTaken, NotInUse, Listed, Older, InOrder, AllListed
<1> QED BY <1>4, <1>5, <1>7, <1>8, <1>9, <1>10, <1>12, <1>13, <1>14 DEF Inv

LEMMA InvStep == Inv /\ [Next]_vars => Inv'
<1> SUFFICES ASSUME Inv, [Next]_vars PROVE Inv'
  OBVIOUS
<1>1. Types'
  BY TypesStep
<1>2. Token'
  BY StoppingStep, HandledStep, EnqueuedStep, ExclusiveStep, PublishedStep DEF Token, Service
<1>3. Ordered'
  BY AscendingStep, QueueOlderStep, ClosedOlderStep DEF Ordered
<1>4. Written'
  BY GrowingStep, UsedStep, QueueUsedStep DEF Written
<1>5. FewFiles' /\ Temps' /\ BaseNamed'
  BY FewFilesStep, TempsStep, BaseNamedStep
<1>6. Untouched' /\ Kept' /\ Named'
  BY UntouchedStep, KeptStep, NamedStep
<1> QED BY <1>1, <1>2, <1>3, <1>4, <1>5, <1>6 DEF Inv

LEMMA Invariance == Spec => []Inv
<1>1. Init => Inv
  BY InitInv
<1>2. Inv /\ [Next]_vars => Inv'
  BY InvStep
<1> QED BY <1>1, <1>2, PTL DEF Spec

-----------------------------------------------------------------------------
(* The theorems *)

(* While the writer uses the log, neither the descriptor it writes to nor    *)
(* the one it will swap to is ever closed, for any number of files, lines,   *)
(* failures, retries and rotations (get_next_fd, handle_rotation,            *)
(* prepare_next_fd_with_retry, drain_queue).                                 *)
THEOREM DescriptorsStayOpen == Spec => []FdsOpen
<1>1. Inv => FdsOpen
  <2> SUFFICES ASSUME Inv, Opened, pc["writer"] \notin {"dropped", "gone"}, pc["owner"] # "destroyed"
               PROVE  {current_fd_, next_fd_} \cap closed = {}
    BY DEF FdsOpen
  <2>1. /\ current_fd_ \in Nat /\ next_fd_ \in Nat
        /\ \A f \in closed : f \in Nat /\ f # NoFd /\ f < current_fd_
    BY DEF Inv, Types, FileTypes, Ordered, ClosedOlder, Dropped, NoFd
  <2>2. next_fd_ = NoFd \/ current_fd_ < next_fd_
    BY DEF Inv, Ordered, Ascending, Prepared
  <2> QED BY <2>1, <2>2
<1> QED BY <1>1, Invariance, PTL

LEMMA TypesHold == Inv => RotationTypeOK
<1> SUFFICES ASSUME Inv PROVE RotationTypeOK
  OBVIOUS
<1>1. files \in Nat /\ files <= MaxFiles /\ MaxFiles \in Nat
  BY FilesBound, NameFacts DEF Inv
<1>2. dir \in [Names -> 0 .. MaxFiles]
  <2>1. dir \in [Names -> Nat] /\ \A n \in Names : dir[n] \in Nat /\ dir[n] <= files
    BY DEF Inv, Types, FileTypes
  <2>2. \A n \in Names : dir[n] \in 0 .. MaxFiles
    BY <1>1, <2>1
  <2> QED BY <2>1, <2>2
<1>3. where \in Seq(1 .. files)
  <2>1. where \in Seq(Nat) /\ \A n \in 1 .. Len(where) : where[n] \in 1 .. files
    BY DEF Inv, Types, FileTypes
  <2>2. where \in [1 .. Len(where) -> 1 .. files] /\ Len(where) \in Nat
    BY <2>1
  <2> QED BY <2>2, SeqDef
<1>4. closed \subseteq 1 .. files /\ {current_fd_, next_fd_, next_temp_, new_fd, old_fd} \subseteq 0 .. files
  BY DEF Inv, Types, FileTypes
<1>5. /\ {next_fd_ready_, in_error_state_, due, tracked, running_, sentinel} \subseteq BOOLEAN
      /\ {sema, bytes_written_, attempts, retries} \subseteq Nat
  BY DEF Inv, Types, FlagTypes, CounterTypes
<1>6. \A i \in DOMAIN queue_ : queue_[i].type \in {"rotate", "close"}
  BY QueueFacts DEF Inv, Types, MessageTypes, Messages
<1>7. \A i \in DOMAIN cache : cache[i].name \in RotatedNames
  BY CacheNames DEF Inv
<1>8. PcTypes
  BY DEF Inv, Types
<1> QED BY <1>1, <1>2, <1>3, <1>4, <1>5, <1>6, <1>7, <1>8
        DEF RotationTypeOK, PcTypes, WriterLabels, RotatorLabels, OwnerLabels

LEMMA CacheHolds == Inv => CacheMatchesDirectory
<1> SUFFICES ASSUME Inv, Opened, ~gave_up, pc["rotator"] \in {"loop", "dequeue"}
             PROVE  /\ NamesIn(cache) = {n \in RotatedNames : Exists(n) /\ LinesIn(dir[n]) # {}}
                    /\ Len(cache) = Cardinality(NamesIn(cache))
                    /\ KeepFiles > 0 => Len(cache) <= KeepFiles
  BY DEF CacheMatchesDirectory
<1>1. Alive /\ Listed /\ InOrder /\ AllListed
  BY DEF Inv, Named, Alive
<1>2. NamesIn(cache) \subseteq {n \in RotatedNames : Exists(n) /\ LinesIn(dir[n]) # {}}
  <2> SUFFICES ASSUME NEW i \in DOMAIN cache
               PROVE  /\ cache[i].name \in RotatedNames /\ Exists(cache[i].name)
                      /\ LinesIn(dir[cache[i].name]) # {}
    BY DEF NamesIn
  <2>1. cache[i].name \in RotatedNames
    BY CacheNames DEF Inv
  <2>2. /\ cache[i].stamp \in DOMAIN where /\ where[cache[i].stamp] = dir[cache[i].name]
        /\ where[cache[i].stamp] \in 1 .. files
    BY <1>1 DEF Listed, Inv, Types, FileTypes
  <2>3. dir[cache[i].name] # NoFile
    BY <2>2 DEF NoFile, Inv, Types, FileTypes
  <2> QED BY <2>1, <2>2, <2>3, NameFacts DEF Exists, LinesIn
<1>3. {n \in RotatedNames : Exists(n) /\ LinesIn(dir[n]) # {}} \subseteq NamesIn(cache)
  BY <1>1 DEF AllListed, Opened, Exists
<1>4. Len(cache) = Cardinality(NamesIn(cache))
  <2> DEFINE f == [i \in 1 .. Len(cache) |-> cache[i].name]
  <2>1. DOMAIN cache = 1 .. Len(cache) /\ Len(cache) \in Nat
    BY DEF Inv, Types, NameTypes
  <2>2. \A i, j \in 1 .. Len(cache) : f[i] = f[j] => i = j
    <3> SUFFICES ASSUME NEW i \in 1 .. Len(cache), NEW j \in 1 .. Len(cache), i # j
                 PROVE  cache[i].name # cache[j].name
      OBVIOUS
    <3>1. i < j \/ j < i
      BY <2>1
    <3> QED BY <1>1, <2>1, <3>1 DEF InOrder
  <2>3. /\ f \in [1 .. Len(cache) -> NamesIn(cache)]
        /\ \A n \in NamesIn(cache) : \E i \in 1 .. Len(cache) : f[i] = n
    BY <2>1 DEF NamesIn
  <2>4. f \in Bijection(1 .. Len(cache), NamesIn(cache))
    <3> HIDE DEF f
    <3> QED BY <2>2, <2>3 DEF Bijection, Injection, Surjection, IsInjective
  <2>5. ExistsBijection(1 .. Len(cache), NamesIn(cache))
    BY <2>4 DEF ExistsBijection
  <2> QED BY <2>1, <2>5, Interval, FS_Bijection
<1>5. KeepFiles > 0 => Len(cache) <= KeepFiles
  BY DEF Inv, Kept
<1> QED BY <1>2, <1>3, <1>4, <1>5

LEMMA TempsHold == Inv => TempsAccounted
<1> SUFFICES ASSUME Inv, ~gave_up, pc["owner"] = "up", NEW f \in 1 .. files, Exists(Temp(f))
             PROVE  \/ f \in Underway
                    \/ f = next_fd_ /\ pc["writer"] # "gone"
                    \/ f = new_fd /\ pc["writer"] = "swap"
  BY DEF TempsAccounted
<1>1. Alive
  BY DEF Inv, Token, Service, Stopping, Alive
<1>2. files \in Nat /\ files <= MaxFiles /\ MaxFiles \in Nat
  BY FilesBound, NameFacts DEF Inv
<1>3. Needed(f)
  BY <1>1, <1>2 DEF Inv, Named, TempsGone, Exists
<1>4. CASE Pending /\ f = current_fd_
  <2>1. CASE Swapped
    BY <1>4, <2>1 DEF Inv, Ordered, Ascending, Swapped, Underway
  <2>2. CASE Queued
    BY <1>4, <2>2 DEF Inv, Ordered, QueueOlder, Queued, Underway
  <2>3. CASE Renaming
    BY <1>4, <2>3 DEF Inv, Ordered, Ascending, Rotating, Underway
  <2> QED BY <1>4, <2>1, <2>2, <2>3 DEF Pending
<1> QED BY <1>3, <1>4 DEF Needed, Prepared

(* Every file the rotator has made is known to somebody who will rename or   *)
(* delete it: at rest the cache lists exactly the rotated files, not more of *)
(* them than policy.keep_files, and no temporary file is forgotten, whatever *)
(* fails and whatever the policies are (handle_rotation, add_to_cache,       *)
(* apply_retention_timestamped, emergency_cleanup, ~rotation_handle).        *)
THEOREM NamesAlwaysAccounted == Spec => []NamesAccounted
<1>1. Inv => NamesAccounted
  BY TypesHold, CacheHolds, TempsHold DEF NamesAccounted
<1> QED BY <1>1, Invariance, PTL

-----------------------------------------------------------------------------
(* Continuity, without a limit of the total size *)

(* What a reader finds under the log's name, under a rotated one, or will.   *)
Shown(f) == f = current_fd_ \/ \E n \in {Base} \cup RotatedNames : dir[n] = f
Unbroken ==
    Alive =>
      \A m, n \in DOMAIN where : m <= n /\ Shown(where[m]) => Shown(where[n])

LEMMA UnbrokenSame ==
    ASSUME Unbroken, Alive, UNCHANGED where,
           \A n \in DOMAIN where : Shown(where[n])' <=> Shown(where[n])
    PROVE  Unbroken'
  BY DEF Unbroken

LEMMA ShownMoved ==
    ASSUME UNCHANGED current_fd_, NEW f,
           \A n \in {Base} \cup RotatedNames : dir'[n] = dir[n]
    PROVE  Shown(f)' <=> Shown(f)
  BY DEF Shown

(* Retention deletes no file that is newer than one it leaves.               *)
LEMMA RetainUnbroken ==
    ASSUME Inv, [Next]_vars, Alive', Unbroken, MaxTotal = 0,
           RetainAtOpen \/ Retain \/ (\E t \in {"writer", "rotator"} : OpenTempFails(t))
    PROVE  Unbroken'
<1>1. Alive /\ BaseLeads /\ Listed /\ InOrder /\ AllListed
  BY Living
<1>2. UNCHANGED <<where, current_fd_>> /\ dir'[Base] = dir[Base]
  BY ForgetsOnly DEF Inv, RetainAtOpen, Retain, OpenTempFails, fdVars, rotating, outsideRotator,
     outsidePrepare
<1>3. /\ pc["writer"] \in {"retain", "prepare"} \/ pc["rotator"] \in {"retain", "prepare"}
  BY DEF RetainAtOpen, Retain, OpenTempFails
<1>4. ~Pending /\ pc["writer"] # "open" /\ pc["rotator"] \notin {"rename", "stat"}
  BY <1>3 DEF Inv, Token, Service, Handled, Starting, Exclusive, Swapping, Swapped, Rotating,
     Renaming,
     Pending, Queued
<1>5. dir[Base] = current_fd_
  BY <1>1, <1>4 DEF BaseLeads, LeadsNow
<1>6. CASE UNCHANGED <<cache, dir>>
  <2>1. \A f : Shown(f)' <=> Shown(f)
    BY <1>2, <1>6, ShownMoved
  <2> QED BY <1>1, <1>2, <2>1, UnbrokenSame
<1>7. CASE Forgets
  <2>1. PICK g : Chosen(g)
    BY <1>7 DEF Forgets
  <2>2. /\ DOMAIN cache = 1 .. Len(cache) /\ DOMAIN cache' = 1 .. Len(cache') /\ cache \in Seq(Entries)
        /\ Len(cache) \in Nat /\ where \in Seq(Nat) /\ current_fd_ \in Nat
        /\ \A n \in DOMAIN where : where[n] \in Nat
    BY <1>7 DEF Forgets, Inv, Types, NameTypes, FileTypes
  <2>3. Sorted(cache)
    <3>1. \A i \in DOMAIN cache : cache[i].stamp \in Nat
      <4>1. \A i \in DOMAIN cache : cache[i] \in Entries
        BY <2>2
      <4> QED BY <4>1 DEF Entries
    <3> QED BY <1>1, <3>1, <2>2 DEF Sorted, InOrder
  <2>4. /\ \A r \in RotatedNames : dir'[r] # NoFile => dir'[r] = dir[r]
        /\ \A r \in RotatedNames : dir'[r] # NoFile /\ r \in NamesIn(cache) => r \in NamesIn(cache)'
        /\ \A j \in DOMAIN cache' : \E i \in DOMAIN cache :
                cache'[j] = cache[i] /\ dir'[cache[i].name] = dir[cache[i].name]
    BY <1>1, KeptNames DEF Inv
  <2> SUFFICES ASSUME NEW m \in DOMAIN where, NEW n \in DOMAIN where, m <= n, Shown(where[m])',
                      ~Shown(where[n])'
               PROVE  FALSE
    BY <1>2 DEF Unbroken
  <2>5. where[m] <= where[n] /\ where[n] <= current_fd_ /\ where[m] # NoFile /\ where[n] # NoFile
        /\ where[n] \in Nat /\ where[m] \in Nat
    BY <1>4, <2>2 DEF Inv, Written, Growing, Types, FileTypes, NoFile
  <2>6. where[n] # current_fd_ /\ where[m] # current_fd_
    BY <1>2, <2>2, <2>5 DEF Shown
  <2>7. PICK s \in RotatedNames : dir'[s] = where[m]
    BY <1>2, <1>5, <2>6 DEF Shown
  <2>8. dir[s] = where[m] /\ LinesIn(dir[s]) # {} /\ s \in NamesIn(cache)'
    <3>1. dir[s] = where[m] /\ LinesIn(dir[s]) # {}
      BY <2>4, <2>5, <2>7 DEF LinesIn
    <3> QED BY <3>1, <1>1, <1>4, <2>4, <2>5, <2>7 DEF AllListed
  <2>9. PICK j \in DOMAIN cache' : cache'[j].name = s
    BY <2>8 DEF NamesIn
  <2>10. PICK r \in RotatedNames : dir[r] = where[n]
    <3>1. Shown(where[m])
      BY <2>8 DEF Shown
    <3>2. Shown(where[n])
      BY <1>1, <3>1 DEF Unbroken
    <3> QED BY <3>2, <1>5, <2>6 DEF Shown
  <2>11. r \in NamesIn(cache) /\ dir'[r] # where[n]
    <3>1. LinesIn(dir[r]) # {} /\ dir[r] # NoFile
      BY <2>10, <2>5 DEF LinesIn
    <3>2. r \in NamesIn(cache)
      BY <3>1, <1>1, <1>4 DEF AllListed
    <3> QED BY <3>2, <1>2 DEF Shown
  <2>12. PICK i \in DOMAIN cache : cache[i].name = r
    BY <2>11 DEF NamesIn
  <2>13. ASSUME NEW k \in 1 .. Len(cache') PROVE g[k] # i
    <3>1. PICK l \in DOMAIN cache : cache'[k] = cache[l] /\ dir'[cache[l].name] = dir[cache[l].name]
      BY <2>2, <2>4
    <3>2. cache'[k].name # r
      BY <3>1, <2>10, <2>11
    <3> QED BY <2>1, <2>12, <3>2 DEF Chosen
  <2>14. cache[i].stamp <= cache'[j].stamp
    BY <2>1, <2>2, <2>3, <2>13 DEF Chosen
  <2>15. PICK l \in DOMAIN cache : cache'[j] = cache[l]
    BY <2>4
  <2>16. /\ cache[i].stamp \in DOMAIN where /\ where[cache[i].stamp] = where[n]
         /\ cache[l].stamp \in DOMAIN where /\ where[cache[l].stamp] = where[m]
    BY <1>1, <2>8, <2>9, <2>10, <2>12, <2>15 DEF Listed
  <2>17. where[n] <= where[m]
    BY <2>14, <2>15, <2>16 DEF Inv, Written, Growing
  <2>18. where[n] = where[m]
    BY <2>5, <2>17
  <2> QED BY <2>18, <1>2 DEF Shown
<1> QED BY <1>6, <1>7, ForgetEffect DEF Inv

(* At first every line can be found.                                         *)
LEMMA UntouchedShown ==
    ASSUME Untouched, pc["writer"] = "open", NEW n \in DOMAIN where
    PROVE  \/ \E r \in RotatedNames : dir[r] = where[n]
           \/ dir[Base] = where[n] /\ where[n] = OldFiles + 1
<1>1. PICK b \in {0, 1} :
         /\ dir = [m \in Names |->
                     IF m \in RotatedNames /\ m[2] <= OldFiles THEN m[2]
                     ELSE IF m = Base /\ b = 1 THEN OldFiles + 1 ELSE NoFile]
         /\ where = [m \in 1 .. OldFiles + b |-> m]
  BY DEF Untouched
<1>2. n \in 1 .. OldFiles + b /\ where[n] = n /\ n \in Nat \ {0} /\ OldFiles \in Nat
  BY <1>1, Constants
<1>3. CASE n <= OldFiles
  <2>1. <<"rotated", n>> \in RotatedNames
    BY <1>2, <1>3, Constants DEF RotatedNames
  <2>2. dir[<<"rotated", n>>] = n
    BY <2>1, <1>1, <1>3, NameFacts
  <2> QED BY <1>2, <2>1, <2>2
<1>4. CASE ~(n <= OldFiles)
  <2>1. n = OldFiles + 1 /\ b = 1
    BY <1>2, <1>4
  <2>2. dir[Base] = n
    BY <2>1, <1>1, NameFacts
  <2> QED BY <1>2, <2>1, <2>2
<1> QED BY <1>3, <1>4

(* The other steps neither show nor hide a line.                             *)
LEMMA UnbrokenStep == ASSUME Inv, Unbroken, [Next]_vars, MaxTotal = 0, Alive'
                     PROVE Unbroken'
<1> USE DEF vars, fsVars, fdVars, handleVars, serviceVars, rotateLocals, prepareLocals,
             writerLocals, outsideWriter, outsideRotator, outsidePrepare, rotating,
             outsideOwner, Goto, Inv, Types, Token, PcTypes, Threads, WriterLabels,
             RotatorLabels, OwnerLabels
<1>1. CASE Open
  <2>1. /\ UNCHANGED where /\ current_fd_' = OldFiles + 1
        /\ \A r \in RotatedNames : dir'[r] = dir[r]
    BY <1>1, OpenFacts
  <2>2. Untouched /\ pc["writer"] = "open"
    BY <1>1 DEF Open
  <2>3. ASSUME NEW n \in DOMAIN where PROVE Shown(where[n])'
    BY <2>1, <2>2, UntouchedShown DEF Shown
  <2> QED BY <2>1, <2>3 DEF Unbroken
<1>2. CASE Write
  <2>1. UNCHANGED <<dir, current_fd_>> /\ where' = Append(where, current_fd_)
    BY <1>2 DEF Write
  <2>2. \A f : Shown(f)' <=> Shown(f)
    BY <2>1, ShownMoved
  <2>3. /\ DOMAIN where' = DOMAIN where \cup {Len(where) + 1} /\ DOMAIN where = 1 .. Len(where)
        /\ where'[Len(where) + 1] = current_fd_ /\ \A i \in DOMAIN where : where'[i] = where[i]
        /\ Len(where) \in Nat
    BY <2>1, WriteFacts DEF FileTypes
  <2>4. Shown(current_fd_)
    BY DEF Shown
  <2>5. ASSUME NEW m \in DOMAIN where', NEW n \in DOMAIN where', m <= n, Shown(where'[m])
        PROVE  Shown(where'[n])
    <3>1. CASE n = Len(where) + 1
      BY <3>1, <2>3, <2>4
    <3>2. CASE n \in DOMAIN where
      <4>1. m \in DOMAIN where
        BY <2>3, <2>5, <3>2
      <4> QED BY <4>1, <3>2, <2>3, <2>5, Living DEF Unbroken
    <3> QED BY <2>3, <3>1, <3>2
  <2> QED BY <2>1, <2>5 DEF Unbroken, Shown
<1>3. CASE SwapFd
  <2>1. UNCHANGED <<dir, where>> /\ pc["writer"] = "swap" /\ current_fd_' = new_fd
    BY <1>3 DEF SwapFd
  <2>2. ~Pending
    BY <2>1 DEF Exclusive, Swapping, Rotating, Pending, Swapped
  <2>3. dir[Base] = current_fd_
    BY <2>1, <2>2, Living DEF BaseLeads, LeadsNow
  <2>4. \A n \in DOMAIN where : where[n] # new_fd
    BY <2>1 DEF Written, Growing, Ordered, Ascending, FileTypes
  <2>5. \A n \in DOMAIN where : Shown(where[n])' <=> Shown(where[n])
    BY <2>1, <2>3, <2>4 DEF Shown
  <2> QED BY <2>1, <2>5, Living, UnbrokenSame
<1>4. CASE LinkBase \/ LinkCollides \/ RenameBase \/ RenameTemp
  <2>1. UNCHANGED <<where, current_fd_>>
    BY <1>4 DEF LinkBase, LinkCollides, RenameBase, RenameTemp
  <2>2. \A f \in 1 .. files : Shown(f)' <=> Shown(f)
    <3>1. CASE LinkBase \/ LinkCollides
      <4>1. /\ name' \in RotatedNames /\ dir[name'] = NoFile
            /\ Leads(name', dir[Base]) \/ Leads(name', files + 1)
        BY <3>1, LinkEffect
      <4>2. /\ \A n \in {Base} \cup RotatedNames : n # name' => dir'[n] = dir[n]
            /\ dir'[name'] \in {dir[Base], files + 1} /\ name' # Base
        BY <4>1, NameFacts DEF Leads
      <4>3. \A f \in 1 .. files : f # NoFile /\ f # files + 1
        BY DEF NoFile, FileTypes
      <4> HIDE DEF Inv
      <4> QED BY <2>1, <4>1, <4>2, <4>3 DEF Shown
    <3>2. CASE RenameBase
      <4>1. /\ name \in RotatedNames /\ name # Base /\ pc["rotator"] = "fallback"
            /\ \A n \in {Base} \cup RotatedNames :
                 dir'[n] = IF n = name THEN dir[Base] ELSE IF n = Base THEN NoFile ELSE dir[n]
        BY <3>2, RenameEffect, NameFacts DEF RenameBase
      <4>2. dir[name] = NoFile
        BY <4>1, Living DEF BaseLeads, NameTaken
      <4>3. \A f \in 1 .. files : f # NoFile
        BY DEF NoFile
      <4> HIDE DEF Inv
      <4> QED BY <2>1, <4>1, <4>2, <4>3 DEF Shown
    <3>3. CASE RenameTemp
      <4>1. \A n \in {Base} \cup RotatedNames :
              dir'[n] = IF n = Base THEN current_fd_ ELSE dir[n]
        BY <3>3, RenameEffect, NameFacts
      <4>2. pc["rotator"] = "rename"
        BY <3>3 DEF RenameTemp
      <4>3. name \in RotatedNames /\ name # Base /\ dir[name] = msg.fd /\ dir[Base] \in {NoFile, msg.fd}
        BY <4>2, NameThere, NameFacts, Living DEF BaseLeads, NameTaken, LeadsHandled
      <4>4. \A f \in 1 .. files : f # NoFile
        BY DEF NoFile
      <4> HIDE DEF Inv
      <4> QED BY <2>1, <4>1, <4>3, <4>4 DEF Shown
    <3> QED BY <1>4, <3>1, <3>2, <3>3
  <2>3. \A n \in DOMAIN where : where[n] \in 1 .. files
    BY DEF FileTypes
  <2> QED BY <2>1, <2>2, <2>3, Living, UnbrokenSame
<1>5. CASE AddToCache
  <2>1. UNCHANGED <<where, current_fd_>>
    BY <1>5 DEF AddToCache, StartPreparing, AfterPrepare
  <2>2. \A n \in {Base} \cup RotatedNames : dir'[n] = dir[n]
    BY <1>5 DEF AddToCache, StartPreparing, AfterPrepare
  <2>3. \A f : Shown(f)' <=> Shown(f)
    BY <2>1, <2>2, ShownMoved
  <2> QED BY <2>1, <2>3, Living, UnbrokenSame
<1>6. CASE RetainAtOpen \/ Retain \/ (\E t \in {"writer", "rotator"} : OpenTempFails(t))
  BY <1>6, RetainUnbroken
<1>7. CASE Drain \/ JoinRotator \/ RenameFails
  BY <1>7, Living
<1>8. CASE TrackHandle \/ TimePasses \/ CheckRotation \/ TakeNextFd \/ Unready
  <2>1. UNCHANGED <<where, current_fd_>>
    BY <1>8 DEF TrackHandle, TimePasses, CheckRotation, TakeNextFd, Unready, StartPreparing,
       AfterPrepare
  <2>2. \A n \in {Base} \cup RotatedNames : dir'[n] = dir[n]
    BY <1>8, UnmovedSteps DEF Unmoved
  <2>3. \A f : Shown(f)' <=> Shown(f)
    BY <2>1, <2>2, ShownMoved
  <2> QED BY <2>1, <2>3, Living, UnbrokenSame
<1>9. CASE NotifyRotator \/ WaitForNextFd \/ CheckErrorState \/ CloseHandle
  <2>1. UNCHANGED <<where, current_fd_>>
    BY <1>9 DEF NotifyRotator, WaitForNextFd, CheckErrorState, CloseHandle, StartPreparing,
       AfterPrepare
  <2>2. \A n \in {Base} \cup RotatedNames : dir'[n] = dir[n]
    BY <1>9, UnmovedSteps DEF Unmoved
  <2>3. \A f : Shown(f)' <=> Shown(f)
    BY <2>1, <2>2, ShownMoved
  <2> QED BY <2>1, <2>3, Living, UnbrokenSame
<1>10. CASE DestroyHandle \/ (\E t \in {"writer", "rotator"} : OpenTemp(t)) \/
          (\E t \in {"writer", "rotator"} : PublishTemp(t)) \/
          (\E t \in {"writer", "rotator"} : SignalNextFd(t))
  <2>1. UNCHANGED <<where, current_fd_>>
    BY <1>10 DEF DestroyHandle, OpenTemp, PublishTemp, SignalNextFd, StartPreparing, AfterPrepare
  <2>2. \A n \in {Base} \cup RotatedNames : dir'[n] = dir[n]
    BY <1>10, UnmovedSteps DEF Unmoved
  <2>3. \A f : Shown(f)' <=> Shown(f)
    BY <2>1, <2>2, ShownMoved
  <2> QED BY <2>1, <2>3, Living, UnbrokenSame
<1>11. CASE (\E t \in {"writer", "rotator"} : GiveUpPreparing(t)) \/ CheckRunning \/
          Dequeue \/ HandleClose
  <2>1. UNCHANGED <<where, current_fd_>>
    BY <1>11 DEF GiveUpPreparing, CheckRunning, Dequeue, HandleClose, StartPreparing, AfterPrepare
  <2>2. \A n \in {Base} \cup RotatedNames : dir'[n] = dir[n]
    BY <1>11, UnmovedSteps DEF Unmoved
  <2>3. \A f : Shown(f)' <=> Shown(f)
    BY <2>1, <2>2, ShownMoved
  <2> QED BY <2>1, <2>3, Living, UnbrokenSame
<1>12. CASE CloseOld \/ LinkFails \/ ComputeNextTime \/ ClearRunning \/ EnqueueShutdown
  <2>1. UNCHANGED <<where, current_fd_>>
    BY <1>12 DEF CloseOld, LinkFails, ComputeNextTime, ClearRunning, EnqueueShutdown,
       StartPreparing,
         AfterPrepare
  <2>2. \A n \in {Base} \cup RotatedNames : dir'[n] = dir[n]
    BY <1>12, UnmovedSteps DEF Unmoved
  <2>3. \A f : Shown(f)' <=> Shown(f)
    BY <2>1, <2>2, ShownMoved
  <2> QED BY <2>1, <2>3, Living, UnbrokenSame
<1>13. CASE UNCHANGED vars
  <2>1. UNCHANGED <<where, current_fd_, dir>>
    BY <1>13
  <2>2. \A f : Shown(f)' <=> Shown(f)
    BY <2>1, ShownMoved
  <2> QED BY <2>1, <2>2, Living, UnbrokenSame
<1> QED BY <1>1, <1>2, <1>3, <1>4, <1>5, <1>6, <1>7, <1>8, <1>9, <1>10, <1>11, <1>12, <1>13, NextCases

(* What is shown is what can be found.                                       *)
LEMMA ShownFindable ==
    ASSUME Inv, Alive, pc["writer"] # "open"
    PROVE  /\ \A f : Shown(f) => Findable(f)
           /\ \A n \in DOMAIN where : Findable(where[n]) => Shown(where[n])
<1>1. Findable(current_fd_)
  <2>1. CASE ~Pending
    BY <2>1 DEF Inv, Named, BaseLeads, LeadsNow, Findable
  <2>2. CASE Pending
    <3>1. current_fd_ \in 1 .. files
      BY DEF Inv, Ordered, Ascending, Types, FileTypes, NoFd
    <3>2. dir[Temp(current_fd_)] = current_fd_
      BY <2>2, <3>1 DEF Inv, Temps, Needed, Alive
    <3>3. current_fd_ \in Underway
      <4>1. CASE Swapped
        BY <4>1 DEF Inv, Ordered, Ascending, Swapped, Underway
      <4>2. CASE Queued
        BY <4>2 DEF Inv, Ordered, QueueOlder, Queued, Underway
      <4>3. CASE Renaming
        BY <4>3 DEF Inv, Ordered, Ascending, Rotating, Underway
      <4> QED BY <2>2, <4>1, <4>2, <4>3 DEF Pending
    <3> QED BY <3>2, <3>3 DEF Findable
  <2> QED BY <2>1, <2>2
<1>2. ASSUME NEW n \in DOMAIN where, dir[Temp(where[n])] = where[n]
      PROVE  where[n] = current_fd_
  <2>1. /\ where[n] \in 1 .. files /\ files \in Nat /\ where[n] <= current_fd_
        /\ current_fd_ \in Nat /\ next_fd_ \in Nat /\ new_fd \in Nat
    BY DEF Inv, Types, FileTypes, Written, Growing
  <2>2. where[n] \in 1 .. MaxFiles
    BY <2>1, FilesBound, NameFacts DEF Inv
  <2>3. Needed(where[n])
    BY <1>2, <2>1, <2>2 DEF Inv, Named, TempsGone, NoFile
  <2>4. (Prepared => current_fd_ < next_fd_) /\ (pc["writer"] = "swap" => current_fd_ < new_fd)
    BY DEF Inv, Ordered, Ascending
  <2> QED BY <2>1, <2>3, <2>4 DEF Needed
<1> QED BY <1>1, <1>2 DEF Shown, Findable

LEMMA Continuity ==
    ASSUME Inv, Unbroken PROVE LogContinuous
<1>1. ASSUME ~gave_up, running_
      PROVE  /\ \A m, n \in DOMAIN where : m <= n /\ Findable(where[m]) => Findable(where[n])
             /\ Opened => Findable(current_fd_)
  <2>1. Alive
    BY <1>1 DEF Inv, Token, Service, Stopping, Alive
  <2>2. CASE pc["writer"] # "open"
    <3>1. /\ \A f : Shown(f) => Findable(f)
          /\ \A n \in DOMAIN where : Findable(where[n]) => Shown(where[n])
      BY <2>1, <2>2, ShownFindable
    <3>2. Shown(current_fd_)
      BY DEF Shown
    <3> QED BY <2>1, <3>1, <3>2 DEF Unbroken
  <2>3. CASE pc["writer"] = "open"
    <3>1. \A n \in DOMAIN where : Findable(where[n])
      BY <2>3, UntouchedShown DEF Inv, Findable
    <3> QED BY <3>1, <2>3 DEF Opened
  <2> QED BY <2>2, <2>3
<1>2. pc["writer"] # "open" /\ faults["link"] = 0 => Exists(Base)
  BY DEF Inv, BaseNamed
<1> QED BY <1>1, <1>2 DEF LogContinuous

(* Without a limit of the total size, what can be found of the log is always *)
(* its newest part, without gaps, and the log's name leads to a file as long *)
(* as link() works: for any number of lines, files, rotations and failures   *)
(* that are not final (get_next_fd, perform_zero_gap_rotation,               *)
(* apply_retention_timestamped, emergency_cleanup).                          *)
THEOREM LogStaysContinuous == ASSUME MaxTotal = 0 PROVE Spec => []LogContinuous
<1>1. Init => Unbroken
  <2> SUFFICES ASSUME Init PROVE Unbroken
    OBVIOUS
  <2>1. Untouched /\ pc["writer"] = "open"
    BY InitFiles DEF Init, Threads
  <2> QED BY <2>1, UntouchedShown DEF Unbroken, Shown
<1>2. Inv /\ Unbroken /\ [Next]_vars => Unbroken'
  <2> SUFFICES ASSUME Inv, Unbroken, [Next]_vars, Alive' PROVE Unbroken'
    BY DEF Unbroken
  <2> QED BY UnbrokenStep
<1>3. Inv /\ Unbroken => LogContinuous
  BY Continuity
<1> QED BY <1>1, <1>2, <1>3, Invariance, PTL DEF Spec

=============================================================================
