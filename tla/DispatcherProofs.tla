-------------------------- MODULE DispatcherProofs --------------------------
(***************************************************************************)
(* Proofs that the running dispatcher keeps its buffers, its tickets and    *)
(* its promises, for any threads, buffers, batch size and number of calls.  *)
(***************************************************************************)
EXTENDS DispatcherProperties, SequenceTheorems, FiniteSetTheorems, FunctionTheorems, WellFoundedInduction, TLAPS

Elements(s) == {s[i] : i \in 1 .. Len(s)}
Distinct(s) == \A i, j \in 1 .. Len(s) : s[i] = s[j] => i = j
Upto(s, n)  == SubSeq(s, 1, n)
After(s, n) == SubSeq(s, n + 1, Len(s))

(* Natural numbers are well-founded: this stands in for induction.          *)
LEMMA NatMin == ASSUME NEW T \in SUBSET Nat, T # {}
                PROVE  \E x \in T : \A y \in T : x <= y
<1> DEFINE Less == {p \in Nat \X Nat : p[1] < p[2]}
<1>1. IsWellFoundedOn(Less, Nat)
  BY NatLessThanWellFounded DEF OpToRel
<1> HIDE DEF Less
<1>2. PICK x \in T : \A y \in T : <<y, x>> \notin Less
  BY <1>1, WFMin
<1>3. ASSUME NEW y \in T PROVE x <= y
  <2>1. <<y, x>> \in Less <=> y < x
    BY DEF Less
  <2> QED BY <2>1, <1>2
<1> QED BY <1>3

LEMMA Appended == ASSUME NEW S, NEW s \in Seq(S), NEW x \in S
                  PROVE  /\ Append(s, x) \in Seq(S) /\ Elements(Append(s, x)) = Elements(s) \cup {x}
                         /\ Distinct(s) /\ x \notin Elements(s) => Distinct(Append(s, x))
<1> DEFINE r == Append(s, x)
<1>1. /\ r \in Seq(S) /\ Len(r) = Len(s) + 1 /\ Len(s) \in Nat /\ r[Len(s) + 1] = x
      /\ \A i \in 1 .. Len(s) : r[i] = s[i]
  BY AppendProperties
<1> HIDE DEF r
<1>2. 1 .. Len(r) = (1 .. Len(s)) \cup {Len(s) + 1}
  BY <1>1
<1>3. Elements(r) = Elements(s) \cup {x}
  <2>1. \A y \in Elements(r) : y \in Elements(s) \cup {x}
    BY <1>1, <1>2 DEF Elements
  <2>2. \A y \in Elements(s) \cup {x} : y \in Elements(r)
    BY <1>1, <1>2 DEF Elements
  <2> QED BY <2>1, <2>2
<1>4. Distinct(s) /\ x \notin Elements(s) => Distinct(r)
  BY <1>1, <1>2 DEF Distinct, Elements
<1> QED BY <1>1, <1>3, <1>4 DEF r

LEMMA Removed == ASSUME NEW S, NEW s \in Seq(S), s # <<>>
                 PROVE  /\ Head(s) \in S /\ Head(s) \in Elements(s) /\ Tail(s) \in Seq(S)
                        /\ Elements(Tail(s)) \subseteq Elements(s)
                        /\ Distinct(s) => /\ Distinct(Tail(s))
                                          /\ Elements(Tail(s)) = Elements(s) \ {Head(s)}
<1>1. /\ Len(s) \in Nat \ {0} /\ Tail(s) \in Seq(S) /\ Len(Tail(s)) = Len(s) - 1
      /\ \A i \in 1 .. Len(s) - 1 : Tail(s)[i] = s[i + 1]
      /\ Head(s) = s[1] /\ Head(s) \in S
  OBVIOUS
<1>2. Head(s) \in Elements(s)
  BY <1>1 DEF Elements
<1>3. ASSUME NEW x \in Elements(Tail(s))
      PROVE  x \in Elements(s) /\ (Distinct(s) => x # Head(s))
  <2>1. PICK i \in 1 .. Len(s) - 1 : x = s[i + 1]
    BY <1>1 DEF Elements
  <2>2. i + 1 \in 1 .. Len(s) /\ 1 \in 1 .. Len(s) /\ i + 1 # 1
    BY <1>1
  <2> QED BY <1>1, <2>1, <2>2 DEF Elements, Distinct
<1>4. ASSUME NEW x \in Elements(s), x # Head(s) PROVE x \in Elements(Tail(s))
  <2>1. PICK i \in 1 .. Len(s) : x = s[i]
    BY DEF Elements
  <2>2. i - 1 \in 1 .. Len(s) - 1 /\ Tail(s)[i - 1] = s[i]
    BY <1>1, <1>4, <2>1
  <2> QED BY <1>1, <2>1, <2>2 DEF Elements
<1>5. Distinct(s) => Distinct(Tail(s))
  <2> SUFFICES ASSUME Distinct(s), NEW i \in 1 .. Len(s) - 1, NEW j \in 1 .. Len(s) - 1,
                      s[i + 1] = s[j + 1]
               PROVE  i = j
    BY <1>1 DEF Distinct
  <2>1. i + 1 \in 1 .. Len(s) /\ j + 1 \in 1 .. Len(s)
    BY <1>1
  <2>2. i + 1 = j + 1
    BY <2>1 DEF Distinct
  <2> QED BY <2>2
<1> QED BY <1>1, <1>2, <1>3, <1>4, <1>5

LEMMA FewElements == ASSUME NEW S
                     PROVE  /\ <<>> \in Seq(S) /\ Elements(<<>>) = {} /\ Distinct(<<>>)
                            /\ \A x \in S : <<x>> \in Seq(S) /\ Elements(<<x>>) = {x} /\ Distinct(<<x>>)
  BY DEF Elements, Distinct

LEMMA ElementsIn == ASSUME NEW S, NEW s \in Seq(S)
                    PROVE  /\ Elements(s) \subseteq S /\ (s # <<>> <=> Elements(s) # {})
                           /\ \A i \in DOMAIN s : s[i] \in Elements(s)
<1>1. Len(s) \in Nat /\ DOMAIN s = 1 .. Len(s) /\ \A i \in 1 .. Len(s) : s[i] \in S
  OBVIOUS
<1>2. s # <<>> => s[1] \in Elements(s)
  <2>1. s # <<>> => 1 \in 1 .. Len(s)
    OBVIOUS
  <2> QED BY <2>1 DEF Elements
<1> QED BY <1>1, <1>2, FewElements DEF Elements

LEMMA CutInTwo ==
    ASSUME NEW S, NEW s \in Seq(S), NEW n \in 0 .. Len(s)
    PROVE  /\ Upto(s, n) \in Seq(S) /\ After(s, n) \in Seq(S) /\ s = Upto(s, n) \o After(s, n)
           /\ Len(Upto(s, n)) = n /\ Len(After(s, n)) = Len(s) - n
           /\ \A i \in 1 .. n : Upto(s, n)[i] = s[i]
           /\ Elements(Upto(s, n)) \subseteq Elements(s)
           /\ Elements(After(s, n)) \subseteq Elements(s)
           /\ Distinct(s) => /\ Distinct(Upto(s, n)) /\ Distinct(After(s, n))
                             /\ Elements(After(s, n)) = Elements(s) \ Elements(Upto(s, n))
<1> DEFINE l == Upto(s, n)
           r == After(s, n)
<1>1. Len(s) \in Nat /\ n \in Nat /\ n <= Len(s) /\ \A i \in 1 .. Len(s) : s[i] \in S
  OBVIOUS
<1>2. /\ l \in Seq(S) /\ Len(l) = n
      /\ \A i \in 1 .. n : l[i] = s[i]
  BY <1>1, SubSeqProperties DEF Upto
<1>3. /\ r \in Seq(S) /\ Len(r) = Len(s) - n
      /\ \A i \in 1 .. Len(s) - n : r[i] = s[n + i]
  BY <1>1, SubSeqProperties DEF After
<1>4. s = l \o r
  <2>1. 1 \in 1 .. Len(s) + 1 /\ n \in 1 - 1 .. Len(s) /\ Len(s) \in n .. Len(s)
    BY <1>1
  <2>2. l \o r = SubSeq(s, 1, Len(s))
    BY <2>1, ConcatAdjacentSubSeq DEF Upto, After
  <2> QED BY <2>2, SubSeqFull
<1> HIDE DEF l, r
<1>5. Elements(l) \subseteq Elements(s) /\ Elements(r) \subseteq Elements(s)
  <2>1. \A i \in 1 .. Len(l) : l[i] \in Elements(s)
    BY <1>1, <1>2 DEF Elements
  <2>2. ASSUME NEW i \in 1 .. Len(r) PROVE r[i] \in Elements(s)
    <3>1. n + i \in 1 .. Len(s)
      BY <1>1, <1>3
    <3> QED BY <3>1, <1>3 DEF Elements
  <2> QED BY <2>1, <2>2 DEF Elements
<1>6. ASSUME Distinct(s) PROVE Distinct(l) /\ Distinct(r)
  <2>1. Distinct(l)
    BY <1>1, <1>2, <1>6 DEF Distinct
  <2>2. ASSUME NEW i \in 1 .. Len(r), NEW j \in 1 .. Len(r), r[i] = r[j] PROVE i = j
    <3>1. i \in 1 .. Len(s) - n /\ j \in 1 .. Len(s) - n
      BY <1>3
    <3>2. n + i \in 1 .. Len(s) /\ n + j \in 1 .. Len(s)
      BY <1>1, <3>1
    <3>3. s[n + i] = s[n + j]
      BY <1>3, <2>2, <3>1
    <3>4. n + i = n + j
      BY <3>2, <3>3, <1>6 DEF Distinct
    <3> QED BY <3>1, <3>4, <1>1
  <2> QED BY <2>1, <2>2 DEF Distinct
<1>7. ASSUME Distinct(s), NEW x \in Elements(s)
      PROVE  x \in Elements(r) <=> x \notin Elements(l)
  <2>1. PICK i \in 1 .. Len(s) : x = s[i]
    BY DEF Elements
  <2>2. ASSUME x \in Elements(r), x \in Elements(l) PROVE FALSE
    <3>1. PICK j \in 1 .. Len(l) : x = l[j]
      BY <2>2 DEF Elements
    <3>2. PICK k \in 1 .. Len(r) : x = r[k]
      BY <2>2 DEF Elements
    <3>3. j \in 1 .. n /\ k \in 1 .. Len(s) - n
      BY <1>2, <1>3, <3>1, <3>2
    <3>4. s[j] = x /\ s[n + k] = x
      BY <1>2, <1>3, <3>1, <3>2, <3>3
    <3>5. j \in 1 .. Len(s) /\ n + k \in 1 .. Len(s) /\ j # n + k
      BY <1>1, <3>3
    <3> QED BY <3>4, <3>5, <1>7 DEF Distinct
  <2>3. CASE i <= n
    <3>1. i \in 1 .. Len(l) /\ l[i] = x
      BY <1>1, <1>2, <2>1, <2>3
    <3> QED BY <3>1, <2>2 DEF Elements
  <2>4. CASE ~(i <= n)
    <3>1. i - n \in 1 .. Len(r) /\ r[i - n] = x
      BY <1>1, <1>3, <2>1, <2>4
    <3> QED BY <3>1, <2>2 DEF Elements
  <2> QED BY <2>3, <2>4
<1>8. Distinct(s) => Elements(r) = Elements(s) \ Elements(l)
  BY <1>5, <1>7
<1> QED BY <1>2, <1>3, <1>4, <1>5, <1>6, <1>8 DEF l, r

(* Of the elements of a sequence without repetitions each counts once.      *)
LEMMA CountedOnce ==
    ASSUME NEW S, NEW s \in Seq(S), Distinct(s)
    PROVE  \A b : Cardinality({i \in DOMAIN s : s[i] = b}) = IF b \in Elements(s) THEN 1 ELSE 0
<1> SUFFICES ASSUME NEW b
             PROVE  Cardinality({i \in DOMAIN s : s[i] = b}) = IF b \in Elements(s) THEN 1 ELSE 0
  OBVIOUS
<1>1. DOMAIN s = 1 .. Len(s)
  OBVIOUS
<1>2. CASE b \in Elements(s)
  <2>1. PICK i \in 1 .. Len(s) : s[i] = b
    BY <1>2 DEF Elements
  <2>2. {j \in DOMAIN s : s[j] = b} = {i}
    BY <1>1, <2>1 DEF Distinct
  <2> QED BY <1>2, <2>2, FS_Singleton
<1>3. CASE b \notin Elements(s)
  <2>1. {j \in DOMAIN s : s[j] = b} = {}
    BY <1>1, <1>3 DEF Elements
  <2> QED BY <1>3, <2>1, FS_EmptySet
<1> QED BY <1>2, <1>3

(* A set of positions that has with each the ones before it has its size as *)
(* last position.                                                           *)
LEMMA Prefix == ASSUME NEW n \in Nat, NEW P \in SUBSET (1 .. n),
                       \A i \in P : \A j \in 1 .. i : j \in P
                PROVE  Cardinality(P) \in 0 .. n /\ P = 1 .. Cardinality(P)
<1> DEFINE T == {k \in Nat : k + 1 \notin P}
<1>1. n \in T
  OBVIOUS
<1>2. PICK m \in T : \A y \in T : m <= y
  BY <1>1, NatMin
<1>3. m <= n
  BY <1>1, <1>2
<1>4. ASSUME NEW i \in 1 .. m PROVE i \in P
  <2>1. i - 1 \in Nat /\ ~(m <= i - 1)
    BY <1>2
  <2>2. i - 1 \notin T
    BY <2>1, <1>2
  <2> QED BY <2>1, <2>2
<1>5. ASSUME NEW i \in P PROVE i \in 1 .. m
  <2>1. i \in 1 .. n
    OBVIOUS
  <2>2. ASSUME i > m PROVE FALSE
    <3>1. m + 1 \in 1 .. i
      BY <1>2, <2>1, <2>2
    <3> QED BY <3>1, <1>2
  <2> QED BY <1>2, <2>1, <2>2
<1>6. P = 1 .. m
  BY <1>4, <1>5
<1>7. Cardinality(1 .. m) = m
  BY <1>2, FS_Interval
<1> QED BY <1>2, <1>3, <1>6, <1>7

(* What the worker processes up to the next marker.                         *)
LEMMA RunAndRest ==
    ASSUME NEW s \in Seq(Buffers)
    PROVE  /\ Run(s) \in Seq(Buffers) /\ Rest(s) \in Seq(Buffers) /\ s = Run(s) \o Rest(s)
           /\ Len(Rest(s)) <= Len(s)
           /\ \A b \in Elements(Run(s)) : content[b] # NoMsg
           /\ Elements(Run(s)) \subseteq Elements(s) /\ Elements(Rest(s)) \subseteq Elements(s)
           /\ Distinct(s) => /\ Distinct(Run(s)) /\ Distinct(Rest(s))
                             /\ Elements(Rest(s)) = Elements(s) \ Elements(Run(s))
<1> DEFINE P == {n \in DOMAIN s : \A i \in 1 .. n : IsMessage(s[i])}
           m == Cardinality(P)
<1>1. Len(s) \in Nat /\ DOMAIN s = 1 .. Len(s)
  OBVIOUS
<1>2. P \in SUBSET (1 .. Len(s)) /\ \A i \in P : \A j \in 1 .. i : j \in P
  BY <1>1
<1>3. m \in 0 .. Len(s) /\ P = 1 .. m
  BY <1>1, <1>2, Prefix
<1>4. ASSUME NEW i \in 1 .. m PROVE content[s[i]] # NoMsg
  BY <1>3 DEF IsMessage
<1> HIDE DEF P
<1>5. Run(s) = Upto(s, m)
  BY DEF Run, P, Upto
<1> HIDE DEF m
<1>6. Len(Upto(s, m)) = m
  BY <1>3, CutInTwo
<1>7. Rest(s) = After(s, m)
  BY <1>5, <1>6 DEF Rest, After
<1>8. /\ Run(s) \in Seq(Buffers) /\ Rest(s) \in Seq(Buffers) /\ s = Run(s) \o Rest(s)
      /\ Len(Run(s)) = m /\ Len(Rest(s)) = Len(s) - m
      /\ \A i \in 1 .. m : Run(s)[i] = s[i]
      /\ Elements(Run(s)) \subseteq Elements(s) /\ Elements(Rest(s)) \subseteq Elements(s)
      /\ Distinct(s) => /\ Distinct(Run(s)) /\ Distinct(Rest(s))
                        /\ Elements(Rest(s)) = Elements(s) \ Elements(Run(s))
  <2> DEFINE l == Upto(s, m)
             r == After(s, m)
  <2>1. l \in Seq(Buffers) /\ r \in Seq(Buffers) /\ s = l \o r
    BY <1>3, CutInTwo
  <2>2. /\ Len(l) = m /\ Len(r) = Len(s) - m
        /\ \A i \in 1 .. m : l[i] = s[i]
    BY <1>3, CutInTwo
  <2>3. /\ Elements(l) \subseteq Elements(s) /\ Elements(r) \subseteq Elements(s)
        /\ Distinct(s) => Distinct(l) /\ Distinct(r) /\ Elements(r) = Elements(s) \ Elements(l)
    BY <1>3, CutInTwo
  <2> QED BY <1>5, <1>7, <2>1, <2>2, <2>3
<1>9. \A b \in Elements(Run(s)) : content[b] # NoMsg
  BY <1>4, <1>8 DEF Elements
<1>10. Len(Rest(s)) <= Len(s)
  BY <1>1, <1>3, <1>8
<1> QED BY <1>8, <1>9, <1>10

-----------------------------------------------------------------------------
(* The numbers of a thread's messages in a sequence of buffers.             *)

IsBy(text, t, x) == x # Null /\ text[x] # NoMsg /\ text[x][1] = t
Grown(text, t, x, ns) == IF IsBy(text, t, x) THEN Append(ns, text[x][2]) ELSE ns
Counts(text, t, s, n, N) ==
    N = [i \in 0 .. n |-> IF i = 0 THEN <<>> ELSE Grown(text, t, s[i], N[i - 1])]
Numbers(text, t, s) == (CHOOSE N : Counts(text, t, s, Len(s), N))[Len(s)]
Texts == [Buffers -> {NoMsg} \cup (Threads \X Nat)]

LEMMA NumbersOfIsNumbers == ASSUME NEW t, NEW s PROVE NumbersOf(t, s) = Numbers(content, t, s)
  BY DEF NumbersOf, Numbers, Counts, Grown, IsBy, IsMessage

LEMMA CountsAt == ASSUME NEW text, NEW t, NEW s, NEW n \in Nat, NEW N, Counts(text, t, s, n, N)
                  PROVE  /\ N[0] = <<>>
                         /\ \A i \in 1 .. n : N[i] = Grown(text, t, s[i], N[i - 1])
<1> DEFINE F(i) == IF i = 0 THEN <<>> ELSE Grown(text, t, s[i], N[i - 1])
<1>1. N = [i \in 0 .. n |-> F(i)]
  BY DEF Counts
<1>2. \A i \in 0 .. n : N[i] = F(i)
  BY <1>1
<1> QED BY <1>2

LEMMA CountsExists == ASSUME NEW text, NEW t, NEW s, NEW n \in Nat
                      PROVE  \E N : Counts(text, t, s, n, N)
<1> DEFINE Bad == {m \in Nat : ~ \E N : Counts(text, t, s, m, N)}
<1> SUFFICES ASSUME Bad # {} PROVE FALSE
  OBVIOUS
<1>1. PICK m \in Bad : \A k \in Bad : m <= k
  BY NatMin
<1>2. m # 0
  <2>1. Counts(text, t, s, 0, [i \in 0 .. 0 |-> <<>>])
    BY DEF Counts
  <2> QED BY <2>1
<1>3. m - 1 \in Nat /\ m - 1 \notin Bad
  BY <1>1, <1>2
<1>4. PICK N : Counts(text, t, s, m - 1, N)
  BY <1>3
<1> DEFINE M == [i \in 0 .. m |-> IF i = m THEN Grown(text, t, s[m], N[m - 1]) ELSE N[i]]
<1>5. ASSUME NEW i \in 0 .. m
      PROVE  M[i] = IF i = 0 THEN <<>> ELSE Grown(text, t, s[i], M[i - 1])
  <2>1. CASE i = m
    BY <2>1, <1>2
  <2>2. CASE i # m
    <3>1. i \in 0 .. m - 1 /\ M[i] = N[i] /\ (i # 0 => M[i - 1] = N[i - 1])
      BY <2>2, <1>3
    <3>2. CASE i = 0
      BY <3>1, <3>2, <1>3, <1>4, CountsAt
    <3>3. CASE i # 0
      <4>1. i \in 1 .. m - 1
        BY <3>1, <3>3
      <4>2. N[i] = Grown(text, t, s[i], N[i - 1])
        BY <4>1, <1>3, <1>4, CountsAt
      <4> QED BY <3>1, <3>3, <4>2
    <3> QED BY <3>2, <3>3
  <2> QED BY <2>1, <2>2
<1>6. Counts(text, t, s, m, M)
  BY <1>5 DEF Counts
<1> QED BY <1>6

(* Counting the same buffers with the same texts gives the same.            *)
LEMMA CountsSame ==
    ASSUME NEW c, NEW d, NEW t, NEW s, NEW r, NEW n \in Nat, NEW m \in Nat, NEW N, NEW M,
           Counts(c, t, s, n, N), Counts(d, t, r, m, M),
           NEW k \in Nat, k <= n, k <= m, \A i \in 1 .. k : s[i] = r[i] /\ c[s[i]] = d[r[i]]
    PROVE  N[k] = M[k]
<1> DEFINE Bad == {j \in Nat : j <= k /\ N[j] # M[j]}
<1> SUFFICES ASSUME Bad # {} PROVE FALSE
  OBVIOUS
<1>1. PICK j \in Bad : \A i \in Bad : j <= i
  BY NatMin
<1>2. j # 0
  BY CountsAt
<1>3. j - 1 \in Nat /\ j - 1 \notin Bad /\ j \in 1 .. k
  BY <1>1, <1>2
<1>4. N[j - 1] = M[j - 1]
  BY <1>3
<1>5. j \in 1 .. n /\ j \in 1 .. m
  BY <1>3
<1>6. N[j] = Grown(c, t, s[j], N[j - 1]) /\ M[j] = Grown(d, t, r[j], M[j - 1])
  BY <1>5, CountsAt
<1>7. s[j] = r[j] /\ c[s[j]] = d[r[j]]
  BY <1>3
<1> QED BY <1>4, <1>6, <1>7 DEF Grown, IsBy

LEMMA NumbersCounts == ASSUME NEW text, NEW t, NEW S, NEW s \in Seq(S)
                       PROVE  \E N : Counts(text, t, s, Len(s), N) /\ Numbers(text, t, s) = N[Len(s)]
<1>1. Len(s) \in Nat
  OBVIOUS
<1>2. Counts(text, t, s, Len(s), CHOOSE N : Counts(text, t, s, Len(s), N))
  BY <1>1, CountsExists
<1> QED BY <1>2 DEF Numbers

LEMMA NumbersSame == ASSUME NEW c, NEW d, NEW t, NEW S, NEW s \in Seq(S), \A x \in Elements(s) : c[x] = d[x]
                     PROVE  Numbers(c, t, s) = Numbers(d, t, s)
<1>1. Len(s) \in Nat /\ \A i \in 1 .. Len(s) : c[s[i]] = d[s[i]]
  BY DEF Elements
<1>2. PICK N : Counts(c, t, s, Len(s), N) /\ Numbers(c, t, s) = N[Len(s)]
  BY NumbersCounts
<1>3. PICK M : Counts(d, t, s, Len(s), M) /\ Numbers(d, t, s) = M[Len(s)]
  BY NumbersCounts
<1>4. N[Len(s)] = M[Len(s)]
  <2> DEFINE n == Len(s)
  <2>1. n \in Nat /\ n <= n /\ Counts(c, t, s, n, N) /\ Counts(d, t, s, n, M)
    BY <1>1, <1>2, <1>3
  <2>2. \A i \in 1 .. n : s[i] = s[i] /\ c[s[i]] = d[s[i]]
    BY <1>1
  <2> HIDE DEF n
  <2>3. N[n] = M[n]
    BY <2>1, <2>2, CountsSame
  <2> QED BY <2>3 DEF n
<1> QED BY <1>2, <1>3, <1>4

LEMMA NumbersEmpty == ASSUME NEW text, NEW t PROVE Numbers(text, t, <<>>) = <<>>
<1>1. PICK N : Counts(text, t, <<>>, 0, N) /\ Numbers(text, t, <<>>) = N[0]
  <2>1. <<>> \in Seq({}) /\ Len(<<>>) = 0
    OBVIOUS
  <2> QED BY <2>1, NumbersCounts
<1> QED BY <1>1, CountsAt

LEMMA NumbersAppended == ASSUME NEW text, NEW t, NEW S, NEW s \in Seq(S), NEW x \in S
                         PROVE  Numbers(text, t, Append(s, x)) = Grown(text, t, x, Numbers(text, t, s))
<1> DEFINE r == Append(s, x)
<1>1. r \in Seq(S) /\ Len(s) \in Nat /\ Len(r) = Len(s) + 1
      /\ r[Len(s) + 1] = x /\ \A i \in 1 .. Len(s) : s[i] = r[i]
  BY AppendProperties
<1> HIDE DEF r
<1>2. PICK N : Counts(text, t, s, Len(s), N) /\ Numbers(text, t, s) = N[Len(s)]
  BY NumbersCounts
<1>3. PICK M : Counts(text, t, r, Len(r), M) /\ Numbers(text, t, r) = M[Len(r)]
  BY <1>1, NumbersCounts
<1>4. N[Len(s)] = M[Len(s)]
  <2>1. Len(s) <= Len(r) /\ Len(r) \in Nat /\ \A i \in 1 .. Len(s) : s[i] = r[i] /\ text[s[i]] = text[r[i]]
    BY <1>1
  <2> QED BY <1>1, <1>2, <1>3, <2>1, CountsSame
<1>5. M[Len(r)] = Grown(text, t, r[Len(r)], M[Len(r) - 1])
  <2>1. Len(r) \in 1 .. Len(r) /\ Len(r) \in Nat
    BY <1>1
  <2> QED BY <1>3, <2>1, CountsAt
<1> QED BY <1>1, <1>2, <1>3, <1>4, <1>5 DEF r

LEMMA NumbersType == ASSUME NEW text \in Texts, NEW t
                     PROVE  \A s \in Seq(Buffers) : Numbers(text, t, s) \in Seq(Nat)
<1> DEFINE Bad == {n \in Nat : \E s \in Seq(Buffers) : Len(s) = n /\ Numbers(text, t, s) \notin Seq(Nat)}
<1>1. ASSUME NEW n \in Bad, \A k \in Bad : n <= k PROVE FALSE
  <2>1. PICK r \in Seq(Buffers) : Len(r) = n /\ Numbers(text, t, r) \notin Seq(Nat)
    OBVIOUS
  <2>2. \A s \in Seq(Buffers) : Len(s) < n => Numbers(text, t, s) \in Seq(Nat)
    <3> SUFFICES ASSUME NEW s \in Seq(Buffers), Len(s) < n PROVE Len(s) \in Nat /\ Len(s) \notin Bad
      OBVIOUS
    <3> QED BY <1>1
  <2> HIDE DEF Bad
  <2>3. r # <<>>
    BY <2>1, NumbersEmpty
  <2>4. PICK p \in Seq(Buffers), x \in Buffers : r = Append(p, x)
    BY <2>3, SequenceEmptyOrAppend
  <2>5. Numbers(text, t, p) \in Seq(Nat)
    BY <2>1, <2>2, <2>4, AppendProperties
  <2>6. Numbers(text, t, r) = Grown(text, t, x, Numbers(text, t, p))
    BY <2>4, NumbersAppended
  <2>7. text[x] # NoMsg => text[x][2] \in Nat
    BY DEF Texts
  <2> QED BY <2>1, <2>5, <2>6, <2>7, AppendProperties DEF Grown, IsBy
<1> SUFFICES ASSUME NEW s \in Seq(Buffers), Numbers(text, t, s) \notin Seq(Nat) PROVE FALSE
  OBVIOUS
<1>2. Bad \in SUBSET Nat /\ Len(s) \in Bad
  OBVIOUS
<1> HIDE DEF Bad
<1>3. \E n \in Bad : \A k \in Bad : n <= k
  BY <1>2, NatMin
<1> QED BY <1>1, <1>3

LEMMA AppendedToJoined == ASSUME NEW a \in Seq(Nat), NEW b \in Seq(Nat), NEW n \in Nat
                          PROVE  Append(a \o b, n) = a \o Append(b, n)
<1>1. <<n>> \in Seq(Nat) /\ a \o b \in Seq(Nat)
  OBVIOUS
<1>2. Append(a \o b, n) = (a \o b) \o <<n>> /\ Append(b, n) = b \o <<n>>
  BY <1>1, AppendIsConcat
<1>3. (a \o b) \o <<n>> = a \o (b \o <<n>>)
  BY <1>1, ConcatAssociative
<1> QED BY <1>2, <1>3

LEMMA GrownJoined == ASSUME NEW text \in Texts, NEW t, NEW x \in Buffers, NEW a \in Seq(Nat), NEW b \in Seq(Nat)
                     PROVE  Grown(text, t, x, a \o b) = a \o Grown(text, t, x, b)
<1>1. CASE IsBy(text, t, x)
  <2>1. text[x][2] \in Nat
    BY <1>1 DEF Texts, IsBy
  <2> QED BY <1>1, <2>1, AppendedToJoined DEF Grown
<1>2. CASE ~IsBy(text, t, x)
  BY <1>2 DEF Grown
<1> QED BY <1>1, <1>2

LEMMA NumbersJoined ==
    ASSUME NEW text \in Texts, NEW t, NEW s \in Seq(Buffers)
    PROVE  \A r \in Seq(Buffers) : Numbers(text, t, s \o r) = Numbers(text, t, s) \o Numbers(text, t, r)
<1> DEFINE Joins(r) == Numbers(text, t, s \o r) = Numbers(text, t, s) \o Numbers(text, t, r)
           Bad == {n \in Nat : \E r \in Seq(Buffers) : Len(r) = n /\ ~Joins(r)}
<1>1. ASSUME NEW n \in Bad, \A k \in Bad : n <= k PROVE FALSE
  <2>1. PICK r \in Seq(Buffers) : Len(r) = n /\ ~Joins(r)
    OBVIOUS
  <2>2. \A z \in Seq(Buffers) : Len(z) < n => Joins(z)
    <3> SUFFICES ASSUME NEW z \in Seq(Buffers), Len(z) < n PROVE Len(z) \in Nat /\ Len(z) \notin Bad
      OBVIOUS
    <3> QED BY <1>1
  <2> HIDE DEF Bad
  <2> DEFINE a == Numbers(text, t, s)
  <2>3. a \in Seq(Nat)
    BY NumbersType
  <2>4. Joins(<<>>)
    <3>1. s \o <<>> = s /\ a \o <<>> = a
      BY <2>3
    <3> QED BY <3>1, NumbersEmpty
  <2>5. PICK p \in Seq(Buffers), x \in Buffers : r = Append(p, x)
    <3>1. r # <<>>
      BY <2>1, <2>4
    <3> QED BY <3>1, SequenceEmptyOrAppend
  <2>6. Joins(p)
    <3>1. Len(p) < Len(r)
      BY <2>5, AppendProperties
    <3> QED BY <2>1, <2>2, <3>1
  <2> DEFINE b == Numbers(text, t, p)
  <2>7. b \in Seq(Nat)
    BY NumbersType
  <2>8. Numbers(text, t, r) = Grown(text, t, x, b)
    BY <2>5, NumbersAppended
  <2>9. s \o r = Append(s \o p, x) /\ s \o p \in Seq(Buffers)
    BY <2>5
  <2>10. Numbers(text, t, s \o r) = Grown(text, t, x, a \o b)
    <3>1. Numbers(text, t, s \o r) = Grown(text, t, x, Numbers(text, t, s \o p))
      BY <2>9, NumbersAppended
    <3> QED BY <3>1, <2>6
  <2> HIDE DEF a, b
  <2>11. Grown(text, t, x, a \o b) = a \o Grown(text, t, x, b)
    BY <2>3, <2>7, GrownJoined
  <2> QED BY <2>1, <2>8, <2>10, <2>11 DEF a, b
<1> SUFFICES ASSUME NEW r \in Seq(Buffers), ~Joins(r) PROVE FALSE
  OBVIOUS
<1>2. Bad \in SUBSET Nat /\ Len(r) \in Bad
  OBVIOUS
<1> HIDE DEF Bad, Joins
<1>3. \E n \in Bad : \A k \in Bad : n <= k
  BY <1>2, NatMin
<1> QED BY <1>1, <1>3

LEMMA NumbersOne == ASSUME NEW text \in Texts, NEW t, NEW x \in Buffers
                    PROVE  /\ text[x] \notin {t} \X Nat => Numbers(text, t, <<x>>) = <<>>
                           /\ text[x] \in {t} \X Nat => Numbers(text, t, <<x>>) = <<text[x][2]>>
<1>1. <<x>> = Append(<<>>, x) /\ <<>> \in Seq(Buffers)
  OBVIOUS
<1>2. Numbers(text, t, Append(<<>>, x)) = Grown(text, t, x, <<>>)
  <2>1. Numbers(text, t, Append(<<>>, x)) = Grown(text, t, x, Numbers(text, t, <<>>))
    BY <1>1, NumbersAppended
  <2> QED BY <2>1, NumbersEmpty
<1>3. text[x] \in {NoMsg} \cup (Threads \X Nat) /\ x # Null
  BY DispatcherAssumption DEF Texts
<1>4. CASE text[x] = NoMsg
  <2>1. NoMsg \notin {t} \X Nat
    BY DEF NoMsg
  <2> QED BY <1>1, <1>2, <1>4, <2>1 DEF Grown, IsBy
<1>5. CASE text[x] # NoMsg
  <2>1. PICK u \in Threads, n \in Nat : text[x] = <<u, n>>
    BY <1>3, <1>5
  <2>2. IsBy(text, t, x) <=> u = t
    BY <1>3, <1>5, <2>1 DEF IsBy
  <2> QED BY <1>1, <1>2, <2>1, <2>2 DEF Grown
<1> QED BY <1>4, <1>5

-----------------------------------------------------------------------------
(* The invariant of a dispatcher that nobody has asked to shut down.        *)

Up == shutdowns = 0

Labels == {"idle", "writing", "swap", "enqueue", "signal", "close", "flush", "ticket", "lock",
           "signal_marker", "wait", "parked", "delete"}
WorkerLabels == {"report", "warn_load", "warn", "warn_reset", "dequeue", "process", "notify"}

Message(t) == {t} \X Nat

Types ==
    /\ pending \in Nat /\ misses \in Nat /\ sema \in Nat
    /\ content \in Texts
    /\ pc \in [Threads -> Labels]
    /\ line \in [Threads -> Buffers \cup {NoBuf}]
    /\ hand \in [Threads -> Buffers \cup {NoBuf}]
    /\ my_seq \in [Threads -> Nat]
    /\ logged \in [Threads -> Nat]
    /\ q \in [Producers -> Seq(Buffers)]
    /\ batch \in Seq(Buffers) /\ Len(batch) <= MaxBatch
    /\ warning \in Buffers \cup {NoBuf}
    /\ flush_seq_ \in Nat /\ flush_done_ \in Nat /\ flush_requested \in Nat
    /\ flush_mutex_ \in Threads \cup {NoThread}
    /\ parked \subseteq Threads
    /\ current_sinks_ \in Nat /\ config \in Nat
    /\ sink_modify_mutex_ \in Threads \cup {NoThread}
    /\ accepted \in [Threads -> Seq(Nat)] /\ handled \in [Threads -> Seq(Nat)]

(* Nobody has begun to stop the worker.                                     *)
Calm ==
    /\ shutdowns = 0 /\ cpc = "up" /\ shutdown_ = FALSE /\ should_shutdown = FALSE
    /\ wpc \in WorkerLabels

(* What a thread holds where it is.                                         *)
Holds(t) ==
    /\ pc[t] \in {"writing", "swap", "close"} => line[t] # NoBuf
    /\ pc[t] \notin {"writing", "swap", "enqueue", "signal", "close"} => line[t] = NoBuf
    /\ pc[t] \in {"enqueue", "ticket", "lock"} <=> hand[t] # NoBuf

(* What the worker and the threads hold where they are.                     *)
Holding ==
    /\ wpc \in {"warn_load", "warn"} <=> warning # NoBuf
    /\ wpc \in {"report", "warn_load", "warn", "warn_reset", "notify"} => batch = <<>>
    /\ \A t \in Threads : Holds(t)

(* What is written in a buffer: a thread's FIFO has its messages, that of   *)
(* its implicit producer markers.                                           *)
WrittenBy(t) ==
    /\ line[t] # NoBuf => content[line[t]] \in {NoMsg} \cup Message(t)
    /\ pc[t] = "swap" => content[line[t]] # NoMsg
    /\ pc[t] = "enqueue" => content[hand[t]] \in Message(t)
    /\ pc[t] \in {"ticket", "lock"} => content[hand[t]] = NoMsg
    /\ \A b \in Elements(q[Explicit(t)]) : content[b] \in Message(t)
    /\ \A b \in Elements(q[Implicit(t)]) : content[b] = NoMsg
PoolEmpty == \A b \in Buffers : avail[b] = 1 => content[b] = NoMsg

Written == /\ \A t \in Threads : WrittenBy(t)
           /\ q[Implicit(Ctl)] = <<>>
           /\ PoolEmpty

(* Every buffer has one owner.                                              *)
Pooled  == <<"pool", 0>>
Line(t) == <<"line", t>>
Hand(t) == <<"hand", t>>
Queue(k) == <<"queue", k>>
Batch   == <<"batch", 0>>
Warning == <<"warning", 0>>
Holders == {Pooled, Batch, Warning} \cup {Line(t) : t \in Threads} \cup {Hand(t) : t \in Threads}
             \cup {Queue(k) : k \in Producers}

PoolOwns(owner)    == \A b \in Buffers : /\ avail[b] = IF owner[b] = Pooled THEN 1 ELSE 0
                                         /\ ref[b] = IF owner[b] = Pooled THEN 0 ELSE 1
LinesOwn(owner)    == \A b \in Buffers : \A t \in Threads : line[t] = b <=> owner[b] = Line(t)
HandsOwn(owner)    == \A b \in Buffers : \A t \in Threads : hand[t] = b <=> owner[b] = Hand(t)
QueuesOwn(owner)   == \A b \in Buffers : \A k \in Producers : b \in Elements(q[k]) <=> owner[b] = Queue(k)
BatchOwns(owner)   == \A b \in Buffers : b \in Elements(batch) <=> owner[b] = Batch
WarningOwns(owner) == \A b \in Buffers : warning = b <=> owner[b] = Warning
OwnedBy(owner) == PoolOwns(owner) /\ LinesOwn(owner) /\ HandsOwn(owner) /\ QueuesOwn(owner)
                    /\ BatchOwns(owner) /\ WarningOwns(owner)

Owned ==
    /\ avail \in [Buffers -> Nat] /\ ref \in [Buffers -> Nat]
    /\ \A k \in Producers : Distinct(q[k])
    /\ Distinct(batch)
    /\ \E owner \in [Buffers -> Holders] : OwnedBy(owner)

(* The markers on their way, and the tickets without a marker yet.          *)
Marking == {b \in Buffers : content[b] = NoMsg /\ \/ b \in Elements(batch)
                                                  \/ \E k \in Producers : b \in Elements(q[k])}
Locking == {t \in Threads : pc[t] = "lock"}

Tickets == flush_seq_ = flush_done_ + flush_requested + Cardinality(Marking) + Cardinality(Locking)

Wakeups ==
    /\ \A t \in Threads : flush_mutex_ = t => pc[t] \in {"signal_marker", "wait"}
    /\ \A t \in parked : pc[t] = "parked" /\ (Done(t) => wpc = "notify")

(* The worker may look at sinks it has loaded earlier.                      *)
Busy == wpc = "warn" \/ (wpc = "process" /\ batch # <<>>)

(* Whoever replaces the sinks owns the mutex until flush() is back.  When   *)
(* its ticket is done, the worker has come to the end of a batch since the  *)
(* new sinks were published.                                                *)
Updating(t) == sink_modify_mutex_ = t
Sinks ==
    /\ \A t \in Threads :
         /\ pc[t] = "delete" => Updating(t)
         /\ Updating(t) => pc[t] \in {"flush", "ticket", "lock", "signal_marker", "wait", "parked",
                                      "delete"}
         /\ pc[t] \in {"lock", "signal_marker", "wait", "parked"} => my_seq[t] <= flush_seq_
    /\ sink_modify_mutex_ # NoThread => current_sinks_ > 0
    /\ misses = 0 =>
         /\ Busy => config \in Alive
         /\ \A t \in Threads :
              /\ Updating(t)
              /\ \/ pc[t] = "delete"
                 \/ pc[t] \in {"lock", "signal_marker", "wait", "parked"} /\ Done(t)
              => (Busy => config = current_sinks_)

Delivered ==
    \A t \in Threads : accepted[t] = handled[t] \o NumbersOf(t, batch) \o NumbersOf(t, q[Explicit(t)])

Good == Types /\ Calm /\ Holding /\ Written /\ Owned /\ Tickets /\ Wakeups /\ Sinks /\ Delivered
Inv == shutdowns \in Nat /\ (Up => Good)

-----------------------------------------------------------------------------
(* The steps of a dispatcher that nobody has asked to shut down.            *)

UpWorker == \/ CheckFailures \/ LoadForWarning \/ WriteWarning \/ ResetPendingFailures
            \/ Collect \/ LoadSinks \/ ProcessRun \/ ProcessMarker \/ CountMarkers \/ NotifyAll
UpStep == (\E t \in Threads : Thread(t)) \/ UpWorker \/ UNCHANGED vars

LEMMA Producer == /\ \A k \in Producers : k = Implicit(Ctl) \/ \E t \in Threads : k \in {Explicit(t), Implicit(t)}
                  /\ Implicit(Ctl) \in Producers
                  /\ \A t \in Threads : Explicit(t) \in Producers /\ Implicit(t) \in Producers
                  /\ \A t, u \in Threads \cup {Ctl} : /\ Explicit(t) # Implicit(u)
                                                      /\ t # u => Explicit(t) # Explicit(u)
                                                      /\ t # u => Implicit(t) # Implicit(u)
  BY DEF Producers, Explicit, Implicit

LEMMA BatchIsBuffers == ASSUME Types, batch # <<>> PROVE Head(batch) \in Buffers /\ Head(batch) # Null
  BY DispatcherAssumption, Removed DEF Types

LEMMA UpSteps == ASSUME Good, [Next]_vars, Up'
                 PROVE  UpStep /\ UNCHANGED ctlVars
<1> USE DEF elsewhere, outside, ctlVars
<1>1. CASE UNCHANGED vars
  BY <1>1 DEF UpStep, vars
<1>2. ASSUME NEW t \in Threads, Thread(t) PROVE UNCHANGED ctlVars
  <2>1. CASE OpenLine(t)      BY <2>1 DEF OpenLine
  <2>2. CASE WriteMore(t)     BY <2>2 DEF WriteMore
  <2>3. CASE Dispatch(t)      BY <2>3 DEF Dispatch
  <2>4. CASE SwapBuffer(t)    BY <2>4 DEF SwapBuffer
  <2>5. CASE EnqueueLine(t)   BY <2>5 DEF EnqueueLine
  <2>6. CASE SignalLine(t)    BY <2>6 DEF SignalLine
  <2>7. CASE CloseLine(t)     BY <2>7 DEF CloseLine
  <2>8. CASE CallFlush(t)     BY <2>8 DEF CallFlush
  <2>9. CASE AcquireMarker(t) BY <2>9 DEF AcquireMarker
  <2>10. CASE TakeTicket(t)   BY <2>10 DEF TakeTicket
  <2>11. CASE EnqueueMarker(t) BY <2>11 DEF EnqueueMarker
  <2>12. CASE SignalMarker(t) BY <2>12 DEF SignalMarker
  <2>13. CASE WaitDone(t)     BY <2>13 DEF WaitDone, TestDone
  <2>14. CASE Wake(t)         BY <2>14 DEF Wake, TestDone
  <2>15. CASE SpuriousWake(t) BY <2>15 DEF SpuriousWake
  <2>16. CASE PublishConfig(t) BY <2>16 DEF PublishConfig
  <2>17. CASE DeleteConfig(t) BY <2>17 DEF DeleteConfig
  <2> QED BY <1>2, <2>1, <2>2, <2>3, <2>4, <2>5, <2>6, <2>7, <2>8, <2>9, <2>10, <2>11, <2>12, <2>13, <2>14,
             <2>15, <2>16, <2>17 DEF Thread, LineStep, FlushStep, UpdateStep
<1>3. CASE Worker
  <2>1. UpWorker
    BY <1>3, BatchIsBuffers DEF Worker, UpWorker, Good, Calm, WorkerLabels, ProcessNull, ReleaseRest, DrainSkip,
                DrainAgain, FinalReport
  <2> QED BY <2>1 DEF UpStep, UpWorker, CheckFailures, LoadForWarning, WriteWarning, ResetPendingFailures,
                Collect, LoadSinks, ProcessRun, ProcessMarker, CountMarkers, NotifyAll
<1>4. CASE Control
  <2>1. cpc = "up"
    BY DEF Good, Calm
  <2>2. Shutdown
    BY <1>4, <2>1 DEF Control, EnqueueNull, SignalNull, Join, Restart, StartWorker
  <2>3. shutdowns' = shutdowns + 1 /\ shutdowns' = 0 /\ shutdowns = 0
    BY <2>2 DEF Shutdown, Up, Good, Calm
  <2> QED BY <2>3
<1> QED BY <1>1, <1>2, <1>3, <1>4 DEF Next, UpStep

LEMMA NumbersOfType == ASSUME Types, NEW t, NEW s \in Seq(Buffers) PROVE NumbersOf(t, s) \in Seq(Nat)
  BY NumbersOfIsNumbers, NumbersType DEF Types

(* What the step of a thread leaves to the others.                          *)
Alone(t) ==
    /\ UNCHANGED <<workerVars, handled, q[Implicit(Ctl)]>>
    /\ \A u \in Threads \ {t} : /\ pc'[u] = pc[u] /\ line'[u] = line[u] /\ hand'[u] = hand[u]
                                /\ my_seq'[u] = my_seq[u] /\ accepted'[u] = accepted[u]
                                /\ q'[Explicit(u)] = q[Explicit(u)]
                                /\ q'[Implicit(u)] = q[Implicit(u)]

LEMMA ThreadAlone == ASSUME Types, NEW t \in Threads, Thread(t) PROVE Alone(t)
<1> USE DEF Alone, elsewhere, outside, store, counters, threadVars, queueVars, workerVars, history, Goto
<1>1. CASE OpenLine(t)
  BY <1>1 DEF Types, OpenLine
<1>2. CASE WriteMore(t)
  BY <1>2 DEF Types, WriteMore
<1>3. CASE Dispatch(t)
  BY <1>3 DEF Types, Dispatch
<1>4. CASE SwapBuffer(t)
  BY <1>4 DEF Types, SwapBuffer
<1>5. CASE EnqueueLine(t)
  BY <1>5, Producer, DispatcherAssumption DEF Types, EnqueueLine, Push
<1>6. CASE SignalLine(t)
  BY <1>6 DEF Types, SignalLine
<1>7. CASE CloseLine(t)
  BY <1>7 DEF Types, CloseLine
<1>8. CASE CallFlush(t)
  BY <1>8 DEF Types, CallFlush
<1>9. CASE AcquireMarker(t)
  BY <1>9 DEF Types, AcquireMarker
<1>10. CASE TakeTicket(t)
  BY <1>10 DEF Types, TakeTicket
<1>11. CASE EnqueueMarker(t)
  BY <1>11, Producer, DispatcherAssumption DEF Types, EnqueueMarker, Push
<1>12. CASE SignalMarker(t)
  BY <1>12 DEF Types, SignalMarker
<1>13. CASE WaitDone(t)
  BY <1>13 DEF Types, WaitDone, TestDone
<1>14. CASE Wake(t)
  BY <1>14 DEF Types, Wake, TestDone
<1>15. CASE SpuriousWake(t)
  BY <1>15 DEF Types, SpuriousWake
<1>16. CASE PublishConfig(t)
  BY <1>16 DEF Types, PublishConfig
<1>17. CASE DeleteConfig(t)
  BY <1>17 DEF Types, DeleteConfig
<1> QED BY <1>1, <1>2, <1>3, <1>4, <1>5, <1>6, <1>7, <1>8, <1>9, <1>10, <1>11, <1>12, <1>13, <1>14,
           <1>15, <1>16, <1>17 DEF Thread, LineStep, FlushStep, UpdateStep

(* What the worker's step leaves alone.                                     *)
LEMMA WorkerAlone == ASSUME UpWorker PROVE UNCHANGED <<threadVars, sinkVars, ctlVars, accepted>>
<1> USE DEF outside, history
<1>1. CASE CheckFailures        BY <1>1 DEF CheckFailures
<1>2. CASE LoadForWarning       BY <1>2 DEF LoadForWarning
<1>3. CASE WriteWarning         BY <1>3 DEF WriteWarning
<1>4. CASE ResetPendingFailures BY <1>4 DEF ResetPendingFailures
<1>5. CASE Collect              BY <1>5 DEF Collect
<1>6. CASE LoadSinks            BY <1>6 DEF LoadSinks
<1>7. CASE ProcessRun           BY <1>7 DEF ProcessRun
<1>8. CASE ProcessMarker        BY <1>8 DEF ProcessMarker
<1>9. CASE CountMarkers         BY <1>9 DEF CountMarkers
<1>10. CASE NotifyAll           BY <1>10 DEF NotifyAll
<1> QED BY <1>1, <1>2, <1>3, <1>4, <1>5, <1>6, <1>7, <1>8, <1>9, <1>10 DEF UpWorker

LEMMA TypesStep == ASSUME Good, UpStep, UNCHANGED ctlVars PROVE Types'
<1> USE DEF Types, elsewhere, outside, store, counters, poolVars, failureVars, threadVars, queueVars, flushVars,
            sinkVars, workerVars, history
<1>0. Types /\ Holding
  BY DEF Good
<1>1. CASE UNCHANGED vars
  BY <1>0, <1>1 DEF vars
<1>2. ASSUME NEW t \in Threads, Thread(t) PROVE Types'
  <2> USE DEF Goto, Labels
  <2>1. CASE OpenLine(t)
    <3>1. CASE Fails /\ UNCHANGED <<pc, line, content>>
      BY <1>0, <2>1, <3>1 DEF OpenLine, Fails, AcquireFails
    <3>2. CASE \E b \in Buffers : /\ content' = [content EXCEPT ![b] = <<t, logged[t] + 1>>]
                                  /\ line' = [line EXCEPT ![t] = b]
                                  /\ Goto(t, "writing")
                                  /\ UNCHANGED failureVars
      <4>1. PICK b \in Buffers : /\ content' = [content EXCEPT ![b] = <<t, logged[t] + 1>>]
                                 /\ line' = [line EXCEPT ![t] = b]
                                 /\ Goto(t, "writing")
                                 /\ UNCHANGED failureVars
        BY <3>2
      <4>2. content' \in Texts
        BY <1>0, <4>1 DEF Texts
      <4> QED BY <1>0, <2>1, <4>1, <4>2 DEF OpenLine
    <3> QED BY <2>1, <3>1, <3>2 DEF OpenLine
  <2>2. CASE WriteMore(t)
    <3>1. <<t, logged[t] + 1>> \in Threads \X Nat /\ content' = [content EXCEPT ![line[t]] = <<t, logged[t] + 1>>]
      BY <1>0, <2>2 DEF WriteMore
    <3>2. content' \in Texts
      BY <1>0, <3>1 DEF Texts
    <3> QED BY <1>0, <2>2, <3>2 DEF WriteMore
  <2>3. CASE Dispatch(t)
    BY <1>0, <2>3 DEF Dispatch
  <2>4. CASE SwapBuffer(t)
    <3>1. pending' \in Nat /\ misses' \in Nat
      BY <1>0, <2>4 DEF SwapBuffer, Fails
    <3>2. line' \in [Threads -> Buffers \cup {NoBuf}]
      BY <1>0, <2>4 DEF SwapBuffer
    <3>3. hand' \in [Threads -> Buffers \cup {NoBuf}] /\ pc' \in [Threads -> Labels]
      BY <1>0, <2>4 DEF SwapBuffer
    <3> QED BY <1>0, <2>4, <3>1, <3>2, <3>3 DEF SwapBuffer
  <2>5. CASE EnqueueLine(t)
    <3>1. hand[t] \in Buffers /\ <<hand[t]>> \in Seq(Buffers) /\ Explicit(t) \in Producers
      BY <1>0, <2>5, Producer DEF EnqueueLine, Holding, Holds
    <3>2. NumbersOf(t, <<hand[t]>>) \in Seq(Nat)
      BY <1>0, <3>1, NumbersOfType
    <3>3. q' \in [Producers -> Seq(Buffers)]
      BY <1>0, <2>5, <3>1 DEF EnqueueLine, Push
    <3>4. accepted' \in [Threads -> Seq(Nat)]
      BY <1>0, <2>5, <3>2 DEF EnqueueLine
    <3> QED BY <1>0, <2>5, <3>3, <3>4 DEF EnqueueLine
  <2>6. CASE SignalLine(t)
    BY <1>0, <2>6 DEF SignalLine
  <2>7. CASE CloseLine(t)
    BY <1>0, <2>7 DEF CloseLine, ReleaseAll, Texts
  <2>8. CASE CallFlush(t)
    BY <1>0, <2>8 DEF CallFlush
  <2>9. CASE AcquireMarker(t)
    <3>1. pending' \in Nat /\ misses' \in Nat
      BY <1>0, <2>9 DEF AcquireMarker, Fails
    <3>2. hand' \in [Threads -> Buffers \cup {NoBuf}]
      BY <1>0, <2>9 DEF AcquireMarker
    <3>3. FlushReturnsTo(t) \in Labels
      BY DEF FlushReturnsTo
    <3>4. pc' \in [Threads -> Labels]
      BY <1>0, <2>9, <3>3 DEF AcquireMarker
    <3> QED BY <1>0, <2>9, <3>1, <3>2, <3>4 DEF AcquireMarker
  <2>10. CASE TakeTicket(t)
    BY <1>0, <2>10 DEF TakeTicket
  <2>11. CASE EnqueueMarker(t)
    <3>1. hand[t] \in Buffers /\ Implicit(t) \in Producers
      BY <1>0, <2>11, Producer DEF EnqueueMarker, Holding, Holds
    <3>2. q' \in [Producers -> Seq(Buffers)]
      BY <1>0, <2>11, <3>1 DEF EnqueueMarker, Push
    <3> QED BY <1>0, <2>11, <3>2 DEF EnqueueMarker
  <2>12. CASE SignalMarker(t)
    BY <1>0, <2>12 DEF SignalMarker
  <2>13. CASE WaitDone(t) \/ Wake(t)
    <3>1. TestDone(t)
      BY <2>13 DEF WaitDone, Wake
    <3>2. FlushReturnsTo(t) \in Labels
      BY DEF FlushReturnsTo
    <3>3. pc' \in [Threads -> Labels]
      BY <1>0, <3>1, <3>2 DEF TestDone
    <3>4. my_seq' \in [Threads -> Nat]
      <4>1. my_seq' = [my_seq EXCEPT ![t] = 0] \/ UNCHANGED my_seq
        BY <3>1 DEF TestDone
      <4>2. my_seq \in [Threads -> Nat]
        BY <1>0
      <4> QED BY <4>1, <4>2
    <3>5. parked' \subseteq Threads
      BY <1>0, <3>1 DEF TestDone
    <3> QED BY <1>0, <3>1, <3>3, <3>4, <3>5 DEF TestDone
  <2>14. CASE SpuriousWake(t)
    BY <1>0, <2>14 DEF SpuriousWake
  <2>15. CASE PublishConfig(t)
    BY <1>0, <2>15 DEF PublishConfig
  <2>16. CASE DeleteConfig(t)
    BY <1>0, <2>16 DEF DeleteConfig
  <2> QED BY <1>2, <2>1, <2>2, <2>3, <2>4, <2>5, <2>6, <2>7, <2>8, <2>9, <2>10, <2>11, <2>12, <2>13, <2>14,
             <2>15, <2>16 DEF Thread, LineStep, FlushStep, UpdateStep
<1>3. CASE UpWorker
  <2>1. CASE CheckFailures
    BY <1>0, <2>1 DEF CheckFailures, Acquire, Fails, AcquireFails
  <2>2. CASE LoadForWarning \/ ResetPendingFailures \/ LoadSinks
    <3>1. CASE LoadForWarning
      BY <1>0, <3>1 DEF LoadForWarning
    <3>2. CASE ResetPendingFailures
      BY <1>0, <3>2 DEF ResetPendingFailures
    <3>3. CASE LoadSinks
      BY <1>0, <3>3 DEF LoadSinks
    <3> QED BY <2>2, <3>1, <3>2, <3>3
  <2>3. CASE WriteWarning
    BY <1>0, <2>3 DEF WriteWarning, ReleaseAll, Texts
  <2>4. CASE Collect
    <3>1. PICK k \in Producers : q[k] # <<>> /\ Take(k)
      BY <2>4 DEF Collect
    <3>2. Head(q[k]) \in Buffers /\ Tail(q[k]) \in Seq(Buffers)
      BY <1>0, <3>1, Removed
    <3>3. /\ batch' \in Seq(Buffers) /\ Len(batch') = Len(batch) + 1
          /\ q' \in [Producers -> Seq(Buffers)]
      BY <1>0, <3>1, <3>2, AppendProperties DEF Take
    <3>4. Len(batch) \in Nat /\ Len(batch) < MaxBatch /\ MaxBatch \in Nat
      BY <1>0, <2>4, DispatcherAssumption DEF Collect, Room
    <3>5. Len(batch') <= MaxBatch
      BY <3>3, <3>4
    <3>6. sema' \in Nat
      BY <1>0, <2>4 DEF Collect
    <3> QED BY <1>0, <2>4, <3>3, <3>5, <3>6 DEF Collect
  <2>5. CASE ProcessRun
    <3>1. /\ batch' \in Seq(Buffers) /\ Len(batch') <= Len(batch) /\ Len(batch) \in Nat /\ Len(batch') \in Nat
          /\ Run(batch) \in Seq(Buffers)
      <4>1. batch' = Rest(batch) /\ batch \in Seq(Buffers)
        BY <1>0, <2>5 DEF ProcessRun
      <4>2. Rest(batch) \in Seq(Buffers) /\ Run(batch) \in Seq(Buffers) /\ Len(Rest(batch)) <= Len(batch)
        BY <4>1, RunAndRest
      <4> QED BY <4>1, <4>2
    <3>2. Len(batch') <= MaxBatch
      BY <1>0, <3>1, DispatcherAssumption
    <3>3. \A t \in Threads : NumbersOf(t, Run(batch)) \in Seq(Nat)
      BY <1>0, <3>1, NumbersOfType
    <3>4. handled' \in [Threads -> Seq(Nat)]
      BY <1>0, <2>5, <3>3 DEF ProcessRun, Handle
    <3>5. content' \in Texts
      BY <1>0, <2>5 DEF ProcessRun, ReleaseAll, Texts
    <3> QED BY <1>0, <2>5, <3>1, <3>2, <3>4, <3>5 DEF ProcessRun
  <2>6. CASE ProcessMarker
    <3>1. batch' \in Seq(Buffers) /\ Len(batch') = Len(batch) - 1 /\ Len(batch) \in Nat
      BY <1>0, <2>6 DEF ProcessMarker
    <3>2. Len(batch') <= MaxBatch
      BY <1>0, <3>1, DispatcherAssumption
    <3> QED BY <1>0, <2>6, <3>1, <3>2 DEF ProcessMarker, ReleaseAll, Texts
  <2>7. CASE CountMarkers
    BY <1>0, <2>7 DEF CountMarkers, MarkersDone
  <2>8. CASE NotifyAll
    BY <1>0, <2>8 DEF NotifyAll
  <2> QED BY <1>3, <2>1, <2>2, <2>3, <2>4, <2>5, <2>6, <2>7, <2>8 DEF UpWorker
<1> QED BY <1>1, <1>2, <1>3 DEF UpStep

LEMMA CalmStep == ASSUME Good, UpStep, UNCHANGED ctlVars PROVE Calm'
<1> USE DEF Good, Calm, ctlVars, outside
<1>1. CASE UNCHANGED vars
  BY <1>1 DEF vars, workerVars
<1>2. CASE \E t \in Threads : Thread(t)
  <2>1. UNCHANGED <<workerVars>>
    BY <1>2, ThreadAlone DEF Alone
  <2> QED BY <2>1 DEF workerVars
<1>3. CASE UpWorker
  BY <1>3 DEF UpWorker, CheckFailures, LoadForWarning, WriteWarning, ResetPendingFailures, Collect, LoadSinks,
              ProcessRun, ProcessMarker, CountMarkers, NotifyAll, AfterCount, NextRound, WorkerLabels
<1> QED BY <1>1, <1>2, <1>3 DEF UpStep

LEMMA HoldingStep == ASSUME Good, UpStep, UNCHANGED ctlVars PROVE Holding'
<1> USE DEF elsewhere, outside, store, counters, poolVars, failureVars, threadVars, queueVars, flushVars,
            sinkVars, workerVars, history, ctlVars
<1>0. Types /\ Calm /\ Holding
  BY DEF Good
<1>1. CASE UNCHANGED vars
  BY <1>0, <1>1 DEF vars, Holding, Holds
<1>2. ASSUME NEW t \in Threads, Thread(t) PROVE Holding'
  <2> USE DEF Goto, Types, Labels, Holds
  <2>0. Holds(t) /\ Alone(t)
    BY <1>0, <1>2, ThreadAlone DEF Holding
  <2>1. ASSUME OpenLine(t) PROVE Holds(t)'
    BY <1>0, <2>0, <2>1, DispatcherAssumption DEF OpenLine
  <2>2. ASSUME WriteMore(t) PROVE Holds(t)'
    BY <1>0, <2>0, <2>2 DEF WriteMore
  <2>3. ASSUME Dispatch(t) PROVE Holds(t)'
    BY <1>0, <2>0, <2>3 DEF Dispatch
  <2>4. ASSUME SwapBuffer(t) PROVE Holds(t)'
    BY <1>0, <2>0, <2>4 DEF SwapBuffer
  <2>5. ASSUME EnqueueLine(t) PROVE Holds(t)'
    BY <1>0, <2>0, <2>5 DEF EnqueueLine
  <2>6. ASSUME SignalLine(t) PROVE Holds(t)'
    BY <1>0, <2>0, <2>6 DEF SignalLine
  <2>7. ASSUME CloseLine(t) PROVE Holds(t)'
    BY <1>0, <2>0, <2>7 DEF CloseLine
  <2>8. ASSUME CallFlush(t) PROVE Holds(t)'
    BY <1>0, <2>0, <2>8 DEF CallFlush
  <2>9. ASSUME AcquireMarker(t) PROVE Holds(t)'
    BY <1>0, <2>0, <2>9, DispatcherAssumption DEF AcquireMarker, FlushReturnsTo
  <2>10. ASSUME TakeTicket(t) PROVE Holds(t)'
    BY <1>0, <2>0, <2>10 DEF TakeTicket
  <2>11. ASSUME EnqueueMarker(t) PROVE Holds(t)'
    BY <1>0, <2>0, <2>11 DEF EnqueueMarker
  <2>12. ASSUME SignalMarker(t) PROVE Holds(t)'
    BY <1>0, <2>0, <2>12 DEF SignalMarker
  <2>13. ASSUME WaitDone(t) \/ Wake(t) PROVE Holds(t)'
    BY <1>0, <2>0, <2>13 DEF WaitDone, Wake, TestDone, FlushReturnsTo
  <2>14. ASSUME SpuriousWake(t) PROVE Holds(t)'
    BY <1>0, <2>0, <2>14 DEF SpuriousWake
  <2>15. ASSUME PublishConfig(t) PROVE Holds(t)'
    BY <1>0, <2>0, <2>15 DEF PublishConfig
  <2>16. ASSUME DeleteConfig(t) PROVE Holds(t)'
    BY <1>0, <2>0, <2>16 DEF DeleteConfig
  <2>17. Holds(t)'
    BY <1>2, <2>1, <2>2, <2>3, <2>4, <2>5, <2>6, <2>7, <2>8, <2>9, <2>10, <2>11, <2>12, <2>13, <2>14,
       <2>15, <2>16 DEF Thread, LineStep, FlushStep, UpdateStep
  <2> QED BY <1>0, <2>0, <2>17 DEF Holding, Alone
<1>3. CASE UpWorker
  <2>0. UNCHANGED <<pc, line, hand>>
    BY <1>3, WorkerAlone
  <2> USE DEF Holding, Holds
  <2>1. CASE CheckFailures
    BY <1>0, <2>0, <2>1, DispatcherAssumption DEF CheckFailures
  <2>2. CASE LoadForWarning \/ WriteWarning \/ ResetPendingFailures
    BY <1>0, <2>0, <2>2 DEF LoadForWarning, WriteWarning, ResetPendingFailures
  <2>3. CASE Collect \/ LoadSinks
    BY <1>0, <2>0, <2>3 DEF Collect, LoadSinks
  <2>4. CASE ProcessRun \/ ProcessMarker
    BY <1>0, <2>0, <2>4 DEF Calm, WorkerLabels, ProcessRun, ProcessMarker
  <2>5. CASE CountMarkers \/ NotifyAll
    BY <1>0, <2>0, <2>5 DEF Calm, CountMarkers, NotifyAll, AfterCount, NextRound
  <2> QED BY <1>3, <2>1, <2>2, <2>3, <2>4, <2>5 DEF UpWorker
<1> QED BY <1>1, <1>2, <1>3 DEF UpStep

-----------------------------------------------------------------------------
(* Every buffer keeps having one owner: what is acquired, swapped, enqueued, *)
(* collected or released goes from one owner to another.                    *)

LEMMA HoldersDiffer ==
    /\ Pooled # Batch /\ Pooled # Warning /\ Batch # Warning
    /\ \A t : Line(t) \notin {Pooled, Batch, Warning} /\ Hand(t) \notin {Pooled, Batch, Warning}
    /\ \A k : Queue(k) \notin {Pooled, Batch, Warning}
    /\ \A t, u : /\ Line(t) # Hand(u) /\ Line(t) # Queue(u) /\ Hand(t) # Queue(u)
                 /\ Line(t) = Line(u) => t = u
                 /\ Hand(t) = Hand(u) => t = u
                 /\ Queue(t) = Queue(u) => t = u
  BY DEF Pooled, Batch, Warning, Line, Hand, Queue

LEMMA AreHolders == /\ Pooled \in Holders /\ Batch \in Holders /\ Warning \in Holders
                    /\ \A t \in Threads : Line(t) \in Holders /\ Hand(t) \in Holders
                    /\ \A k \in Producers : Queue(k) \in Holders
  BY DEF Holders

(* Acquiring a buffer takes it from the pool.                               *)
LEMMA Acquired == ASSUME Owned, NEW owner, PoolOwns(owner), NEW b \in Buffers, Acquire(b)
                  PROVE  /\ owner[b] = Pooled /\ avail[b] = 1 /\ avail' \in [Buffers -> Nat] /\ ref' \in [Buffers -> Nat]
                         /\ avail'[b] = 0 /\ ref'[b] = 1
                         /\ \A c \in Buffers \ {b} : avail'[c] = avail[c] /\ ref'[c] = ref[c]
<1>1. avail \in [Buffers -> Nat] /\ ref \in [Buffers -> Nat]
  BY DEF Owned
<1>2. owner[b] = Pooled /\ avail[b] = 1 /\ ref[b] = 0
  BY <1>1 DEF PoolOwns, Acquire
<1> QED BY <1>1, <1>2 DEF Acquire

(* Releasing buffers that are held brings exactly these back to the pool,   *)
(* empty.                                                                   *)
LEMMA Released == ASSUME Types, Owned, NEW s \in Seq(Buffers), Distinct(s), ReleaseAll(s),
                         \A b \in Elements(s) : ref[b] = 1
                  PROVE  /\ avail' \in [Buffers -> Nat] /\ ref' \in [Buffers -> Nat]
                         /\ \A b \in Elements(s) : /\ avail'[b] = avail[b] + 1 /\ ref'[b] = 0
                                                   /\ content'[b] = NoMsg
                         /\ \A b \in Buffers \ Elements(s) : /\ avail'[b] = avail[b] /\ ref'[b] = ref[b]
                                                             /\ content'[b] = content[b]
<1>1. avail \in [Buffers -> Nat] /\ ref \in [Buffers -> Nat]
  BY DEF Owned
<1>2. Elements(s) \subseteq Buffers
  BY ElementsIn
<1> DEFINE count == Count(s)
<1>3. \A b \in Buffers : count[b] = IF b \in Elements(s) THEN 1 ELSE 0
  BY CountedOnce DEF Count
<1>4. \A b \in Buffers : GoesBack(b, count) <=> b \in Elements(s)
  <2> SUFFICES ASSUME NEW b \in Buffers PROVE GoesBack(b, count) <=> b \in Elements(s)
    OBVIOUS
  <2>1. ref[b] \in Nat /\ (b \in Elements(s) => ref[b] = 1)
    BY <1>1
  <2>2. count[b] = IF b \in Elements(s) THEN 1 ELSE 0
    BY <1>3
  <2> HIDE DEF count
  <2> QED BY <2>1, <2>2 DEF GoesBack
<1>5. /\ avail' = [b \in Buffers |-> avail[b] + IF GoesBack(b, count) THEN 1 ELSE 0]
      /\ ref' = [b \in Buffers |-> ref[b] - count[b]]
      /\ content' = [b \in Buffers |-> IF GoesBack(b, count) THEN NoMsg ELSE content[b]]
  BY DEF ReleaseAll, ReleaseTimes
<1> HIDE DEF count
<1>6. /\ \A b \in Elements(s) : /\ avail'[b] = avail[b] + 1 /\ ref'[b] = 0
                                /\ content'[b] = NoMsg
      /\ \A b \in Buffers \ Elements(s) : /\ avail'[b] = avail[b] /\ ref'[b] = ref[b]
                                          /\ content'[b] = content[b]
  BY <1>1, <1>2, <1>3, <1>4, <1>5
<1>7. avail' \in [Buffers -> Nat] /\ ref' \in [Buffers -> Nat]
  <2>1. \A b \in Buffers : avail'[b] \in Nat /\ ref'[b] \in Nat
    BY <1>1, <1>6
  <2> QED BY <1>5, <2>1
<1> QED BY <1>6, <1>7

LEMMA OwnedKept == ASSUME Owned, UNCHANGED <<avail, ref, line, hand, q, batch, warning>> PROVE Owned'
<1>1. /\ avail' \in [Buffers -> Nat] /\ ref' \in [Buffers -> Nat]
      /\ Distinct(batch)' /\ \A k \in Producers : Distinct(q[k])'
  BY DEF Owned, Distinct
<1>2. PICK owner \in [Buffers -> Holders] : OwnedBy(owner)
  BY DEF Owned
<1>3. PoolOwns(owner)' /\ LinesOwn(owner)' /\ HandsOwn(owner)'
  BY <1>2 DEF OwnedBy, PoolOwns, LinesOwn, HandsOwn
<1>4. QueuesOwn(owner)' /\ BatchOwns(owner)' /\ WarningOwns(owner)'
  BY <1>2 DEF OwnedBy, QueuesOwn, BatchOwns, WarningOwns, Elements
<1> QED BY <1>1, <1>2, <1>3, <1>4 DEF Owned, OwnedBy

(* The buffers of M go to another owner.                                    *)
Moved(owner, M, to) == [b \in Buffers |-> IF b \in M THEN to ELSE owner[b]]

LEMMA MovedTo == ASSUME NEW owner \in [Buffers -> Holders], NEW M, NEW to \in Holders
                 PROVE  /\ Moved(owner, M, to) \in [Buffers -> Holders]
                        /\ \A b \in M \cap Buffers : Moved(owner, M, to)[b] = to
                        /\ \A b \in Buffers \ M : Moved(owner, M, to)[b] = owner[b]
  BY DEF Moved

(* Who neither gains nor loses a buffer has what it had.                    *)
LEMMA OthersKeep ==
    ASSUME NEW owner \in [Buffers -> Holders], OwnedBy(owner), NEW M \in SUBSET Buffers, NEW to \in Holders
    PROVE  LET new == Moved(owner, M, to)
               Aside(X) == to \notin X /\ \A b \in M : owner[b] \notin X
           IN  /\ UNCHANGED <<avail, ref>> /\ Aside({Pooled}) => PoolOwns(new)'
               /\ UNCHANGED line /\ Aside({Line(t) : t \in Threads}) => LinesOwn(new)'
               /\ UNCHANGED hand /\ Aside({Hand(t) : t \in Threads}) => HandsOwn(new)'
               /\ UNCHANGED q /\ Aside({Queue(k) : k \in Producers}) => QueuesOwn(new)'
               /\ UNCHANGED batch /\ Aside({Batch}) => BatchOwns(new)'
               /\ UNCHANGED warning /\ Aside({Warning}) => WarningOwns(new)'
<1> DEFINE new == Moved(owner, M, to)
           Aside(X) == to \notin X /\ \A b \in M : owner[b] \notin X
<1>1. \A b \in Buffers : new[b] = IF b \in M THEN to ELSE owner[b]
  BY DEF Moved
<1>2. \A X : Aside(X) => \A x \in X : \A b \in Buffers : new[b] = x <=> owner[b] = x
  BY <1>1
<1> HIDE DEF new, Aside
<1>3. UNCHANGED <<avail, ref>> /\ Aside({Pooled}) => PoolOwns(new)'
  BY <1>2 DEF OwnedBy, PoolOwns
<1>4. UNCHANGED line /\ Aside({Line(t) : t \in Threads}) => LinesOwn(new)'
  BY <1>2 DEF OwnedBy, LinesOwn
<1>5. UNCHANGED hand /\ Aside({Hand(t) : t \in Threads}) => HandsOwn(new)'
  BY <1>2 DEF OwnedBy, HandsOwn
<1>6. UNCHANGED q /\ Aside({Queue(k) : k \in Producers}) => QueuesOwn(new)'
  BY <1>2 DEF OwnedBy, QueuesOwn, Elements
<1>7. UNCHANGED batch /\ Aside({Batch}) => BatchOwns(new)'
  BY <1>2 DEF OwnedBy, BatchOwns, Elements
<1>8. UNCHANGED warning /\ Aside({Warning}) => WarningOwns(new)'
  BY <1>2 DEF OwnedBy, WarningOwns
<1> QED BY <1>3, <1>4, <1>5, <1>6, <1>7, <1>8 DEF new, Aside

LEMMA PoolGives ==
    ASSUME Owned, NEW owner \in [Buffers -> Holders], PoolOwns(owner), NEW b \in Buffers, Acquire(b),
           NEW to \in Holders, to # Pooled
    PROVE  owner[b] = Pooled /\ PoolOwns(Moved(owner, {b}, to))'
<1>1. owner[b] = Pooled
  BY Acquired
<1>2. ASSUME NEW c \in Buffers
      PROVE  /\ avail'[c] = IF Moved(owner, {b}, to)[c] = Pooled THEN 1 ELSE 0
             /\ ref'[c] = IF Moved(owner, {b}, to)[c] = Pooled THEN 0 ELSE 1
  <2>1. CASE c = b
    BY <2>1, Acquired, MovedTo
  <2>2. CASE c # b
    BY <2>2, Acquired, MovedTo DEF PoolOwns
  <2> QED BY <2>1, <2>2
<1> QED BY <1>1, <1>2 DEF PoolOwns

LEMMA PoolGets ==
    ASSUME Types, Owned, NEW owner \in [Buffers -> Holders], PoolOwns(owner), NEW s \in Seq(Buffers), Distinct(s),
           ReleaseAll(s), \A b \in Elements(s) : owner[b] # Pooled
    PROVE  PoolOwns(Moved(owner, Elements(s), Pooled))'
<1>1. \A b \in Elements(s) : b \in Buffers /\ ref[b] = 1 /\ avail[b] = 0
  BY ElementsIn DEF PoolOwns
<1> HIDE DEF PoolOwns
<1>2. ASSUME NEW c \in Buffers
      PROVE  /\ avail'[c] = IF Moved(owner, Elements(s), Pooled)[c] = Pooled THEN 1 ELSE 0
             /\ ref'[c] = IF Moved(owner, Elements(s), Pooled)[c] = Pooled THEN 0 ELSE 1
  <2>1. CASE c \in Elements(s)
    <3>1. avail'[c] = 1 /\ ref'[c] = 0
      BY <1>1, <2>1, Released
    <3> QED BY <2>1, <3>1, MovedTo, AreHolders
  <2>2. CASE c \notin Elements(s)
    <3>1. avail'[c] = avail[c] /\ ref'[c] = ref[c]
      BY <1>1, <2>2, Released
    <3> QED BY <2>2, <3>1, MovedTo, AreHolders DEF PoolOwns
  <2> QED BY <2>1, <2>2
<1> QED BY <1>2 DEF PoolOwns

LEMMA LineGets ==
    ASSUME Types, NEW owner \in [Buffers -> Holders], LinesOwn(owner), NEW t \in Threads, NEW b \in Buffers,
           \A u \in Threads : owner[b] # Line(u), line[t] \notin Buffers, line' = [line EXCEPT ![t] = b]
    PROVE  LinesOwn(Moved(owner, {b}, Line(t)))'
  BY HoldersDiffer DEF LinesOwn, Types, Moved

LEMMA LineGives ==
    ASSUME Types, NEW owner \in [Buffers -> Holders], LinesOwn(owner), NEW t \in Threads, NEW b \in Buffers,
           line[t] = b, NEW to \in Holders, \A u \in Threads : to # Line(u), line' = [line EXCEPT ![t] = NoBuf]
    PROVE  owner[b] = Line(t) /\ LinesOwn(Moved(owner, {b}, to))'
  BY HoldersDiffer, DispatcherAssumption DEF LinesOwn, Types, Moved

LEMMA HandGets ==
    ASSUME Types, NEW owner \in [Buffers -> Holders], HandsOwn(owner), NEW t \in Threads, NEW b \in Buffers,
           \A u \in Threads : owner[b] # Hand(u), hand[t] \notin Buffers, hand' = [hand EXCEPT ![t] = b]
    PROVE  HandsOwn(Moved(owner, {b}, Hand(t)))'
  BY HoldersDiffer DEF HandsOwn, Types, Moved

LEMMA HandGives ==
    ASSUME Types, NEW owner \in [Buffers -> Holders], HandsOwn(owner), NEW t \in Threads, NEW b \in Buffers,
           hand[t] = b, NEW to \in Holders, \A u \in Threads : to # Hand(u), hand' = [hand EXCEPT ![t] = NoBuf]
    PROVE  owner[b] = Hand(t) /\ HandsOwn(Moved(owner, {b}, to))'
  BY HoldersDiffer, DispatcherAssumption DEF HandsOwn, Types, Moved

LEMMA QueueGets ==
    ASSUME Types, Owned, NEW owner \in [Buffers -> Holders], QueuesOwn(owner), NEW k \in Producers, NEW b \in Buffers,
           \A l \in Producers : owner[b] # Queue(l), Push(k, b)
    PROVE  /\ QueuesOwn(Moved(owner, {b}, Queue(k)))'
           /\ \A l \in Producers : Distinct(q'[l])
<1>1. q \in [Producers -> Seq(Buffers)] /\ q' = [q EXCEPT ![k] = Append(@, b)] /\ \A l \in Producers : Distinct(q[l])
  BY DEF Types, Push, Owned
<1>2. b \notin Elements(q[k])
  BY DEF QueuesOwn
<1>3. q'[k] = Append(q[k], b) /\ \A l \in Producers \ {k} : q'[l] = q[l]
  BY <1>1
<1>4. Elements(q'[k]) = Elements(q[k]) \cup {b} /\ Distinct(q'[k])
  BY <1>1, <1>2, <1>3, Appended
<1>5. ASSUME NEW c \in Buffers, NEW l \in Producers
      PROVE  c \in Elements(q'[l]) <=> Moved(owner, {b}, Queue(k))[c] = Queue(l)
  <2>1. CASE l = k
    BY <1>4, <2>1, HoldersDiffer DEF QueuesOwn, Moved
  <2>2. CASE l # k
    BY <1>3, <2>2, HoldersDiffer DEF QueuesOwn, Moved
  <2> QED BY <2>1, <2>2
<1> QED BY <1>1, <1>3, <1>4, <1>5 DEF QueuesOwn, Elements

LEMMA QueueGives ==
    ASSUME Types, Owned, NEW owner \in [Buffers -> Holders], QueuesOwn(owner), BatchOwns(owner), NEW k \in Producers,
           q[k] # <<>>, NEW b, b = Head(q[k]), Take(k)
    PROVE  /\ b \in Buffers /\ owner[b] = Queue(k)
           /\ QueuesOwn(Moved(owner, {b}, Batch))' /\ BatchOwns(Moved(owner, {b}, Batch))'
           /\ Distinct(batch') /\ \A l \in Producers : Distinct(q'[l])
<1>1. /\ q \in [Producers -> Seq(Buffers)] /\ q' = [q EXCEPT ![k] = Tail(@)] /\ batch' = Append(batch, b)
      /\ batch \in Seq(Buffers) /\ Distinct(batch) /\ \A l \in Producers : Distinct(q[l])
  BY DEF Types, Take, Owned
<1>2. /\ b \in Buffers /\ b \in Elements(q[k]) /\ Distinct(Tail(q[k]))
      /\ Elements(Tail(q[k])) = Elements(q[k]) \ {b}
  BY <1>1, Removed
<1>3. owner[b] = Queue(k)
  BY <1>2 DEF QueuesOwn
<1>4. q'[k] = Tail(q[k]) /\ \A l \in Producers \ {k} : q'[l] = q[l]
  BY <1>1
<1>5. b \notin Elements(batch)
  BY <1>2, <1>3, HoldersDiffer DEF BatchOwns
<1>6. Elements(batch') = Elements(batch) \cup {b} /\ Distinct(batch')
  BY <1>1, <1>2, <1>5, Appended
<1>7. ASSUME NEW c \in Buffers, NEW l \in Producers
      PROVE  c \in Elements(q'[l]) <=> Moved(owner, {b}, Batch)[c] = Queue(l)
  <2>1. CASE l = k
    BY <1>2, <1>4, <2>1, HoldersDiffer DEF QueuesOwn, Moved
  <2>2. CASE l # k
    BY <1>3, <1>4, <2>2, HoldersDiffer DEF QueuesOwn, Moved
  <2> QED BY <2>1, <2>2
<1>8. ASSUME NEW c \in Buffers PROVE c \in Elements(batch') <=> Moved(owner, {b}, Batch)[c] = Batch
  BY <1>6 DEF BatchOwns, Moved
<1> QED BY <1>1, <1>2, <1>3, <1>4, <1>6, <1>7, <1>8 DEF QueuesOwn, BatchOwns, Elements

LEMMA BatchGives ==
    ASSUME NEW owner \in [Buffers -> Holders], BatchOwns(owner), NEW M, NEW to \in Holders, to # Batch,
           Elements(batch') = Elements(batch) \ M
    PROVE  BatchOwns(Moved(owner, M, to))'
<1>1. ASSUME NEW c \in Buffers PROVE c \in Elements(batch') <=> Moved(owner, M, to)[c] = Batch
  BY DEF BatchOwns, Moved
<1> QED BY <1>1 DEF BatchOwns, Elements

LEMMA WarningGets ==
    ASSUME Types, NEW owner \in [Buffers -> Holders], WarningOwns(owner), NEW b \in Buffers,
           warning \notin Buffers, warning' = b
    PROVE  WarningOwns(Moved(owner, {b}, Warning))'
  BY DEF WarningOwns, Moved, Types

LEMMA WarningGives ==
    ASSUME Types, NEW owner \in [Buffers -> Holders], WarningOwns(owner), NEW b \in Buffers,
           warning = b, warning' = NoBuf, NEW to \in Holders, to # Warning
    PROVE  owner[b] = Warning /\ WarningOwns(Moved(owner, {b}, to))'
  BY DispatcherAssumption DEF WarningOwns, Moved, Types

LEMMA SwapMoves ==
    ASSUME Types, Owned, NEW owner \in [Buffers -> Holders], OwnedBy(owner), NEW t \in Threads,
           NEW b \in Buffers, line[t] = b, hand[t] \notin Buffers, hand' = [hand EXCEPT ![t] = b],
           NEW c \in Buffers, Acquire(c), line' = [line EXCEPT ![t] = c], UNCHANGED <<q, batch, warning>>
    PROVE  OwnedBy(Moved(Moved(owner, {b}, Hand(t)), {c}, Line(t)))'
<1> DEFINE mid == Moved(owner, {b}, Hand(t))
           new == Moved(mid, {c}, Line(t))
<1>1. owner[b] = Line(t) /\ owner[c] = Pooled /\ b # c
  BY Acquired, HoldersDiffer DEF OwnedBy, LinesOwn
<1>2. mid \in [Buffers -> Holders] /\ mid[c] = Pooled
  BY <1>1, AreHolders, MovedTo
<1>3. /\ \A x \in Buffers : mid[x] = IF x = b THEN Hand(t) ELSE owner[x]
      /\ \A x \in Buffers : new[x] = IF x = c THEN Line(t) ELSE mid[x]
  BY DEF Moved
<1>4. PoolOwns(new)'
  <2> HIDE DEF mid
  <2>1. PoolOwns(mid)
    <3>1. \A x \in Buffers : mid[x] = Pooled <=> owner[x] = Pooled
      BY <1>1, <1>3, HoldersDiffer
    <3> QED BY <3>1 DEF OwnedBy, PoolOwns
  <2> QED BY <1>2, <2>1, PoolGives, AreHolders, HoldersDiffer
<1> HIDE DEF mid, new
<1>5. LinesOwn(new)'
  <2>1. \A x \in Buffers : \A u \in Threads :
          new[x] = Line(u) <=> (x = c /\ u = t) \/ (x # c /\ x # b /\ owner[x] = Line(u))
    BY <1>1, <1>3, HoldersDiffer
  <2>2. \A x \in Buffers : \A u \in Threads : line[u] = x <=> owner[x] = Line(u)
    BY DEF OwnedBy, LinesOwn
  <2>3. line'[t] = c /\ \A u \in Threads \ {t} : line'[u] = line[u]
    BY DEF Types
  <2>4. \A u \in Threads \ {t} : line[u] # b /\ line[u] # c
    BY <1>1, <2>2, HoldersDiffer
  <2> QED BY <2>1, <2>2, <2>3, <2>4 DEF LinesOwn
<1>6. HandsOwn(new)'
  <2>1. \A x \in Buffers : \A u \in Threads :
          new[x] = Hand(u) <=> (x = b /\ u = t) \/ (x # c /\ x # b /\ owner[x] = Hand(u))
    BY <1>1, <1>3, HoldersDiffer
  <2>2. \A x \in Buffers : \A u \in Threads : hand[u] = x <=> owner[x] = Hand(u)
    BY DEF OwnedBy, HandsOwn
  <2>3. hand'[t] = b /\ \A u \in Threads \ {t} : hand'[u] = hand[u]
    BY DEF Types
  <2>4. \A u \in Threads \ {t} : hand[u] # b /\ hand[u] # c
    BY <1>1, <2>2, HoldersDiffer
  <2> QED BY <2>1, <2>2, <2>3, <2>4 DEF HandsOwn
<1>7. QueuesOwn(new)' /\ BatchOwns(new)' /\ WarningOwns(new)'
  <2>1. \A h : h \in {Batch, Warning} \cup {Queue(k) : k \in Producers} =>
          \A x \in Buffers : new[x] = h <=> owner[x] = h
    BY <1>1, <1>3, HoldersDiffer
  <2>2. QueuesOwn(new)'
    BY <2>1 DEF OwnedBy, QueuesOwn, Elements
  <2>3. \A x \in Buffers : /\ new[x] = Batch <=> owner[x] = Batch
                           /\ new[x] = Warning <=> owner[x] = Warning
    BY <2>1
  <2>4. BatchOwns(new)'
    BY <2>3 DEF OwnedBy, BatchOwns, Elements
  <2>5. WarningOwns(new)'
    BY <2>3 DEF OwnedBy, WarningOwns
  <2> QED BY <2>2, <2>4, <2>5
<1> QED BY <1>4, <1>5, <1>6, <1>7 DEF OwnedBy, new, mid

LEMMA OwnedNow == ASSUME avail' \in [Buffers -> Nat], ref' \in [Buffers -> Nat],
                         \A k \in Producers : Distinct(q[k])', Distinct(batch)',
                         NEW owner \in [Buffers -> Holders], OwnedBy(owner)'
                  PROVE  Owned'
  BY DEF Owned

LEMMA OwnedStep == ASSUME Good, UpStep, UNCHANGED ctlVars PROVE Owned'
<1> USE DEF elsewhere, outside, store, counters, poolVars, queueVars, sinkVars, workerVars
<1>0. Types /\ Calm /\ Holding /\ Owned
  BY DEF Good
<1>1. PICK owner \in [Buffers -> Holders] : OwnedBy(owner)
  BY <1>0 DEF Owned
<1>2. /\ avail \in [Buffers -> Nat] /\ ref \in [Buffers -> Nat]
      /\ \A k \in Producers : Distinct(q[k])
      /\ Distinct(batch)
  BY <1>0 DEF Owned
<1>3. /\ PoolOwns(owner) /\ LinesOwn(owner) /\ HandsOwn(owner) /\ QueuesOwn(owner) /\ BatchOwns(owner)
      /\ WarningOwns(owner)
  BY <1>1 DEF OwnedBy
<1>4. CASE UNCHANGED vars
  BY <1>0, <1>4, OwnedKept DEF vars, threadVars
<1>5. ASSUME NEW t \in Threads, Thread(t) PROVE Owned'
  <2>0. Holds(t) /\ Line(t) \in Holders /\ Hand(t) \in Holders
    BY <1>0, AreHolders DEF Holding
  <2>1. CASE OpenLine(t)
    <3>1. CASE UNCHANGED <<avail, ref, line>>
      BY <1>0, <2>1, <3>1, OwnedKept DEF OpenLine
    <3>2. CASE \E b \in Buffers : Acquire(b) /\ line' = [line EXCEPT ![t] = b]
      <4>1. PICK b \in Buffers : Acquire(b) /\ line' = [line EXCEPT ![t] = b]
        BY <3>2
      <4>2. UNCHANGED <<hand, q, batch, warning>> /\ line[t] \notin Buffers
        BY <2>0, <2>1, DispatcherAssumption DEF OpenLine, Holds
      <4> DEFINE new == Moved(owner, {b}, Line(t))
      <4>3. owner[b] = Pooled /\ PoolOwns(new)'
        BY <1>0, <1>3, <2>0, <4>1, PoolGives, HoldersDiffer
      <4>4. LinesOwn(new)'
        BY <1>0, <1>3, <4>1, <4>2, <4>3, LineGets, HoldersDiffer
      <4>5. HandsOwn(new)' /\ QueuesOwn(new)' /\ BatchOwns(new)' /\ WarningOwns(new)'
        BY <1>1, <2>0, <4>2, <4>3, OthersKeep, HoldersDiffer
      <4>6. OwnedBy(new)' /\ new \in [Buffers -> Holders]
        BY <2>0, <4>3, <4>4, <4>5, MovedTo DEF OwnedBy
      <4>7. avail' \in [Buffers -> Nat] /\ ref' \in [Buffers -> Nat]
        BY <1>0, <1>3, <4>1, Acquired
      <4>8. Distinct(batch)' /\ \A k \in Producers : Distinct(q[k])'
        BY <1>2, <4>2 DEF Distinct
      <4> HIDE DEF new
      <4> QED BY <4>6, <4>7, <4>8, OwnedNow
    <3> QED BY <2>1, <3>1, <3>2 DEF OpenLine, Fails, AcquireFails
  <2>2. CASE SwapBuffer(t)
    <3>1. PICK b \in Buffers : b = line[t]
      BY <1>0, <2>0, <2>2 DEF SwapBuffer, Holds, Types
    <3>2. /\ hand' = [hand EXCEPT ![t] = b] /\ hand[t] \notin Buffers /\ UNCHANGED <<q, batch, warning>>
      BY <2>0, <2>2, <3>1, DispatcherAssumption DEF SwapBuffer, Holds
    <3>3. CASE UNCHANGED <<avail, ref>> /\ line' = [line EXCEPT ![t] = NoBuf]
      <4> DEFINE new == Moved(owner, {b}, Hand(t))
      <4>1. owner[b] = Line(t) /\ LinesOwn(new)'
        BY <1>0, <1>3, <2>0, <3>1, <3>3, LineGives, HoldersDiffer
      <4>2. HandsOwn(new)'
        BY <1>0, <1>3, <3>2, <4>1, HandGets, HoldersDiffer
      <4>3. PoolOwns(new)' /\ QueuesOwn(new)' /\ BatchOwns(new)' /\ WarningOwns(new)'
        BY <1>1, <2>0, <3>2, <3>3, <4>1, OthersKeep, HoldersDiffer
      <4>4. OwnedBy(new)' /\ new \in [Buffers -> Holders]
        BY <2>0, <4>1, <4>2, <4>3, MovedTo DEF OwnedBy
      <4>5. /\ avail' \in [Buffers -> Nat] /\ ref' \in [Buffers -> Nat]
            /\ Distinct(batch)' /\ \A k \in Producers : Distinct(q[k])'
        BY <1>2, <3>2, <3>3 DEF Distinct
      <4> HIDE DEF new
      <4> QED BY <4>4, <4>5, OwnedNow
    <3>4. CASE \E c \in Buffers : Acquire(c) /\ line' = [line EXCEPT ![t] = c]
      <4>1. PICK c \in Buffers : Acquire(c) /\ line' = [line EXCEPT ![t] = c]
        BY <3>4
      <4> DEFINE new == Moved(Moved(owner, {b}, Hand(t)), {c}, Line(t))
      <4>2. OwnedBy(new)'
        BY <1>0, <1>1, <3>1, <3>2, <4>1, SwapMoves
      <4>3. new \in [Buffers -> Holders]
        BY <2>0, MovedTo
      <4>4. avail' \in [Buffers -> Nat] /\ ref' \in [Buffers -> Nat]
        BY <1>0, <1>3, <4>1, Acquired
      <4>5. Distinct(batch)' /\ \A k \in Producers : Distinct(q[k])'
        BY <1>2, <3>2 DEF Distinct
      <4> HIDE DEF new
      <4> QED BY <4>2, <4>3, <4>4, <4>5, OwnedNow
    <3> QED BY <2>2, <3>3, <3>4 DEF SwapBuffer, Fails, AcquireFails
  <2>3. ASSUME NEW k \in Producers, EnqueueLine(t) \/ EnqueueMarker(t), Push(k, hand[t]) PROVE Owned'
    <3>1. PICK b \in Buffers : b = hand[t]
      BY <1>0, <2>0, <2>3 DEF EnqueueLine, EnqueueMarker, Holds, Types
    <3>2. hand' = [hand EXCEPT ![t] = NoBuf] /\ UNCHANGED <<avail, ref, line, batch, warning>>
      BY <2>3 DEF EnqueueLine, EnqueueMarker
    <3> DEFINE new == Moved(owner, {b}, Queue(k))
    <3>0. Queue(k) \in Holders /\ \A u \in Threads : Queue(k) # Hand(u)
      BY AreHolders, HoldersDiffer
    <3>3. owner[b] = Hand(t) /\ HandsOwn(new)'
      BY <1>0, <1>3, <3>0, <3>1, <3>2, HandGives
    <3>4. QueuesOwn(new)' /\ \A l \in Producers : Distinct(q'[l])
      BY <1>0, <1>3, <2>3, <3>1, <3>3, QueueGets, HoldersDiffer
    <3>5. PoolOwns(new)' /\ LinesOwn(new)' /\ BatchOwns(new)' /\ WarningOwns(new)'
      BY <1>1, <3>0, <3>2, <3>3, OthersKeep, HoldersDiffer
    <3>6. OwnedBy(new)' /\ new \in [Buffers -> Holders]
      BY <3>0, <3>3, <3>4, <3>5, MovedTo DEF OwnedBy
    <3>7. /\ avail' \in [Buffers -> Nat] /\ ref' \in [Buffers -> Nat]
          /\ Distinct(batch)' /\ \A l \in Producers : Distinct(q[l])'
      BY <1>2, <3>2, <3>4 DEF Distinct
    <3> HIDE DEF new
    <3> QED BY <3>6, <3>7, OwnedNow
  <2>4. CASE CloseLine(t)
    <3>1. PICK b \in Buffers : b = line[t]
      BY <1>0, <2>0, <2>4 DEF CloseLine, Holds, Types
    <3>2. PICK s \in Seq(Buffers) : s = <<b>> /\ Elements(s) = {b} /\ Distinct(s)
      BY FewElements
    <3>3. /\ ReleaseAll(s) /\ line' = [line EXCEPT ![t] = NoBuf] /\ UNCHANGED <<hand, q, batch, warning>>
      BY <2>4, <3>1, <3>2 DEF CloseLine
    <3> DEFINE new == Moved(owner, {b}, Pooled)
    <3>4. owner[b] = Line(t) /\ LinesOwn(new)'
      BY <1>0, <1>3, <3>1, <3>3, LineGives, AreHolders, HoldersDiffer
    <3>5. \A x \in Elements(s) : owner[x] # Pooled /\ ref[x] = 1
      BY <1>3, <3>2, <3>4, HoldersDiffer DEF PoolOwns
    <3>6. PoolOwns(new)'
      BY <1>0, <1>3, <3>2, <3>3, <3>5, PoolGets
    <3>7. HandsOwn(new)' /\ QueuesOwn(new)' /\ BatchOwns(new)' /\ WarningOwns(new)'
      BY <1>1, <3>3, <3>4, OthersKeep, AreHolders, HoldersDiffer
    <3>8. OwnedBy(new)' /\ new \in [Buffers -> Holders]
      BY <3>4, <3>6, <3>7, MovedTo, AreHolders DEF OwnedBy
    <3>9. /\ avail' \in [Buffers -> Nat] /\ ref' \in [Buffers -> Nat]
      BY <1>0, <3>2, <3>3, <3>5, Released
    <3>10. Distinct(batch)' /\ \A l \in Producers : Distinct(q[l])'
      BY <1>2, <3>3 DEF Distinct
    <3> HIDE DEF new
    <3> QED BY <3>8, <3>9, <3>10, OwnedNow
  <2>5. CASE AcquireMarker(t)
    <3>1. CASE UNCHANGED <<avail, ref, hand>>
      BY <1>0, <2>5, <3>1, OwnedKept DEF AcquireMarker
    <3>2. CASE \E b \in Buffers : Acquire(b) /\ hand' = [hand EXCEPT ![t] = b]
      <4>1. PICK b \in Buffers : Acquire(b) /\ hand' = [hand EXCEPT ![t] = b]
        BY <3>2
      <4>2. UNCHANGED <<line, q, batch, warning>> /\ hand[t] \notin Buffers
        BY <2>0, <2>5, DispatcherAssumption DEF AcquireMarker, Holds
      <4> DEFINE new == Moved(owner, {b}, Hand(t))
      <4>3. owner[b] = Pooled /\ PoolOwns(new)'
        BY <1>0, <1>3, <2>0, <4>1, PoolGives, HoldersDiffer
      <4>4. HandsOwn(new)'
        BY <1>0, <1>3, <4>1, <4>2, <4>3, HandGets, HoldersDiffer
      <4>5. LinesOwn(new)' /\ QueuesOwn(new)' /\ BatchOwns(new)' /\ WarningOwns(new)'
        BY <1>1, <2>0, <4>2, <4>3, OthersKeep, HoldersDiffer
      <4>6. OwnedBy(new)' /\ new \in [Buffers -> Holders]
        BY <2>0, <4>3, <4>4, <4>5, MovedTo DEF OwnedBy
      <4>7. avail' \in [Buffers -> Nat] /\ ref' \in [Buffers -> Nat]
        BY <1>0, <1>3, <4>1, Acquired
      <4>8. Distinct(batch)' /\ \A k \in Producers : Distinct(q[k])'
        BY <1>2, <4>2 DEF Distinct
      <4> HIDE DEF new
      <4> QED BY <4>6, <4>7, <4>8, OwnedNow
    <3> QED BY <2>5, <3>1, <3>2 DEF AcquireMarker, Fails, AcquireFails
  <2>6. CASE WriteMore(t) \/ Dispatch(t) \/ SignalLine(t)
    BY <1>0, <2>6, OwnedKept DEF WriteMore, Dispatch, SignalLine
  <2>7. CASE CallFlush(t) \/ TakeTicket(t) \/ SignalMarker(t) \/ WaitDone(t) \/ Wake(t) \/ SpuriousWake(t)
    BY <1>0, <2>7, OwnedKept DEF CallFlush, TakeTicket, SignalMarker, WaitDone, Wake, TestDone, SpuriousWake,
                                 threadVars
  <2>8. CASE PublishConfig(t) \/ DeleteConfig(t)
    BY <1>0, <2>8, OwnedKept DEF PublishConfig, DeleteConfig
  <2>9. CASE EnqueueLine(t)
    BY <2>3, <2>9, Producer DEF EnqueueLine
  <2>10. CASE EnqueueMarker(t)
    BY <2>3, <2>10, Producer DEF EnqueueMarker
  <2> QED BY <1>5, <2>1, <2>2, <2>4, <2>5, <2>6, <2>7, <2>8, <2>9, <2>10 DEF Thread, LineStep, FlushStep, UpdateStep
<1>6. CASE UpWorker
  <2>0. UNCHANGED <<line, hand>>
    BY <1>6, WorkerAlone DEF threadVars
  <2>1. CASE CheckFailures
    <3>1. CASE UNCHANGED <<avail, ref, warning>>
      BY <1>0, <2>0, <2>1, <3>1, OwnedKept DEF CheckFailures
    <3>2. CASE \E b \in Buffers : Acquire(b) /\ warning' = b
      <4>1. PICK b \in Buffers : Acquire(b) /\ warning' = b
        BY <3>2
      <4>2. UNCHANGED <<line, hand, q, batch>> /\ warning \notin Buffers
        BY <1>0, <2>0, <2>1, DispatcherAssumption DEF CheckFailures, Holding
      <4> DEFINE new == Moved(owner, {b}, Warning)
      <4>3. owner[b] = Pooled /\ PoolOwns(new)'
        BY <1>0, <1>3, <4>1, PoolGives, AreHolders, HoldersDiffer
      <4>4. WarningOwns(new)'
        BY <1>0, <1>3, <4>1, <4>2, WarningGets
      <4>5. LinesOwn(new)' /\ HandsOwn(new)' /\ QueuesOwn(new)' /\ BatchOwns(new)'
        BY <1>1, <4>2, <4>3, OthersKeep, AreHolders, HoldersDiffer
      <4>6. OwnedBy(new)' /\ new \in [Buffers -> Holders]
        BY <4>3, <4>4, <4>5, MovedTo, AreHolders DEF OwnedBy
      <4>7. avail' \in [Buffers -> Nat] /\ ref' \in [Buffers -> Nat]
        BY <1>0, <1>3, <4>1, Acquired
      <4>8. Distinct(batch)' /\ \A k \in Producers : Distinct(q[k])'
        BY <1>2, <4>2 DEF Distinct
      <4> HIDE DEF new
      <4> QED BY <4>6, <4>7, <4>8, OwnedNow
    <3> QED BY <2>1, <3>1, <3>2 DEF CheckFailures, Fails, AcquireFails
  <2>2. CASE WriteWarning
    <3>1. PICK b \in Buffers : b = warning
      BY <1>0, <2>2 DEF WriteWarning, Holding, Types
    <3>2. PICK s \in Seq(Buffers) : s = <<b>> /\ Elements(s) = {b} /\ Distinct(s)
      BY FewElements
    <3>3. /\ ReleaseAll(s) /\ warning' = NoBuf /\ UNCHANGED <<line, hand, q, batch>>
      BY <2>0, <2>2, <3>1, <3>2 DEF WriteWarning
    <3> DEFINE new == Moved(owner, {b}, Pooled)
    <3>4. owner[b] = Warning /\ WarningOwns(new)'
      BY <1>0, <1>3, <3>1, <3>3, WarningGives, AreHolders, HoldersDiffer
    <3>5. \A x \in Elements(s) : owner[x] # Pooled /\ ref[x] = 1
      BY <1>3, <3>2, <3>4, HoldersDiffer DEF PoolOwns
    <3>6. PoolOwns(new)'
      BY <1>0, <1>3, <3>2, <3>3, <3>5, PoolGets
    <3>7. LinesOwn(new)' /\ HandsOwn(new)' /\ QueuesOwn(new)' /\ BatchOwns(new)'
      BY <1>1, <3>3, <3>4, OthersKeep, AreHolders, HoldersDiffer
    <3>8. OwnedBy(new)' /\ new \in [Buffers -> Holders]
      BY <3>4, <3>6, <3>7, MovedTo, AreHolders DEF OwnedBy
    <3>9. /\ avail' \in [Buffers -> Nat] /\ ref' \in [Buffers -> Nat]
      BY <1>0, <3>2, <3>3, <3>5, Released
    <3>10. Distinct(batch)' /\ \A l \in Producers : Distinct(q[l])'
      BY <1>2, <3>3 DEF Distinct
    <3> HIDE DEF new
    <3> QED BY <3>8, <3>9, <3>10, OwnedNow
  <2>3. CASE Collect
    <3>1. PICK k \in Producers : q[k] # <<>> /\ Take(k)
      BY <2>3 DEF Collect
    <3>2. UNCHANGED <<avail, ref, line, hand, warning>>
      BY <2>0, <2>3 DEF Collect
    <3>3. PICK b : b = Head(q[k])
      OBVIOUS
    <3> DEFINE new == Moved(owner, {b}, Batch)
    <3>4. /\ b \in Buffers /\ owner[b] = Queue(k) /\ QueuesOwn(new)' /\ BatchOwns(new)'
          /\ Distinct(batch') /\ \A l \in Producers : Distinct(q'[l])
      BY <1>0, <1>3, <3>1, <3>3, QueueGives
    <3>5. PoolOwns(new)' /\ LinesOwn(new)' /\ HandsOwn(new)' /\ WarningOwns(new)'
      BY <1>1, <3>2, <3>4, OthersKeep, AreHolders, HoldersDiffer
    <3>6. OwnedBy(new)' /\ new \in [Buffers -> Holders]
      BY <3>4, <3>5, MovedTo, AreHolders DEF OwnedBy
    <3>7. /\ avail' \in [Buffers -> Nat] /\ ref' \in [Buffers -> Nat]
          /\ Distinct(batch)' /\ \A l \in Producers : Distinct(q[l])'
      BY <1>2, <3>2, <3>4 DEF Distinct
    <3> HIDE DEF new
    <3> QED BY <3>6, <3>7, OwnedNow
  <2>4. ASSUME NEW s \in Seq(Buffers), Distinct(s), Elements(s) \subseteq Elements(batch), ReleaseAll(s),
               Distinct(batch'), Elements(batch') = Elements(batch) \ Elements(s), UNCHANGED <<q, warning>>
        PROVE  Owned'
    <3> DEFINE new == Moved(owner, Elements(s), Pooled)
    <3>1. \A x \in Elements(s) : x \in Buffers /\ owner[x] = Batch
      BY <1>3, <2>4, ElementsIn DEF BatchOwns
    <3>2. \A x \in Elements(s) : owner[x] # Pooled /\ ref[x] = 1
      BY <1>3, <3>1, HoldersDiffer DEF PoolOwns
    <3>3. PoolOwns(new)'
      BY <1>0, <1>3, <2>4, <3>2, PoolGets
    <3>4. BatchOwns(new)'
      BY <1>3, <2>4, BatchGives, AreHolders, HoldersDiffer
    <3>5. LinesOwn(new)' /\ HandsOwn(new)' /\ QueuesOwn(new)' /\ WarningOwns(new)'
      <4>1. Elements(s) \in SUBSET Buffers
        BY <3>1
      <4> QED BY <1>1, <2>0, <2>4, <3>1, <4>1, OthersKeep, AreHolders, HoldersDiffer
    <3>6. OwnedBy(new)' /\ new \in [Buffers -> Holders]
      BY <3>3, <3>4, <3>5, MovedTo, AreHolders DEF OwnedBy
    <3>7. /\ avail' \in [Buffers -> Nat] /\ ref' \in [Buffers -> Nat]
      BY <1>0, <2>4, <3>2, Released
    <3>8. Distinct(batch)' /\ \A l \in Producers : Distinct(q[l])'
      BY <1>2, <2>4 DEF Distinct
    <3> HIDE DEF new
    <3> QED BY <3>6, <3>7, <3>8, OwnedNow
  <2>5. CASE ProcessRun
    <3>1. PICK s : s = Run(batch)
      OBVIOUS
    <3>2. batch \in Seq(Buffers) /\ Distinct(batch)
      BY <1>0, <1>2 DEF Types
    <3>3. /\ s \in Seq(Buffers) /\ Distinct(s) /\ Elements(s) \subseteq Elements(batch)
          /\ Distinct(Rest(batch)) /\ Elements(Rest(batch)) = Elements(batch) \ Elements(s)
      BY <3>1, <3>2, RunAndRest
    <3>4. ReleaseAll(s) /\ batch' = Rest(batch) /\ UNCHANGED <<q, warning>>
      BY <2>5, <3>1 DEF ProcessRun
    <3> QED BY <2>4, <3>3, <3>4
  <2>6. CASE ProcessMarker
    <3>1. PICK b : b = Head(batch)
      OBVIOUS
    <3>2. batch \in Seq(Buffers) /\ Distinct(batch) /\ batch # <<>>
      BY <1>0, <1>2, <2>6 DEF Types, ProcessMarker
    <3>3. /\ b \in Buffers /\ b \in Elements(batch) /\ Distinct(Tail(batch))
          /\ Elements(Tail(batch)) = Elements(batch) \ {b}
      BY <3>1, <3>2, Removed
    <3>4. PICK s \in Seq(Buffers) : s = <<b>> /\ Elements(s) = {b} /\ Distinct(s)
      BY <3>3, FewElements
    <3>5. ReleaseAll(s) /\ batch' = Tail(batch) /\ UNCHANGED <<q, warning>>
      BY <2>6, <3>1, <3>4 DEF ProcessMarker
    <3> QED BY <2>4, <3>3, <3>4, <3>5
  <2>7. CASE LoadForWarning \/ ResetPendingFailures \/ LoadSinks
    BY <1>0, <2>0, <2>7, OwnedKept DEF LoadForWarning, ResetPendingFailures, LoadSinks
  <2>8. CASE CountMarkers \/ NotifyAll
    BY <1>0, <2>0, <2>8, OwnedKept DEF CountMarkers, NotifyAll
  <2> QED BY <1>6, <2>1, <2>2, <2>3, <2>5, <2>6, <2>7, <2>8 DEF UpWorker
<1> QED BY <1>4, <1>5, <1>6 DEF UpStep

-----------------------------------------------------------------------------
(* What is in a buffer.                                                     *)

(* What one owner does to its buffers leaves the text of all others alone.  *)
LEMMA OthersUntouched ==
    ASSUME Types, NEW owner, OwnedBy(owner), NEW h, \A b \in Buffers : owner[b] = h \/ content'[b] = content[b]
    PROVE  /\ \A t \in Threads : line[t] \in Buffers /\ h # Line(t) => content'[line[t]] = content[line[t]]
           /\ \A t \in Threads : hand[t] \in Buffers /\ h # Hand(t) => content'[hand[t]] = content[hand[t]]
           /\ \A k \in Producers : h # Queue(k) => \A b \in Elements(q[k]) : content'[b] = content[b]
           /\ h # Batch => \A b \in Elements(batch) : content'[b] = content[b]
           /\ h # Pooled => \A b \in Buffers : avail[b] = 1 => content'[b] = content[b]
<1>1. \A b \in Buffers : owner[b] # h => content'[b] = content[b]
  OBVIOUS
<1>2. \A t \in Threads : line[t] \in Buffers /\ h # Line(t) => content'[line[t]] = content[line[t]]
  BY <1>1 DEF OwnedBy, LinesOwn
<1>3. \A t \in Threads : hand[t] \in Buffers /\ h # Hand(t) => content'[hand[t]] = content[hand[t]]
  BY <1>1 DEF OwnedBy, HandsOwn
<1>4. \A k \in Producers : h # Queue(k) => \A b \in Elements(q[k]) : content'[b] = content[b]
  <2>1. \A k \in Producers : Elements(q[k]) \subseteq Buffers
    BY ElementsIn DEF Types
  <2> QED BY <1>1, <2>1 DEF OwnedBy, QueuesOwn
<1>5. h # Batch => \A b \in Elements(batch) : content'[b] = content[b]
  <2>1. Elements(batch) \subseteq Buffers
    BY ElementsIn DEF Types
  <2> QED BY <1>1, <2>1 DEF OwnedBy, BatchOwns
<1>6. h # Pooled => \A b \in Buffers : avail[b] = 1 => content'[b] = content[b]
  BY <1>1 DEF OwnedBy, PoolOwns
<1> QED BY <1>2, <1>3, <1>4, <1>5, <1>6

LEMMA QueuesUntouched ==
    ASSUME Types, NEW owner, OwnedBy(owner), NEW t, \A b \in Buffers : owner[b] = Line(t) \/ content'[b] = content[b]
    PROVE  \A k \in Producers : \A b \in Elements(q[k]) : content'[b] = content[b]
<1>1. \A k \in Producers : Elements(q[k]) \subseteq Buffers
  BY ElementsIn DEF Types
<1> QED BY <1>1, HoldersDiffer DEF OwnedBy, QueuesOwn

LEMMA WrittenStep == ASSUME Good, UpStep, UNCHANGED ctlVars PROVE Written'
<1> USE DEF elsewhere, outside, store, counters, poolVars, queueVars, sinkVars, workerVars, Goto
<1>0. Types /\ Calm /\ Holding /\ Owned /\ Written
  BY DEF Good
<1>1. PICK owner \in [Buffers -> Holders] : OwnedBy(owner)
  BY <1>0 DEF Owned
<1>2. CASE UNCHANGED vars
  BY <1>0, <1>2 DEF vars, threadVars, Written, WrittenBy, PoolEmpty, Elements
<1>3. ASSUME NEW t \in Threads, Thread(t) PROVE Written'
  <2>0. Holds(t) /\ Alone(t) /\ WrittenBy(t)
    BY <1>0, <1>3, ThreadAlone DEF Holding, Written
  <2>1. q[Implicit(Ctl)]' = <<>>
    BY <1>0, <2>0 DEF Written, Alone
  (* The others: t writes only to what it owns or takes from the pool. *)
  <2>2. ASSUME NEW h \in {Pooled, Line(t)}, \A b \in Buffers : owner[b] = h \/ content'[b] = content[b],
               NEW u \in Threads \ {t}
        PROVE  WrittenBy(u)'
    <3>1. WrittenBy(u) /\ Holds(u) /\ Explicit(u) \in Producers /\ Implicit(u) \in Producers
      BY <1>0, Producer DEF Written, Holding
    <3>2. /\ line[u] \in Buffers \cup {NoBuf} /\ hand[u] \in Buffers \cup {NoBuf}
      BY <1>0 DEF Types
    <3>3. /\ line[u] \in Buffers => content'[line[u]] = content[line[u]]
          /\ hand[u] \in Buffers => content'[hand[u]] = content[hand[u]]
          /\ \A b \in Elements(q[Explicit(u)]) \cup Elements(q[Implicit(u)]) : content'[b] = content[b]
      <4>1. h # Line(u) /\ h # Hand(u) /\ \A k \in Producers : h # Queue(k)
        BY <2>2, HoldersDiffer
      <4>2. \A k \in Producers : \A b \in Elements(q[k]) : content'[b] = content[b]
        BY <1>0, <1>1, <2>2, <4>1, OthersUntouched
      <4>3. /\ line[u] \in Buffers => content'[line[u]] = content[line[u]]
            /\ hand[u] \in Buffers => content'[hand[u]] = content[hand[u]]
        BY <1>0, <1>1, <2>2, <4>1, OthersUntouched
      <4> QED BY <3>1, <4>2, <4>3
    <3>4. /\ pc'[u] = pc[u] /\ line'[u] = line[u] /\ hand'[u] = hand[u]
          /\ Elements(q[Explicit(u)])' = Elements(q[Explicit(u)])
          /\ Elements(q[Implicit(u)])' = Elements(q[Implicit(u)])
      BY <2>0, <2>2 DEF Alone, Elements
    <3>5. content'[line[u]] = content[line[u]] \/ line[u] = NoBuf
      BY <3>2, <3>3
    <3>6. content'[hand[u]] = content[hand[u]] \/ hand[u] = NoBuf
      BY <3>2, <3>3
    <3> QED BY <3>1, <3>3, <3>4, <3>5, <3>6 DEF WrittenBy, Holds
  <2>3. ASSUME UNCHANGED content PROVE \A u \in Threads \ {t} : WrittenBy(u)'
    BY <2>2, <2>3
  <2>4. ASSUME UNCHANGED <<content, avail>> \/ (UNCHANGED content /\ \E b \in Buffers : Acquire(b)) PROVE PoolEmpty'
    <3>1. CASE UNCHANGED <<content, avail>>
      BY <1>0, <3>1 DEF Written, PoolEmpty
    <3>2. CASE UNCHANGED content /\ \E b \in Buffers : Acquire(b)
      <4>1. PICK b \in Buffers : Acquire(b)
        BY <3>2
      <4>2. \A c \in Buffers : avail'[c] = 1 => avail[c] = 1
        BY <1>0, <1>1, <4>1, Acquired DEF OwnedBy
      <4> QED BY <1>0, <3>2, <4>2 DEF Written, PoolEmpty
    <3> QED BY <2>4, <3>1, <3>2
  (* A line that is written to. *)
  <2>5. ASSUME NEW b \in Buffers, NEW h \in {Pooled, Line(t)}, owner[b] = h, NEW n \in Nat,
               content' = [content EXCEPT ![b] = <<t, n>>], line'[t] = b, pc'[t] = "writing",
               UNCHANGED <<hand, q>>, avail'[b] = 0, \A c \in Buffers \ {b} : avail'[c] = avail[c]
        PROVE  Written'
    <3>1. content'[b] \in Message(t) /\ \A c \in Buffers \ {b} : content'[c] = content[c]
      BY <1>0, <2>5 DEF Types, Texts, Message
    <3>2. \A u \in Threads \ {t} : WrittenBy(u)'
      <4>1. \A c \in Buffers : owner[c] = h \/ content'[c] = content[c]
        BY <2>5, <3>1
      <4> QED BY <2>2, <4>1
    <3>3. Explicit(t) \in Producers /\ Implicit(t) \in Producers
      BY Producer
    <3>4. \A c \in Elements(q[Explicit(t)]) \cup Elements(q[Implicit(t)]) : content'[c] = content[c]
      <4>1. (\A c \in Buffers : owner[c] = h \/ content'[c] = content[c]) /\ \A k \in Producers : h # Queue(k)
        BY <2>5, <3>1, HoldersDiffer
      <4>2. \A k \in Producers : \A c \in Elements(q[k]) : content'[c] = content[c]
        BY <1>0, <1>1, <4>1, OthersUntouched
      <4> QED BY <3>3, <4>2
    <3>5. WrittenBy(t)'
      BY <2>0, <2>5, <3>1, <3>4 DEF WrittenBy, Elements
    <3>6. PoolEmpty'
      BY <1>0, <2>5, <3>1 DEF Written, PoolEmpty
    <3> QED BY <2>1, <3>2, <3>5, <3>6 DEF Written
  <2>6. CASE OpenLine(t)
    <3>1. CASE UNCHANGED <<pc, line, content, avail>>
      <4>1. WrittenBy(t)'
        BY <2>0, <2>6, <3>1 DEF OpenLine, WrittenBy, Elements
      <4> QED BY <2>1, <2>3, <2>4, <3>1, <4>1 DEF Written
    <3>2. CASE \E b \in Buffers : /\ Acquire(b)
                                  /\ content' = [content EXCEPT ![b] = <<t, logged[t] + 1>>]
                                  /\ line' = [line EXCEPT ![t] = b]
                                  /\ Goto(t, "writing")
      <4>1. PICK b \in Buffers : /\ Acquire(b)
                                 /\ content' = [content EXCEPT ![b] = <<t, logged[t] + 1>>]
                                 /\ line' = [line EXCEPT ![t] = b]
                                 /\ Goto(t, "writing")
        BY <3>2
      <4>2. owner[b] = Pooled /\ avail'[b] = 0 /\ \A c \in Buffers \ {b} : avail'[c] = avail[c]
        BY <1>0, <1>1, <4>1, Acquired DEF OwnedBy
      <4>3. line'[t] = b /\ pc'[t] = "writing" /\ logged[t] + 1 \in Nat
        BY <1>0, <4>1 DEF Types
      <4>4. UNCHANGED <<hand, q>>
        BY <2>6 DEF OpenLine
      <4> QED BY <2>5, <4>1, <4>2, <4>3, <4>4
    <3> QED BY <2>6, <3>1, <3>2 DEF OpenLine, Fails, AcquireFails
  <2>7. CASE WriteMore(t)
    <3>1. PICK b \in Buffers : b = line[t]
      BY <1>0, <2>0, <2>7 DEF WriteMore, Holds, Types
    <3>2. owner[b] = Line(t) /\ avail[b] = 0
      BY <1>1, <3>1, HoldersDiffer DEF OwnedBy, LinesOwn, PoolOwns
    <3>3. /\ content' = [content EXCEPT ![b] = <<t, logged[t] + 1>>] /\ line'[t] = b /\ pc'[t] = "writing"
          /\ UNCHANGED <<hand, q, avail>>
      BY <2>7, <3>1 DEF WriteMore
    <3>4. logged[t] + 1 \in Nat
      BY <1>0 DEF Types
    <3> QED BY <2>5, <3>2, <3>3, <3>4
  <2>8. CASE Dispatch(t)
    <3>1. /\ UNCHANGED <<content, avail, line, q>> /\ pc'[t] \in {"swap", "close"}
          /\ pc'[t] = "swap" => content[line[t]] # NoMsg
      BY <1>0, <2>8 DEF Dispatch, Types
    <3>2. WrittenBy(t)'
      BY <2>0, <3>1 DEF WrittenBy, Elements
    <3> QED BY <2>1, <2>3, <2>4, <3>1, <3>2 DEF Written
  <2>9. CASE SwapBuffer(t)
    <3>1. /\ content[line[t]] \in Message(t) /\ hand'[t] = line[t] /\ pc'[t] = "enqueue" /\ UNCHANGED <<content, q>>
      BY <1>0, <2>0, <2>9 DEF SwapBuffer, WrittenBy, Holds, Types
    <3>2. line'[t] # NoBuf => content[line'[t]] = NoMsg
      <4>1. CASE line' = [line EXCEPT ![t] = NoBuf]
        BY <1>0, <4>1 DEF Types
      <4>2. CASE \E b \in Buffers : Acquire(b) /\ line' = [line EXCEPT ![t] = b]
        <5>1. PICK b \in Buffers : Acquire(b) /\ line' = [line EXCEPT ![t] = b]
          BY <4>2
        <5>2. avail[b] = 1
          BY <1>0, <1>1, <5>1, Acquired DEF OwnedBy
        <5>3. line'[t] = b
          BY <1>0, <5>1 DEF Types
        <5> QED BY <1>0, <5>2, <5>3 DEF Written, PoolEmpty
      <4> QED BY <2>9, <4>1, <4>2 DEF SwapBuffer
    <3>3. WrittenBy(t)'
      BY <2>0, <3>1, <3>2 DEF WrittenBy, Elements
    <3>4. PoolEmpty'
      BY <2>4, <2>9 DEF SwapBuffer, Fails, AcquireFails
    <3> QED BY <2>1, <2>3, <3>1, <3>3, <3>4 DEF Written
  <2>10. CASE EnqueueLine(t)
    <3>1. /\ Explicit(t) \in Producers /\ Implicit(t) \in Producers /\ Explicit(t) # Implicit(t)
          /\ hand[t] \in Buffers /\ q[Explicit(t)] \in Seq(Buffers) /\ content[hand[t]] \in Message(t)
      BY <1>0, <2>0, <2>10, Producer DEF EnqueueLine, Holds, Types, WrittenBy
    <3>2. /\ q'[Explicit(t)] = Append(q[Explicit(t)], hand[t]) /\ q'[Implicit(t)] = q[Implicit(t)]
          /\ pc'[t] = "signal" /\ UNCHANGED <<content, avail, line>>
      BY <1>0, <2>10, <3>1 DEF EnqueueLine, Push, Types
    <3>3. Elements(q'[Explicit(t)]) = Elements(q[Explicit(t)]) \cup {hand[t]}
      BY <3>1, <3>2, Appended
    <3>4. WrittenBy(t)'
      BY <2>0, <3>1, <3>2, <3>3 DEF WrittenBy, Elements
    <3> QED BY <2>1, <2>3, <2>4, <3>2, <3>4 DEF Written
  <2>11. CASE SignalLine(t)
    <3>1. WrittenBy(t)'
      BY <1>0, <2>0, <2>11 DEF SignalLine, WrittenBy, Elements, Types
    <3> QED BY <2>1, <2>3, <2>4, <2>11, <3>1 DEF Written, SignalLine
  <2>12. CASE CloseLine(t)
    <3>1. PICK b \in Buffers : b = line[t]
      BY <1>0, <2>0, <2>12 DEF CloseLine, Holds, Types
    <3>2. PICK s \in Seq(Buffers) : s = <<b>> /\ Elements(s) = {b} /\ Distinct(s)
      BY FewElements
    <3>3. owner[b] = Line(t) /\ ref[b] = 1 /\ ReleaseAll(s)
      BY <1>1, <2>12, <3>1, <3>2, HoldersDiffer DEF OwnedBy, LinesOwn, PoolOwns, CloseLine
    <3>4. /\ content'[b] = NoMsg
          /\ \A c \in Buffers \ {b} : content'[c] = content[c] /\ avail'[c] = avail[c]
      BY <1>0, <3>2, <3>3, Released
    <3>5. \A u \in Threads \ {t} : WrittenBy(u)'
      <4>1. \A c \in Buffers : owner[c] = Line(t) \/ content'[c] = content[c]
        BY <3>3, <3>4
      <4> QED BY <2>2, <4>1
    <3>6. Explicit(t) \in Producers /\ Implicit(t) \in Producers
      BY Producer
    <3>7. \A c \in Elements(q[Explicit(t)]) \cup Elements(q[Implicit(t)]) : content'[c] = content[c]
      <4>1. \A c \in Buffers : owner[c] = Line(t) \/ content'[c] = content[c]
        BY <3>3, <3>4
      <4>2. \A k \in Producers : \A c \in Elements(q[k]) : content'[c] = content[c]
        BY <1>0, <1>1, <4>1, QueuesUntouched
      <4> QED BY <3>6, <4>2
    <3>8. line'[t] = NoBuf /\ pc'[t] = "idle" /\ UNCHANGED <<hand, q>>
      BY <1>0, <2>12 DEF CloseLine, Types
    <3>9. WrittenBy(t)'
      BY <2>0, <3>7, <3>8 DEF WrittenBy, Elements
    <3>10. PoolEmpty'
      BY <1>0, <3>4 DEF Written, PoolEmpty
    <3> QED BY <2>1, <3>5, <3>9, <3>10 DEF Written
  <2>13. CASE AcquireMarker(t)
    <3>1. CASE UNCHANGED <<avail, hand>> /\ Goto(t, FlushReturnsTo(t))
      <4>1. WrittenBy(t)'
        BY <1>0, <2>0, <2>13, <3>1 DEF AcquireMarker, WrittenBy, Elements, Types, FlushReturnsTo
      <4> QED BY <2>1, <2>3, <2>4, <2>13, <3>1, <4>1 DEF Written, AcquireMarker
    <3>2. CASE \E b \in Buffers : Acquire(b) /\ hand' = [hand EXCEPT ![t] = b] /\ Goto(t, "ticket")
      <4>1. PICK b \in Buffers : Acquire(b) /\ hand' = [hand EXCEPT ![t] = b] /\ Goto(t, "ticket")
        BY <3>2
      <4>2. hand'[t] = b /\ pc'[t] = "ticket" /\ UNCHANGED <<content, line, q>>
        BY <1>0, <2>13, <4>1 DEF Types, AcquireMarker
      <4>3. content[b] = NoMsg
        BY <1>0, <1>1, <4>1, Acquired DEF Written, PoolEmpty, OwnedBy
      <4>4. WrittenBy(t)'
        BY <2>0, <4>2, <4>3 DEF WrittenBy, Elements
      <4> QED BY <2>1, <2>3, <2>4, <4>1, <4>2, <4>4 DEF Written
    <3> QED BY <2>13, <3>1, <3>2 DEF AcquireMarker, Fails, AcquireFails
  <2>14. CASE EnqueueMarker(t)
    <3>1. /\ Explicit(t) \in Producers /\ Implicit(t) \in Producers /\ Explicit(t) # Implicit(t)
          /\ hand[t] \in Buffers /\ q[Implicit(t)] \in Seq(Buffers) /\ content[hand[t]] = NoMsg
      BY <1>0, <2>0, <2>14, Producer DEF EnqueueMarker, Holds, Types, WrittenBy
    <3>2. /\ q'[Implicit(t)] = Append(q[Implicit(t)], hand[t]) /\ q'[Explicit(t)] = q[Explicit(t)]
          /\ pc'[t] = "signal_marker" /\ UNCHANGED <<content, avail, line>>
      BY <1>0, <2>14, <3>1 DEF EnqueueMarker, Push, Types
    <3>3. Elements(q'[Implicit(t)]) = Elements(q[Implicit(t)]) \cup {hand[t]}
      BY <3>1, <3>2, Appended
    <3>4. WrittenBy(t)'
      BY <2>0, <3>1, <3>2, <3>3 DEF WrittenBy, Elements
    <3> QED BY <2>1, <2>3, <2>4, <3>2, <3>4 DEF Written
  <2>15. ASSUME UNCHANGED <<content, avail, line, hand, q>>,
                pc'[t] \in {"flush", "wait", "parked", "idle", "delete"} \/ pc'[t] = pc[t]
                           \/ (pc[t] = "ticket" /\ pc'[t] = "lock")
         PROVE  Written'
    <3>1. WrittenBy(t)'
      BY <2>0, <2>15 DEF WrittenBy, Elements
    <3> QED BY <2>1, <2>3, <2>4, <2>15, <3>1 DEF Written
  <2>16. CASE CallFlush(t) \/ TakeTicket(t) \/ SignalMarker(t)
    BY <1>0, <2>15, <2>16 DEF CallFlush, TakeTicket, SignalMarker, Types
  <2>17. CASE WaitDone(t) \/ Wake(t)
    BY <1>0, <2>15, <2>17 DEF WaitDone, Wake, TestDone, FlushReturnsTo, Types
  <2>18. CASE SpuriousWake(t) \/ PublishConfig(t) \/ DeleteConfig(t)
    BY <1>0, <2>15, <2>18 DEF SpuriousWake, PublishConfig, DeleteConfig, Types, threadVars
  <2> QED BY <1>3, <2>6, <2>7, <2>8, <2>9, <2>10, <2>11, <2>12, <2>13, <2>14, <2>16, <2>17, <2>18
          DEF Thread, LineStep, FlushStep, UpdateStep
<1>4. CASE UpWorker
  <2>0. UNCHANGED <<pc, line, hand>>
    BY <1>4, WorkerAlone DEF threadVars
  <2>1. ASSUME NEW h \in {Batch, Warning, Pooled}, \A b \in Buffers : owner[b] = h \/ content'[b] = content[b],
               \A k \in Producers : Elements(q'[k]) \subseteq Elements(q[k])
        PROVE  \A u \in Threads : WrittenBy(u)'
    <3> SUFFICES ASSUME NEW u \in Threads PROVE WrittenBy(u)'
      OBVIOUS
    <3>1. WrittenBy(u) /\ Holds(u) /\ Explicit(u) \in Producers /\ Implicit(u) \in Producers
      BY <1>0, Producer DEF Written, Holding
    <3>2. /\ line[u] \in Buffers \cup {NoBuf} /\ hand[u] \in Buffers \cup {NoBuf}
      BY <1>0 DEF Types
    <3>3. /\ line[u] \in Buffers => content'[line[u]] = content[line[u]]
          /\ hand[u] \in Buffers => content'[hand[u]] = content[hand[u]]
          /\ \A b \in Elements(q[Explicit(u)]) \cup Elements(q[Implicit(u)]) : content'[b] = content[b]
      BY <1>0, <1>1, <2>1, <3>1, OthersUntouched, HoldersDiffer
    <3>4. /\ Elements(q[Explicit(u)])' \subseteq Elements(q[Explicit(u)])
          /\ Elements(q[Implicit(u)])' \subseteq Elements(q[Implicit(u)])
      BY <2>1, <3>1 DEF Elements
    <3>5. content'[line[u]] = content[line[u]] \/ line[u] = NoBuf
      BY <3>2, <3>3
    <3>6. content'[hand[u]] = content[hand[u]] \/ hand[u] = NoBuf
      BY <3>2, <3>3
    <3> QED BY <2>0, <3>1, <3>3, <3>4, <3>5, <3>6 DEF WrittenBy, Holds
  <2>2. ASSUME UNCHANGED <<content, q>>, UNCHANGED avail \/ \E b \in Buffers : Acquire(b) PROVE Written'
    <3>1. \A u \in Threads : WrittenBy(u)'
      BY <1>0, <2>0, <2>2 DEF Written, WrittenBy, Elements
    <3>2. PoolEmpty'
      <4>1. CASE UNCHANGED avail
        BY <1>0, <2>2, <4>1 DEF Written, PoolEmpty
      <4>2. CASE \E b \in Buffers : Acquire(b)
        <5>1. PICK b \in Buffers : Acquire(b)
          BY <4>2
        <5>2. \A c \in Buffers : avail'[c] = 1 => avail[c] = 1
          BY <1>0, <1>1, <5>1, Acquired DEF OwnedBy
        <5> QED BY <1>0, <2>2, <5>2 DEF Written, PoolEmpty
      <4> QED BY <2>2, <4>1, <4>2
    <3> QED BY <1>0, <2>2, <3>1, <3>2 DEF Written
  <2>3. ASSUME NEW s \in Seq(Buffers), Distinct(s), ReleaseAll(s), NEW h \in {Batch, Warning},
               \A b \in Elements(s) : owner[b] = h, UNCHANGED q
        PROVE  Written'
    <3>1. \A b \in Elements(s) : b \in Buffers /\ ref[b] = 1
      BY <1>1, <2>3, ElementsIn, HoldersDiffer DEF OwnedBy, PoolOwns
    <3>2. /\ \A b \in Elements(s) : content'[b] = NoMsg
          /\ \A b \in Buffers \ Elements(s) : content'[b] = content[b] /\ avail'[b] = avail[b]
      BY <1>0, <2>3, <3>1, Released
    <3>3. \A u \in Threads : WrittenBy(u)'
      <4>1. \A b \in Buffers : owner[b] = h \/ content'[b] = content[b]
        BY <2>3, <3>2
      <4> QED BY <2>1, <2>3, <4>1
    <3>4. PoolEmpty'
      BY <1>0, <3>2 DEF Written, PoolEmpty
    <3> QED BY <1>0, <2>3, <3>3, <3>4 DEF Written
  <2>4. CASE CheckFailures
    BY <2>2, <2>4 DEF CheckFailures, Fails, AcquireFails
  <2>5. CASE LoadForWarning \/ ResetPendingFailures \/ LoadSinks
    BY <2>2, <2>5 DEF LoadForWarning, ResetPendingFailures, LoadSinks
  <2>6. CASE CountMarkers \/ NotifyAll
    BY <2>2, <2>6 DEF CountMarkers, NotifyAll
  <2>7. CASE WriteWarning
    <3>1. PICK b \in Buffers : b = warning
      BY <1>0, <2>7 DEF WriteWarning, Holding, Types
    <3>2. PICK s \in Seq(Buffers) : s = <<b>> /\ Elements(s) = {b} /\ Distinct(s)
      BY FewElements
    <3>3. owner[b] = Warning /\ ReleaseAll(s) /\ UNCHANGED q
      BY <1>1, <2>7, <3>1, <3>2 DEF WriteWarning, OwnedBy, WarningOwns
    <3> QED BY <2>3, <3>2, <3>3
  <2>8. CASE Collect
    <3>1. PICK k \in Producers : q[k] # <<>> /\ Take(k)
      BY <2>8 DEF Collect
    <3>2. UNCHANGED <<content, avail>> /\ q' = [q EXCEPT ![k] = Tail(@)] /\ q \in [Producers -> Seq(Buffers)]
      BY <1>0, <2>8, <3>1 DEF Collect, Take, Types
    <3>3. \A l \in Producers : Elements(q'[l]) \subseteq Elements(q[l])
      BY <3>1, <3>2, Removed
    <3>4. \A u \in Threads : WrittenBy(u)'
      BY <2>1, <3>2, <3>3
    <3>5. k # Implicit(Ctl) /\ q'[Implicit(Ctl)] = q[Implicit(Ctl)]
      BY <1>0, <3>1, <3>2, Producer DEF Written
    <3> QED BY <1>0, <3>2, <3>4, <3>5 DEF Written, PoolEmpty
  <2>9. CASE ProcessRun
    <3>1. PICK s : s = Run(batch)
      OBVIOUS
    <3>2. batch \in Seq(Buffers) /\ Distinct(batch)
      BY <1>0 DEF Types, Owned
    <3>3. /\ s \in Seq(Buffers) /\ Distinct(s) /\ Elements(s) \subseteq Elements(batch)
      BY <3>1, <3>2, RunAndRest
    <3>4. \A b \in Elements(s) : owner[b] = Batch
      BY <1>1, <3>3, ElementsIn DEF OwnedBy, BatchOwns
    <3>5. ReleaseAll(s) /\ UNCHANGED q
      BY <2>9, <3>1 DEF ProcessRun
    <3> QED BY <2>3, <3>3, <3>4, <3>5
  <2>10. CASE ProcessMarker
    <3>1. PICK b : b = Head(batch)
      OBVIOUS
    <3>2. batch \in Seq(Buffers) /\ batch # <<>>
      BY <1>0, <2>10 DEF Types, ProcessMarker
    <3>3. b \in Buffers /\ b \in Elements(batch)
      BY <3>1, <3>2, Removed
    <3>4. PICK s \in Seq(Buffers) : s = <<b>> /\ Elements(s) = {b} /\ Distinct(s)
      BY <3>3, FewElements
    <3>5. owner[b] = Batch /\ ReleaseAll(s) /\ UNCHANGED q
      BY <1>1, <2>10, <3>1, <3>3, <3>4 DEF ProcessMarker, OwnedBy, BatchOwns
    <3> QED BY <2>3, <3>4, <3>5
  <2> QED BY <1>4, <2>4, <2>5, <2>6, <2>7, <2>8, <2>9, <2>10 DEF UpWorker
<1> QED BY <1>2, <1>3, <1>4 DEF UpStep

-----------------------------------------------------------------------------
(* Tickets and wakeups.                                                     *)

(* Markers and tickets are finitely many.                                   *)
LEMMA FewMarkers == /\ IsFiniteSet(Marking) /\ Cardinality(Marking) \in Nat
                    /\ Types => IsFiniteSet(Locking) /\ Cardinality(Locking) \in Nat
<1>1. IsFiniteSet(Marking)
  BY DispatcherAssumption, FS_Subset DEF Marking
<1>2. IsFiniteSet(Locking)
  BY DispatcherAssumption, FS_Subset DEF Locking
<1> QED BY <1>1, <1>2, FS_CardinalityType

(* Text that is written or erased outside the queue and the batch makes no  *)
(* marker, and none disappears.                                             *)
LEMMA MarkingKept ==
    ASSUME Types, NEW owner, OwnedBy(owner), UNCHANGED <<q, batch>>,
           \A b \in Buffers : content'[b] = content[b] \/ owner[b] \in {Pooled, Warning} \/ \E t : owner[b] = Line(t)
    PROVE  Marking' = Marking
<1>1. \A b \in Buffers : b \in Elements(batch) \/ (\E k \in Producers : b \in Elements(q[k]))
                         => content'[b] = content[b]
  BY HoldersDiffer DEF OwnedBy, QueuesOwn, BatchOwns
<1>2. Elements(batch') = Elements(batch) /\ \A k \in Producers : Elements(q'[k]) = Elements(q[k])
  BY DEF Elements
<1> QED BY <1>1, <1>2 DEF Marking

LEMMA LockingKept == ASSUME \A t \in Threads : pc'[t] = "lock" <=> pc[t] = "lock" PROVE Locking' = Locking
  BY DEF Locking

LEMMA TicketsStep == ASSUME Good, UpStep, UNCHANGED ctlVars PROVE Tickets'
<1> USE DEF elsewhere, outside, store, counters, poolVars, queueVars, flushVars, sinkVars, workerVars, Goto
<1>0. Types /\ Calm /\ Holding /\ Written /\ Owned /\ Tickets
  BY DEF Good
<1>1. PICK owner \in [Buffers -> Holders] : OwnedBy(owner)
  BY <1>0 DEF Owned
<1>2. /\ flush_seq_ \in Nat /\ flush_done_ \in Nat /\ flush_requested \in Nat
      /\ q \in [Producers -> Seq(Buffers)] /\ batch \in Seq(Buffers) /\ pc \in [Threads -> Labels]
  BY <1>0 DEF Types
<1>3. ASSUME Marking' = Marking, Locking' = Locking, UNCHANGED <<flush_seq_, flush_done_, flush_requested>>
      PROVE  Tickets'
  BY <1>0, <1>3 DEF Tickets
<1>4. ASSUME UNCHANGED <<content, q, batch>> PROVE Marking' = Marking
  BY <1>4 DEF Marking, Elements
<1>5. CASE UNCHANGED vars
  BY <1>3, <1>4, <1>5 DEF vars, threadVars, Locking
<1>6. ASSUME NEW t \in Threads, Thread(t) PROVE Tickets'
  <2>0. Holds(t) /\ Alone(t) /\ WrittenBy(t)
    BY <1>0, <1>6, ThreadAlone DEF Holding, Written
  <2>1. ASSUME pc'[t] = "lock" <=> pc[t] = "lock" PROVE Locking' = Locking
    BY <2>0, <2>1, LockingKept DEF Alone
  <2>2. UNCHANGED <<batch, flush_requested>>
    BY <2>0 DEF Alone
  <2>3. CASE OpenLine(t)
    <3>1. /\ pc[t] = "idle" /\ pc'[t] \in {"idle", "writing"} /\ UNCHANGED <<q, flush_seq_, flush_done_>>
      BY <1>2, <2>3 DEF OpenLine
    <3>2. \A b \in Buffers : content'[b] = content[b] \/ owner[b] = Pooled
      <4>1. CASE UNCHANGED content
        BY <4>1
      <4>2. CASE \E b \in Buffers : Acquire(b) /\ content' = [content EXCEPT ![b] = <<t, logged[t] + 1>>]
        BY <1>0, <1>1, <4>2, Acquired DEF OwnedBy, Types, Texts
      <4> QED BY <2>3, <4>1, <4>2 DEF OpenLine
    <3>3. Marking' = Marking
      BY <1>0, <1>1, <2>2, <3>1, <3>2, MarkingKept
    <3> QED BY <1>3, <2>1, <2>2, <3>1, <3>3
  <2>4. CASE WriteMore(t)
    <3>1. /\ pc'[t] = pc[t] /\ UNCHANGED <<q, flush_seq_, flush_done_>>
      BY <2>4 DEF WriteMore
    <3>2. \A b \in Buffers : content'[b] = content[b] \/ owner[b] = Line(t)
      BY <1>0, <1>1, <2>4 DEF WriteMore, OwnedBy, LinesOwn, Types, Texts
    <3>3. Marking' = Marking
      BY <1>0, <1>1, <2>2, <3>1, <3>2, MarkingKept
    <3> QED BY <1>3, <2>1, <2>2, <3>1, <3>3
  <2>5. CASE CloseLine(t)
    <3>1. PICK b \in Buffers : b = line[t]
      BY <1>0, <2>0, <2>5 DEF CloseLine, Holds, Types
    <3>2. PICK s \in Seq(Buffers) : s = <<b>> /\ Elements(s) = {b} /\ Distinct(s)
      BY FewElements
    <3>3. owner[b] = Line(t) /\ ref[b] = 1 /\ ReleaseAll(s)
      BY <1>1, <2>5, <3>1, <3>2, HoldersDiffer DEF OwnedBy, LinesOwn, PoolOwns, CloseLine
    <3>4. \A c \in Buffers : content'[c] = content[c] \/ owner[c] = Line(t)
      BY <1>0, <3>2, <3>3, Released
    <3>5. /\ pc[t] = "close" /\ pc'[t] = "idle" /\ UNCHANGED <<q, flush_seq_, flush_done_>>
      BY <1>2, <2>5 DEF CloseLine
    <3>6. Marking' = Marking
      BY <1>0, <1>1, <2>2, <3>4, <3>5, MarkingKept
    <3> QED BY <1>3, <2>1, <2>2, <3>5, <3>6
  <2>6. CASE EnqueueLine(t)
    <3>1. /\ Explicit(t) \in Producers /\ hand[t] \in Buffers /\ content[hand[t]] # NoMsg
          /\ q[Explicit(t)] \in Seq(Buffers)
      <4>1. NoMsg \notin Message(t)
        BY DEF NoMsg, Message
      <4> QED BY <1>0, <2>0, <2>6, <4>1, Producer DEF EnqueueLine, Holds, Types, WrittenBy
    <3>2. /\ q'[Explicit(t)] = Append(q[Explicit(t)], hand[t])
          /\ \A k \in Producers \ {Explicit(t)} : q'[k] = q[k]
          /\ UNCHANGED <<content, flush_seq_, flush_done_>> /\ pc[t] = "enqueue" /\ pc'[t] = "signal"
      BY <1>2, <2>6, <3>1 DEF EnqueueLine, Push
    <3>3. Elements(q'[Explicit(t)]) = Elements(q[Explicit(t)]) \cup {hand[t]}
      BY <3>1, <3>2, Appended
    <3>4. Elements(batch') = Elements(batch) /\ \A k \in Producers \ {Explicit(t)} : Elements(q'[k]) = Elements(q[k])
      BY <2>2, <3>2
    <3>5. Marking' = Marking
      <4>1. \A b \in Buffers : b \in Marking' <=> b \in Marking
        BY <3>1, <3>2, <3>3, <3>4 DEF Marking
      <4> QED BY <4>1 DEF Marking
    <3> QED BY <1>3, <2>1, <2>2, <3>2, <3>5
  <2>7. CASE Dispatch(t) \/ SwapBuffer(t) \/ SignalLine(t) \/ CallFlush(t) \/ AcquireMarker(t) \/ SignalMarker(t)
    <3>1. UNCHANGED <<content, q, flush_seq_, flush_done_>>
      BY <2>7 DEF Dispatch, SwapBuffer, SignalLine, CallFlush, AcquireMarker, SignalMarker
    <3>2. pc[t] # "lock" /\ pc'[t] # "lock"
      BY <1>2, <2>7 DEF Dispatch, SwapBuffer, SignalLine, CallFlush, AcquireMarker, SignalMarker, FlushReturnsTo
    <3> QED BY <1>3, <1>4, <2>1, <2>2, <3>1, <3>2
  <2>8. CASE WaitDone(t) \/ Wake(t) \/ SpuriousWake(t) \/ PublishConfig(t) \/ DeleteConfig(t)
    <3>1. UNCHANGED <<content, q, flush_seq_, flush_done_>>
      BY <2>8 DEF WaitDone, Wake, TestDone, SpuriousWake, PublishConfig, DeleteConfig
    <3>2. pc[t] # "lock" /\ pc'[t] # "lock"
      BY <1>2, <2>8 DEF WaitDone, Wake, TestDone, SpuriousWake, PublishConfig, DeleteConfig, FlushReturnsTo, threadVars
    <3> QED BY <1>3, <1>4, <2>1, <2>2, <3>1, <3>2
  <2>9. CASE TakeTicket(t)
    <3>1. UNCHANGED <<content, q, flush_done_>> /\ flush_seq_' = flush_seq_ + 1
      BY <2>9 DEF TakeTicket
    <3>2. Locking' = Locking \cup {t} /\ t \notin Locking
      BY <1>2, <2>0, <2>9 DEF TakeTicket, Locking, Alone
    <3>3. Cardinality(Locking') = Cardinality(Locking) + 1
      BY <1>0, <3>2, FewMarkers, FS_AddElement
    <3>4. Marking' = Marking
      BY <1>4, <2>2, <3>1
    <3> QED BY <1>0, <1>2, <2>2, <3>1, <3>3, <3>4, FewMarkers DEF Tickets
  <2>10. CASE EnqueueMarker(t)
    <3>1. /\ Implicit(t) \in Producers /\ hand[t] \in Buffers /\ content[hand[t]] = NoMsg
          /\ q[Implicit(t)] \in Seq(Buffers)
      BY <1>0, <2>0, <2>10, Producer DEF EnqueueMarker, Holds, Types, WrittenBy
    <3>2. /\ q'[Implicit(t)] = Append(q[Implicit(t)], hand[t])
          /\ \A k \in Producers \ {Implicit(t)} : q'[k] = q[k]
          /\ UNCHANGED <<content, flush_seq_, flush_done_>>
      BY <1>2, <2>10, <3>1 DEF EnqueueMarker, Push
    <3>3. Elements(q'[Implicit(t)]) = Elements(q[Implicit(t)]) \cup {hand[t]}
      BY <3>1, <3>2, Appended
    <3>4. Elements(batch') = Elements(batch) /\ \A k \in Producers \ {Implicit(t)} : Elements(q'[k]) = Elements(q[k])
      BY <2>2, <3>2
    <3>5. Marking' = Marking \cup {hand[t]} /\ hand[t] \notin Marking
      <4>1. \A b \in Buffers : b \in Marking' <=> b \in Marking \/ b = hand[t]
        BY <3>1, <3>2, <3>3, <3>4 DEF Marking
      <4>2. hand[t] \notin Marking
        BY <1>1, HoldersDiffer DEF Marking, OwnedBy, HandsOwn, BatchOwns, QueuesOwn
      <4> QED BY <3>1, <4>1, <4>2 DEF Marking
    <3>6. Locking' = Locking \ {t} /\ t \in Locking
      BY <1>2, <2>0, <2>10 DEF EnqueueMarker, Locking, Alone
    <3>7. Cardinality(Marking') = Cardinality(Marking) + 1
      BY <3>5, FewMarkers, FS_AddElement
    <3>8. Cardinality(Locking') = Cardinality(Locking) - 1
      BY <1>0, <3>6, FewMarkers, FS_RemoveElement
    <3> QED BY <1>0, <1>2, <2>2, <3>2, <3>7, <3>8, FewMarkers DEF Tickets
  <2> QED BY <1>6, <2>3, <2>4, <2>5, <2>6, <2>7, <2>8, <2>9, <2>10 DEF Thread, LineStep, FlushStep, UpdateStep
<1>7. CASE UpWorker
  <2>1. Locking' = Locking /\ UNCHANGED flush_seq_
    <3>1. UNCHANGED pc
      BY <1>7, WorkerAlone DEF threadVars
    <3>2. UNCHANGED flush_seq_
      BY <1>7 DEF UpWorker, CheckFailures, LoadForWarning, WriteWarning, ResetPendingFailures, Collect, LoadSinks,
                  ProcessRun, ProcessMarker, CountMarkers, NotifyAll
    <3> QED BY <3>1, <3>2, LockingKept
  <2>2. CASE CheckFailures \/ LoadForWarning \/ ResetPendingFailures \/ LoadSinks \/ NotifyAll
    BY <1>3, <1>4, <2>1, <2>2 DEF CheckFailures, LoadForWarning, ResetPendingFailures, LoadSinks, NotifyAll
  <2>3. CASE WriteWarning
    <3>1. PICK b \in Buffers : b = warning
      BY <1>0, <2>3 DEF WriteWarning, Holding, Types
    <3>2. PICK s \in Seq(Buffers) : s = <<b>> /\ Elements(s) = {b} /\ Distinct(s)
      BY FewElements
    <3>3. /\ owner[b] = Warning /\ ref[b] = 1 /\ ReleaseAll(s) /\ UNCHANGED <<q, batch, flush_done_, flush_requested>>
      BY <1>1, <2>3, <3>1, <3>2, HoldersDiffer DEF WriteWarning, OwnedBy, WarningOwns, PoolOwns
    <3>4. \A c \in Buffers : content'[c] = content[c] \/ owner[c] = Warning
      BY <1>0, <3>2, <3>3, Released
    <3>5. Marking' = Marking
      BY <1>0, <1>1, <3>3, <3>4, MarkingKept
    <3> QED BY <1>3, <2>1, <3>3, <3>5
  <2>4. CASE Collect
    <3>1. PICK k \in Producers : q[k] # <<>> /\ Take(k)
      BY <2>4 DEF Collect
    <3>2. /\ q'[k] = Tail(q[k]) /\ batch' = Append(batch, Head(q[k])) /\ \A l \in Producers \ {k} : q'[l] = q[l]
          /\ UNCHANGED <<content, flush_done_, flush_requested>>
      BY <1>2, <2>4, <3>1 DEF Collect, Take
    <3>3. /\ Elements(Tail(q[k])) = Elements(q[k]) \ {Head(q[k])}
          /\ Head(q[k]) \in Buffers /\ Head(q[k]) \in Elements(q[k])
      BY <1>0, <1>2, <3>1, Removed DEF Owned
    <3>4. Elements(batch') = Elements(batch) \cup {Head(q[k])}
      BY <1>2, <3>2, <3>3, Appended
    <3>5. \A l \in Producers \ {k} : Elements(q'[l]) = Elements(q[l])
      BY <3>2
    <3>6. Marking' = Marking
      <4>1. \A b \in Buffers : b \in Marking' <=> b \in Marking
        BY <3>2, <3>3, <3>4, <3>5 DEF Marking
      <4> QED BY <4>1 DEF Marking
    <3> QED BY <1>3, <2>1, <3>2, <3>6
  <2>5. ASSUME NEW s \in Seq(Buffers), Distinct(s), ReleaseAll(s), Elements(s) \subseteq Elements(batch),
               Elements(batch') = Elements(batch) \ Elements(s), UNCHANGED q
        PROVE  Marking' = Marking \ Elements(s)
    <3>1. \A b \in Elements(s) : b \in Buffers /\ owner[b] = Batch /\ ref[b] = 1
      BY <1>1, <2>5, ElementsIn, HoldersDiffer DEF OwnedBy, PoolOwns, BatchOwns
    <3>2. \A b \in Buffers \ Elements(s) : content'[b] = content[b]
      BY <1>0, <2>5, <3>1, Released
    <3>3. \A b \in Elements(s) : \A k \in Producers : b \notin Elements(q[k])
      BY <1>1, <3>1, HoldersDiffer DEF OwnedBy, QueuesOwn
    <3>4. \A k \in Producers : Elements(q'[k]) = Elements(q[k])
      BY <2>5
    <3>5. \A b \in Buffers : b \in Marking' <=> b \in Marking /\ b \notin Elements(s)
      BY <2>5, <3>2, <3>3, <3>4 DEF Marking
    <3> QED BY <3>5 DEF Marking
  <2>6. CASE ProcessRun
    <3>1. PICK s : s = Run(batch)
      OBVIOUS
    <3>2. Distinct(batch)
      BY <1>0 DEF Owned
    <3>3. /\ s \in Seq(Buffers) /\ Distinct(s) /\ Elements(s) \subseteq Elements(batch)
          /\ Elements(Rest(batch)) = Elements(batch) \ Elements(s)
          /\ \A b \in Elements(s) : content[b] # NoMsg
      BY <1>2, <3>1, <3>2, RunAndRest
    <3>4. ReleaseAll(s) /\ batch' = Rest(batch) /\ UNCHANGED <<q, flush_done_, flush_requested>>
      BY <2>6, <3>1 DEF ProcessRun
    <3>5. Marking' = Marking \ Elements(s)
      BY <2>5, <3>3, <3>4
    <3>6. Marking' = Marking
      BY <3>3, <3>5 DEF Marking
    <3> QED BY <1>3, <2>1, <3>4, <3>6
  <2>7. CASE ProcessMarker
    <3>1. PICK b : b = Head(batch)
      OBVIOUS
    <3>2. Distinct(batch) /\ batch # <<>> /\ content[b] = NoMsg
      BY <1>0, <2>7, <3>1 DEF Owned, ProcessMarker, IsMarker
    <3>3. /\ b \in Buffers /\ b \in Elements(batch) /\ Elements(Tail(batch)) = Elements(batch) \ {b}
      BY <1>2, <3>1, <3>2, Removed
    <3>4. PICK s \in Seq(Buffers) : s = <<b>> /\ Elements(s) = {b} /\ Distinct(s)
      BY <3>3, FewElements
    <3>5. /\ ReleaseAll(s) /\ batch' = Tail(batch) /\ UNCHANGED <<q, flush_done_>>
          /\ flush_requested' = flush_requested + 1
      BY <2>7, <3>1, <3>4 DEF ProcessMarker
    <3>6. Marking' = Marking \ {b} /\ b \in Marking
      BY <2>5, <3>2, <3>3, <3>4, <3>5 DEF Marking
    <3>7. Cardinality(Marking') = Cardinality(Marking) - 1
      BY <3>6, FewMarkers, FS_RemoveElement
    <3> QED BY <1>0, <1>2, <2>1, <3>5, <3>7, FewMarkers DEF Tickets
  <2>8. CASE CountMarkers
    <3>1. UNCHANGED <<content, q, batch>> /\ flush_done_' = flush_done_ + flush_requested /\ flush_requested' = 0
      BY <2>8 DEF CountMarkers, MarkersDone
    <3> QED BY <1>0, <1>2, <1>4, <2>1, <3>1, FewMarkers DEF Tickets
  <2> QED BY <1>7, <2>2, <2>3, <2>4, <2>6, <2>7, <2>8 DEF UpWorker
<1> QED BY <1>5, <1>6, <1>7 DEF UpStep

(* What is done has been asked for.                                         *)
LEMMA DoneIsAsked == ASSUME Good PROVE flush_done_ <= flush_seq_
  BY FewMarkers DEF Good, Types, Tickets

LEMMA WakeupsStep == ASSUME Good, UpStep, UNCHANGED ctlVars PROVE Wakeups'
<1> USE DEF elsewhere, outside, store, counters, flushVars, workerVars, Goto
<1>0. Types /\ Calm /\ Wakeups
  BY DEF Good
<1>1. /\ flush_seq_ \in Nat /\ flush_done_ \in Nat /\ flush_requested \in Nat /\ pc \in [Threads -> Labels]
      /\ my_seq \in [Threads -> Nat] /\ parked \subseteq Threads /\ flush_mutex_ \in Threads \cup {NoThread}
      /\ NoThread \notin Threads
  BY <1>0, DispatcherAssumption DEF Types
<1>2. CASE UNCHANGED vars
  BY <1>0, <1>2 DEF vars, threadVars, Wakeups, Done
<1>3. ASSUME NEW t \in Threads, Thread(t) PROVE Wakeups'
  <2>0. Alone(t) /\ UNCHANGED <<wpc>>
    BY <1>0, <1>3, ThreadAlone DEF Alone
  <2>1. ASSUME UNCHANGED <<flush_mutex_, parked, flush_done_>>, pc[t] \notin {"signal_marker", "wait", "parked"}
        PROVE  Wakeups'
    <3>1. flush_mutex_ # t /\ t \notin parked
      BY <1>0, <2>1 DEF Wakeups
    <3> QED BY <1>0, <1>1, <2>0, <2>1, <3>1 DEF Wakeups, Alone, Done
  <2>2. CASE LineStep(t)
    BY <1>1, <2>1, <2>2 DEF LineStep, OpenLine, WriteMore, Dispatch, SwapBuffer, EnqueueLine, SignalLine, CloseLine
  <2>3. CASE CallFlush(t) \/ AcquireMarker(t) \/ TakeTicket(t)
    BY <2>1, <2>3 DEF CallFlush, AcquireMarker, TakeTicket
  <2>4. CASE EnqueueMarker(t)
    <3>1. /\ pc[t] = "lock" /\ flush_mutex_' = t /\ pc'[t] = "signal_marker"
          /\ UNCHANGED <<parked, flush_done_, my_seq>>
      BY <1>1, <2>4 DEF EnqueueMarker
    <3>2. t \notin parked
      BY <1>0, <3>1 DEF Wakeups
    <3> QED BY <1>0, <1>1, <2>0, <3>1, <3>2 DEF Wakeups, Alone, Done
  <2>5. CASE SignalMarker(t)
    <3>1. /\ pc[t] = "signal_marker" /\ pc'[t] = "wait"
          /\ UNCHANGED <<parked, flush_mutex_, flush_done_, my_seq>>
      BY <1>1, <2>5 DEF SignalMarker
    <3>2. t \notin parked
      BY <1>0, <3>1 DEF Wakeups
    <3> QED BY <1>0, <1>1, <2>0, <3>1, <3>2 DEF Wakeups, Alone, Done
  <2>6. CASE WaitDone(t) \/ Wake(t)
    <3>1. TestDone(t) /\ t \notin parked
      BY <1>0, <2>6 DEF WaitDone, Wake, Wakeups
    <3>2. CASE Done(t)
      <4>1. flush_mutex_' = NoThread /\ UNCHANGED <<parked, flush_done_>>
        BY <3>1, <3>2 DEF TestDone
      <4> QED BY <1>0, <1>1, <2>0, <3>1, <4>1 DEF Wakeups, Alone, Done
    <3>3. CASE ~Done(t)
      <4>1. /\ flush_mutex_' = NoThread /\ parked' = parked \cup {t} /\ pc'[t] = "parked"
            /\ UNCHANGED <<my_seq, flush_done_>>
        BY <1>1, <3>1, <3>3 DEF TestDone
      <4> QED BY <1>0, <1>1, <2>0, <3>3, <4>1 DEF Wakeups, Alone, Done
    <3> QED BY <3>2, <3>3
  <2>7. CASE SpuriousWake(t)
    BY <1>0, <2>7 DEF SpuriousWake, Wakeups, Done, threadVars
  <2>8. CASE PublishConfig(t) \/ DeleteConfig(t)
    BY <2>1, <2>8 DEF PublishConfig, DeleteConfig
  <2> QED BY <1>3, <2>2, <2>3, <2>4, <2>5, <2>6, <2>7, <2>8 DEF Thread, FlushStep, UpdateStep
<1>4. CASE UpWorker
  <2>0. UNCHANGED <<pc, my_seq>>
    BY <1>4, WorkerAlone DEF threadVars
  <2>1. ASSUME UNCHANGED <<flush_mutex_, parked, flush_done_>>, wpc # "notify" PROVE Wakeups'
    BY <1>0, <2>0, <2>1 DEF Wakeups, Done
  <2>2. CASE CheckFailures \/ LoadForWarning \/ WriteWarning \/ ResetPendingFailures
    BY <2>1, <2>2 DEF CheckFailures, LoadForWarning, WriteWarning, ResetPendingFailures
  <2>3. CASE Collect \/ LoadSinks \/ ProcessRun \/ ProcessMarker
    BY <2>1, <2>3 DEF Collect, LoadSinks, ProcessRun, ProcessMarker
  <2>4. CASE CountMarkers
    <3>1. /\ wpc = "process" /\ UNCHANGED <<flush_mutex_, parked>>
          /\ flush_requested > 0 => wpc' = "notify"
          /\ flush_requested = 0 => flush_done_' = flush_done_
      BY <1>1, <2>4 DEF CountMarkers, AfterCount, MarkersDone
    <3>2. flush_requested > 0 \/ flush_requested = 0
      BY <1>1
    <3> QED BY <1>0, <2>0, <3>1, <3>2 DEF Wakeups, Done
  <2>5. CASE NotifyAll
    <3>1. parked' = {} /\ UNCHANGED flush_mutex_
      BY <2>5 DEF NotifyAll, Woken
    <3> QED BY <1>0, <2>0, <3>1 DEF Wakeups
  <2> QED BY <1>4, <2>2, <2>3, <2>4, <2>5 DEF UpWorker
<1> QED BY <1>2, <1>3, <1>4 DEF UpStep

-----------------------------------------------------------------------------
(* The sinks the worker uses.                                               *)

LEMMA MoreFailed == ASSUME Types, Fails PROVE misses' # 0
  BY DEF Types, Fails

LEMMA SinksStep == ASSUME Good, UpStep, UNCHANGED ctlVars PROVE Sinks'
<1> USE DEF elsewhere, outside, store, counters, failureVars, flushVars, sinkVars, workerVars, Goto
<1>0. Types /\ Calm /\ Sinks
  BY DEF Good
<1>1. /\ flush_seq_ \in Nat /\ flush_done_ \in Nat /\ flush_done_ <= flush_seq_ /\ pc \in [Threads -> Labels]
      /\ my_seq \in [Threads -> Nat] /\ sink_modify_mutex_ \in Threads \cup {NoThread}
      /\ NoThread \notin Threads /\ current_sinks_ \in Nat /\ config \in Nat /\ misses \in Nat
  BY <1>0, DispatcherAssumption, DoneIsAsked DEF Types
<1>2. CASE UNCHANGED vars
  BY <1>0, <1>2 DEF vars, threadVars, Sinks, Updating, Busy, Alive, Done
<1>3. ASSUME NEW t \in Threads, Thread(t) PROVE Sinks'
  <2>0. Alone(t) /\ UNCHANGED <<wpc, batch, config>>
    BY <1>0, <1>3, ThreadAlone DEF Alone
  <2>1. Busy' = Busy
    BY <2>0 DEF Busy
  (* A step that is no business of the sinks. *)
  <2>2. ASSUME UNCHANGED <<flush_done_, flush_seq_, sinkVars>>, misses' # 0 \/ misses' = misses,
               pc'[t] \in {"lock", "signal_marker", "wait", "parked"} =>
                   pc[t] \in {"lock", "signal_marker", "wait", "parked"} /\ my_seq'[t] = my_seq[t],
               pc'[t] = "delete" => /\ Updating(t)
                                    /\ misses' # 0 \/ (Done(t) /\ pc[t] \in {"wait", "parked"}),
               Updating(t) => pc'[t] \in {"flush", "ticket", "lock", "signal_marker", "wait", "parked", "delete"}
        PROVE  Sinks'
    <3>1. Alive' = Alive /\ \A u \in Threads : Updating(u)' = Updating(u)
      BY <2>2 DEF Alive, Updating
    <3>2. \A u \in Threads \ {t} : pc'[u] = pc[u] /\ my_seq'[u] = my_seq[u] /\ Done(u)' = Done(u)
      BY <2>0, <2>2 DEF Alone, Done
    <3>3. my_seq'[t] = my_seq[t] => Done(t)' = Done(t)
      BY <2>2 DEF Done
    <3>4. ASSUME NEW u \in Threads
          PROVE  /\ pc'[u] = "delete" => Updating(u)'
                 /\ Updating(u)' => pc'[u] \in {"flush", "ticket", "lock", "signal_marker", "wait", "parked", "delete"}
                 /\ pc'[u] \in {"lock", "signal_marker", "wait", "parked"} => my_seq'[u] <= flush_seq_'
      <4>1. CASE u = t
        BY <1>0, <2>2, <3>1, <4>1 DEF Sinks
      <4>2. CASE u # t
        BY <1>0, <2>2, <3>1, <3>2, <4>2 DEF Sinks
      <4> QED BY <4>1, <4>2
    <3>5. ASSUME misses' = 0, NEW u \in Threads, Updating(u)',
                 \/ pc'[u] = "delete"
                 \/ pc'[u] \in {"lock", "signal_marker", "wait", "parked"} /\ Done(u)'
          PROVE  Busy' => config' = current_sinks_'
      <4>1. misses = 0 /\ Updating(u)
        BY <2>2, <3>1, <3>5
      <4>2. \/ pc[u] = "delete"
            \/ pc[u] \in {"lock", "signal_marker", "wait", "parked"} /\ Done(u)
        <5>1. CASE u = t
          BY <2>2, <3>3, <3>5, <5>1
        <5>2. CASE u # t
          BY <3>2, <3>5, <5>2
        <5> QED BY <5>1, <5>2
      <4> QED BY <1>0, <2>0, <2>1, <2>2, <4>1, <4>2 DEF Sinks
    <3>6. misses' = 0 => (Busy' => config' \in Alive')
      BY <1>0, <2>0, <2>1, <2>2, <3>1 DEF Sinks
    <3>7. sink_modify_mutex_' # NoThread => current_sinks_' > 0
      BY <1>0, <2>2 DEF Sinks
    <3> QED BY <3>4, <3>5, <3>6, <3>7 DEF Sinks
  <2>3. /\ pc[t] \in {"idle", "writing", "swap", "enqueue", "signal", "close"} => ~Updating(t)
        /\ pc[t] = "delete" => Updating(t)
    BY <1>0 DEF Sinks
  <2>4. CASE LineStep(t)
    <3>1. /\ UNCHANGED <<flush_done_, flush_seq_, sinkVars>>
          /\ pc[t] \in {"idle", "writing", "swap", "enqueue", "signal", "close"}
      BY <2>4 DEF LineStep, OpenLine, WriteMore, Dispatch, SwapBuffer, EnqueueLine, SignalLine, CloseLine
    <3>2. pc'[t] \in {"idle", "writing", "swap", "enqueue", "signal", "close"}
      BY <1>1, <2>4 DEF LineStep, OpenLine, WriteMore, Dispatch, SwapBuffer, EnqueueLine, SignalLine, CloseLine
    <3>3. misses' # 0 \/ misses' = misses
      BY <1>0, <2>4, MoreFailed DEF LineStep, OpenLine, WriteMore, Dispatch, SwapBuffer, EnqueueLine, SignalLine,
                                    CloseLine
    <3> QED BY <2>2, <2>3, <3>1, <3>2, <3>3
  <2>5. CASE CallFlush(t)
    <3>1. /\ UNCHANGED <<flush_done_, flush_seq_, sinkVars, misses>> /\ pc[t] = "idle" /\ pc'[t] = "flush"
      BY <1>1, <2>5 DEF CallFlush
    <3> QED BY <2>2, <3>1
  <2>6. CASE AcquireMarker(t)
    <3>1. UNCHANGED <<flush_done_, flush_seq_, sinkVars>>
      BY <2>6 DEF AcquireMarker
    <3>2. \/ pc'[t] = "ticket" /\ misses' = misses
          \/ /\ misses' # 0
             /\ pc'[t] \in {"idle", "delete"} /\ (Updating(t) <=> pc'[t] = "delete")
      BY <1>0, <1>1, <2>6, MoreFailed DEF AcquireMarker, FlushReturnsTo, Updating
    <3>3. CASE pc'[t] = "ticket" /\ misses' = misses
      BY <2>2, <3>1, <3>3
    <3>4. CASE /\ misses' # 0
               /\ pc'[t] \in {"idle", "delete"} /\ (Updating(t) <=> pc'[t] = "delete")
      <4>1. pc'[t] \notin {"lock", "signal_marker", "wait", "parked"}
        BY <3>4
      <4>2. /\ pc'[t] = "delete" => Updating(t)
            /\ Updating(t) => pc'[t] = "delete"
        BY <3>4
      <4>3. misses' # 0 \/ misses' = misses
        BY <3>4
      <4>4. /\ pc'[t] \in {"lock", "signal_marker", "wait", "parked"} =>
                   pc[t] \in {"lock", "signal_marker", "wait", "parked"} /\ my_seq'[t] = my_seq[t]
            /\ pc'[t] = "delete" => /\ Updating(t)
                                    /\ misses' # 0 \/ (Done(t) /\ pc[t] \in {"wait", "parked"})
            /\ Updating(t) => pc'[t] \in {"flush", "ticket", "lock", "signal_marker", "wait", "parked", "delete"}
        <5>1. pc'[t] \in {"lock", "signal_marker", "wait", "parked"} =>
                   pc[t] \in {"lock", "signal_marker", "wait", "parked"} /\ my_seq'[t] = my_seq[t]
          BY <4>1
        <5>2. pc'[t] = "delete" => /\ Updating(t)
                                   /\ misses' # 0 \/ (Done(t) /\ pc[t] \in {"wait", "parked"})
          <6>1. misses' # 0
            BY <3>4
          <6> QED BY <4>2, <6>1, Zenon
        <5>3. Updating(t) => pc'[t] \in {"flush", "ticket", "lock", "signal_marker", "wait", "parked", "delete"}
          <6>1. pc'[t] = "delete" => pc'[t] \in {"flush", "ticket", "lock", "signal_marker", "wait", "parked", "delete"}
            OBVIOUS
          <6> QED BY <4>2, <6>1, Zenon
        <5> QED BY <5>1, <5>2, <5>3, Zenon
      <4> QED BY <2>2, <3>1, <4>3, <4>4
    <3> QED BY <3>2, <3>3, <3>4
  <2>7. CASE TakeTicket(t)
    <3>1. /\ flush_seq_' = flush_seq_ + 1 /\ UNCHANGED <<flush_done_, sinkVars, misses>>
          /\ pc'[t] = "lock" /\ my_seq'[t] = flush_seq_ + 1 /\ pc[t] = "ticket"
      BY <1>1, <2>7 DEF TakeTicket
    <3>2. ~Done(t)'
      BY <1>1, <3>1 DEF Done
    <3>3. Alive' = Alive /\ \A u \in Threads : Updating(u)' = Updating(u)
      BY <3>1 DEF Alive, Updating
    <3>4. \A u \in Threads \ {t} : pc'[u] = pc[u] /\ my_seq'[u] = my_seq[u] /\ Done(u)' = Done(u)
      BY <2>0, <3>1 DEF Alone, Done
    <3>5. ASSUME NEW u \in Threads
          PROVE  /\ pc'[u] = "delete" => Updating(u)'
                 /\ Updating(u)' => pc'[u] \in {"flush", "ticket", "lock", "signal_marker", "wait", "parked", "delete"}
                 /\ pc'[u] \in {"lock", "signal_marker", "wait", "parked"} => my_seq'[u] <= flush_seq_'
      <4>1. CASE u = t
        BY <1>1, <3>1, <4>1
      <4>2. CASE u # t
        BY <1>0, <1>1, <3>1, <3>3, <3>4, <4>2 DEF Sinks
      <4> QED BY <4>1, <4>2
    <3>6. ASSUME misses' = 0, NEW u \in Threads, Updating(u)',
                 \/ pc'[u] = "delete"
                 \/ pc'[u] \in {"lock", "signal_marker", "wait", "parked"} /\ Done(u)'
          PROVE  Busy' => config' = current_sinks_'
      <4>1. u # t
        BY <3>1, <3>2, <3>6
      <4> QED BY <1>0, <2>0, <2>1, <3>1, <3>3, <3>4, <3>6, <4>1 DEF Sinks
    <3>7. misses' = 0 => (Busy' => config' \in Alive')
      BY <1>0, <2>0, <2>1, <3>1, <3>3 DEF Sinks
    <3> QED BY <1>0, <3>1, <3>5, <3>6, <3>7 DEF Sinks
  <2>8. CASE EnqueueMarker(t) \/ SignalMarker(t)
    <3>1. /\ UNCHANGED <<flush_done_, flush_seq_, sinkVars, misses, my_seq>>
          /\ pc[t] \in {"lock", "signal_marker"} /\ pc'[t] \in {"signal_marker", "wait"}
      BY <1>1, <2>8 DEF EnqueueMarker, SignalMarker
    <3> QED BY <2>2, <3>1
  <2>9. CASE WaitDone(t) \/ Wake(t)
    <3>1. /\ UNCHANGED <<flush_done_, flush_seq_, sinkVars, misses>> /\ pc[t] \in {"wait", "parked"}
      BY <2>9 DEF WaitDone, Wake, TestDone
    <3>2. \/ pc'[t] = "parked" /\ my_seq' = my_seq
          \/ Done(t) /\ pc'[t] \in {"idle", "delete"} /\ (Updating(t) <=> pc'[t] = "delete")
      BY <1>1, <2>9 DEF WaitDone, Wake, TestDone, FlushReturnsTo, Updating
    <3> QED BY <2>2, <3>1, <3>2
  <2>10. CASE SpuriousWake(t)
    <3>1. UNCHANGED <<flush_done_, flush_seq_, sinkVars, misses, pc, my_seq>> /\ pc[t] = "parked"
      BY <2>10 DEF SpuriousWake, threadVars
    <3> QED BY <2>2, <3>1
  <2>11. CASE PublishConfig(t)
    <3>1. /\ pc'[t] = "flush" /\ sink_modify_mutex_ = NoThread /\ sink_modify_mutex_' = t
          /\ current_sinks_' = current_sinks_ + 1 /\ UNCHANGED <<misses, flush_seq_>>
      BY <1>1, <2>11 DEF PublishConfig
    <3>2. Alive' = {current_sinks_ + 1, current_sinks_} /\ Alive = {current_sinks_}
      BY <1>1, <3>1 DEF Alive
    <3>3. \A u \in Threads : Updating(u)' <=> u = t
      BY <3>1 DEF Updating
    <3>4. \A u \in Threads \ {t} : pc'[u] = pc[u] /\ my_seq'[u] = my_seq[u] /\ ~Updating(u)
      BY <1>1, <2>0, <3>1 DEF Alone, Updating
    <3>5. misses' = 0 => (Busy' => config' \in Alive')
      BY <1>0, <2>0, <2>1, <3>1, <3>2 DEF Sinks
    <3> QED BY <1>0, <1>1, <3>1, <3>3, <3>4, <3>5 DEF Sinks
  <2>12. CASE DeleteConfig(t)
    <3>1. /\ pc[t] = "delete" /\ pc'[t] = "idle" /\ sink_modify_mutex_' = NoThread
          /\ UNCHANGED <<current_sinks_, misses, flush_seq_>>
      BY <1>1, <2>12 DEF DeleteConfig
    <3>2. Alive' = {current_sinks_} /\ \A u \in Threads : ~Updating(u)'
      BY <1>1, <3>1 DEF Alive, Updating
    <3>3. \A u \in Threads \ {t} : pc'[u] = pc[u] /\ my_seq'[u] = my_seq[u] /\ ~Updating(u)
      BY <1>0, <2>0, <2>3, <3>1 DEF Alone, Updating
    <3>4. misses' = 0 => (Busy' => config' \in Alive')
      BY <1>0, <2>0, <2>1, <2>3, <3>1, <3>2 DEF Sinks
    <3> QED BY <1>0, <1>1, <3>1, <3>2, <3>3, <3>4 DEF Sinks
  <2> QED BY <1>3, <2>4, <2>5, <2>6, <2>7, <2>8, <2>9, <2>10, <2>11, <2>12 DEF Thread, FlushStep, UpdateStep
<1>4. CASE UpWorker
  <2>0. UNCHANGED <<pc, my_seq, sinkVars, flush_seq_>>
    <3>1. UNCHANGED flush_seq_
      BY <1>4 DEF UpWorker, CheckFailures, LoadForWarning, WriteWarning, ResetPendingFailures, Collect, LoadSinks,
                  ProcessRun, ProcessMarker, CountMarkers, NotifyAll
    <3> QED BY <1>4, <3>1, WorkerAlone DEF threadVars
  <2>1. Alive' = Alive /\ current_sinks_ \in Alive /\ \A u \in Threads : Updating(u)' = Updating(u)
    BY <2>0 DEF Alive, Updating
  <2>2. ASSUME misses' # 0 \/ ~Busy' \/ config' = current_sinks_
                 \/ (Busy /\ config' = config /\ misses' = misses /\ flush_done_' = flush_done_)
        PROVE  Sinks'
    <3>1. \A u \in Threads : flush_done_' = flush_done_ => Done(u)' = Done(u)
      BY <2>0 DEF Done
    <3>2. misses' = 0 => (Busy' => config' \in Alive')
      BY <1>0, <2>0, <2>1, <2>2 DEF Sinks
    <3>3. ASSUME misses' = 0, NEW u \in Threads, Updating(u)',
                 \/ pc'[u] = "delete"
                 \/ pc'[u] \in {"lock", "signal_marker", "wait", "parked"} /\ Done(u)'
          PROVE  Busy' => config' = current_sinks_'
      BY <1>0, <2>0, <2>1, <2>2, <3>1, <3>3 DEF Sinks
    <3> QED BY <1>0, <2>0, <2>1, <3>2, <3>3 DEF Sinks
  <2>3. CASE CheckFailures \/ ResetPendingFailures \/ WriteWarning \/ NotifyAll
    <3>1. ~Busy'
      BY <1>0, <2>3 DEF CheckFailures, ResetPendingFailures, WriteWarning, NotifyAll, NextRound, Busy, Calm
    <3> QED BY <2>2, <3>1
  <2>4. CASE LoadForWarning \/ LoadSinks
    BY <2>2, <2>4 DEF LoadForWarning, LoadSinks
  <2>5. CASE Collect
    <3>1. ~Busy'
      BY <1>0, <2>5 DEF Collect, Busy
    <3> QED BY <2>2, <3>1
  <2>6. CASE ProcessRun \/ ProcessMarker
    <3>1. wpc = "process" /\ batch # <<>> /\ UNCHANGED <<wpc, config, misses, flush_done_>>
      <4>1. CASE ProcessRun
        <5>1. batch \in Seq(Buffers) /\ Run(batch) # <<>>
          BY <1>0, <4>1 DEF Types, ProcessRun
        <5>2. batch # <<>>
          <6>1. Elements(Run(batch)) \subseteq Elements(batch) /\ Elements(Run(batch)) # {}
            BY <5>1, RunAndRest, ElementsIn
          <6> QED BY <5>1, <6>1, ElementsIn
        <5> QED BY <1>0, <4>1, <5>2 DEF ProcessRun, Calm, WorkerLabels
      <4>2. CASE ProcessMarker
        BY <4>2 DEF ProcessMarker
      <4> QED BY <2>6, <4>1, <4>2
    <3> QED BY <2>2, <3>1 DEF Busy
  <2>7. CASE CountMarkers
    <3>1. ~Busy'
      BY <1>0, <2>7 DEF CountMarkers, AfterCount, NextRound, Busy, Calm
    <3> QED BY <2>2, <3>1
  <2> QED BY <1>4, <2>3, <2>4, <2>5, <2>6, <2>7 DEF UpWorker
<1> QED BY <1>2, <1>3, <1>4 DEF UpStep

-----------------------------------------------------------------------------
(* Delivery.                                                                *)

Exact(text, acc, done, bt, fifo) ==
    \A t \in Threads : acc[t] = done[t] \o Numbers(text, t, bt) \o Numbers(text, t, fifo[Explicit(t)])

LEMMA DeliveredIsExact == /\ Delivered <=> Exact(content, accepted, handled, batch, q)
                          /\ Delivered' <=> Exact(content, accepted, handled, batch, q)'
  BY DEF Delivered, Exact, NumbersOf, Numbers, Counts, Grown, IsBy, IsMessage

(* Appending a buffer appends what it says.                                 *)
LEMMA NumbersOfLonger ==
    ASSUME NEW text \in Texts, NEW t, NEW s \in Seq(Buffers), NEW b \in Buffers
    PROVE  /\ Numbers(text, t, Append(s, b)) = Numbers(text, t, s) \o Numbers(text, t, <<b>>)
           /\ Numbers(text, t, s) \in Seq(Nat) /\ Numbers(text, t, <<b>>) \in Seq(Nat)
<1>1. <<b>> \in Seq(Buffers) /\ Append(s, b) = s \o <<b>>
  BY AppendIsConcat
<1> QED BY <1>1, NumbersJoined, NumbersType

LEMMA NumbersOfHead ==
    ASSUME NEW text \in Texts, NEW t, NEW s \in Seq(Buffers), s # <<>>
    PROVE  /\ Numbers(text, t, s) = Numbers(text, t, <<Head(s)>>) \o Numbers(text, t, Tail(s))
           /\ Numbers(text, t, Tail(s)) \in Seq(Nat) /\ Numbers(text, t, <<Head(s)>>) \in Seq(Nat)
<1>1. <<Head(s)>> \in Seq(Buffers) /\ Tail(s) \in Seq(Buffers) /\ s = <<Head(s)>> \o Tail(s)
  OBVIOUS
<1> DEFINE h == <<Head(s)>>
           r == Tail(s)
<1>2. h \in Seq(Buffers) /\ r \in Seq(Buffers) /\ s = h \o r
  BY <1>1
<1> HIDE DEF h, r
<1>3. Numbers(text, t, h \o r) = Numbers(text, t, h) \o Numbers(text, t, r)
  BY <1>2, NumbersJoined
<1>4. Numbers(text, t, h) \in Seq(Nat) /\ Numbers(text, t, r) \in Seq(Nat)
  BY <1>2, NumbersType
<1>5. Numbers(text, t, s) = Numbers(text, t, h) \o Numbers(text, t, r)
  BY <1>2, <1>3
<1> QED BY <1>4, <1>5 DEF h, r

(* A hidden name for the concatenation lets the provers regroup it.          *)
Followed(a, b) == a \o b

LEMMA Regrouped ==
    ASSUME NEW a \in Seq(Nat), NEW b \in Seq(Nat), NEW c \in Seq(Nat)
    PROVE  Followed(Followed(a, b), c) = Followed(a, Followed(b, c)) /\ Followed(a, b) \in Seq(Nat)
  BY ConcatAssociative DEF Followed

LEMMA RegroupedFour ==
    ASSUME NEW a \in Seq(Nat), NEW b \in Seq(Nat), NEW c \in Seq(Nat), NEW d \in Seq(Nat)
    PROVE  /\ Followed(Followed(Followed(a, b), c), d) = Followed(Followed(a, b), Followed(c, d))
           /\ Followed(Followed(a, Followed(b, c)), d) = Followed(Followed(Followed(a, b), c), d)
           /\ Followed(Followed(a, b), Followed(c, d)) = Followed(Followed(a, Followed(b, c)), d)
  BY Regrouped

(* What is not in the queue or the batch may change its text.               *)
LEMMA ExactKept ==
    ASSUME Types, Delivered, UNCHANGED <<accepted, handled, batch, q>>,
           \A b \in Elements(batch) : content'[b] = content[b],
           \A t \in Threads : \A b \in Elements(q[Explicit(t)]) : content'[b] = content[b]
    PROVE  Delivered'
<1> SUFFICES ASSUME NEW t \in Threads
             PROVE  /\ Numbers(content', t, batch) = Numbers(content, t, batch)
                    /\ Numbers(content', t, q[Explicit(t)]) = Numbers(content, t, q[Explicit(t)])
  BY DeliveredIsExact DEF Exact
<1>1. batch \in Seq(Buffers) /\ q[Explicit(t)] \in Seq(Buffers)
  BY Producer DEF Types
<1> QED BY <1>1, NumbersSame

LEMMA DeliveredStep == ASSUME Good, UpStep, UNCHANGED ctlVars PROVE Delivered'
<1> USE DEF elsewhere, outside, store, counters, poolVars, queueVars, flushVars, sinkVars, workerVars, history, Goto
<1>0. Types /\ Calm /\ Holding /\ Written /\ Owned /\ Delivered
  BY DEF Good
<1>1. PICK owner \in [Buffers -> Holders] : OwnedBy(owner)
  BY <1>0 DEF Owned
<1>2. /\ content \in Texts /\ q \in [Producers -> Seq(Buffers)] /\ batch \in Seq(Buffers)
      /\ accepted \in [Threads -> Seq(Nat)] /\ handled \in [Threads -> Seq(Nat)]
  BY <1>0 DEF Types
<1>3. \A t \in Threads : Explicit(t) \in Producers /\ Implicit(t) \in Producers /\ q[Explicit(t)] \in Seq(Buffers)
  BY <1>2, Producer
<1>4. \A t \in Threads : accepted[t] = handled[t] \o Numbers(content, t, batch)
                                         \o Numbers(content, t, q[Explicit(t)])
  BY <1>0, DeliveredIsExact DEF Exact
<1>5. ASSUME UNCHANGED <<accepted, handled, batch, q>>,
             \A b \in Buffers : \/ content'[b] = content[b]
                                \/ owner[b] \in {Pooled, Warning} \/ \E t : owner[b] = Line(t)
      PROVE  Delivered'
  <2>1. \A b \in Elements(batch) : content'[b] = content[b]
    BY <1>1, <1>2, <1>5, ElementsIn, HoldersDiffer DEF OwnedBy, BatchOwns
  <2>2. \A t \in Threads : \A b \in Elements(q[Explicit(t)]) : content'[b] = content[b]
    <3> SUFFICES ASSUME NEW t \in Threads, NEW b \in Elements(q[Explicit(t)]) PROVE content'[b] = content[b]
      OBVIOUS
    <3>1. b \in Buffers
      BY <1>3, ElementsIn
    <3>2. owner[b] = Queue(Explicit(t))
      BY <1>1, <1>3, <3>1 DEF OwnedBy, QueuesOwn
    <3> QED BY <1>5, <3>1, <3>2, HoldersDiffer
  <2> QED BY <1>0, <1>5, <2>1, <2>2, ExactKept
<1>6. CASE UNCHANGED vars
  BY <1>5, <1>6 DEF vars
<1>7. ASSUME NEW t \in Threads, Thread(t) PROVE Delivered'
  <2>0. Holds(t) /\ Alone(t) /\ WrittenBy(t) /\ UNCHANGED <<batch, handled>>
    BY <1>0, <1>7, ThreadAlone DEF Holding, Written, Alone
  <2>1. CASE OpenLine(t)
    <3>1. UNCHANGED <<accepted, q>>
      BY <2>1 DEF OpenLine
    <3>2. \A b \in Buffers : content'[b] = content[b] \/ owner[b] = Pooled
      <4>1. CASE UNCHANGED content
        BY <4>1
      <4>2. CASE \E b \in Buffers : Acquire(b) /\ content' = [content EXCEPT ![b] = <<t, logged[t] + 1>>]
        BY <1>0, <1>1, <1>2, <4>2, Acquired DEF OwnedBy, Texts
      <4> QED BY <2>1, <4>1, <4>2 DEF OpenLine
    <3> QED BY <1>5, <2>0, <3>1, <3>2
  <2>2. CASE WriteMore(t)
    <3>1. UNCHANGED <<accepted, q>>
      BY <2>2 DEF WriteMore
    <3>2. \A b \in Buffers : content'[b] = content[b] \/ owner[b] = Line(t)
      BY <1>0, <1>1, <2>2 DEF WriteMore, OwnedBy, LinesOwn, Types, Texts
    <3> QED BY <1>5, <2>0, <3>1, <3>2
  <2>3. CASE CloseLine(t)
    <3>1. PICK b \in Buffers : b = line[t]
      BY <1>0, <2>0, <2>3 DEF CloseLine, Holds, Types
    <3>2. PICK s \in Seq(Buffers) : s = <<b>> /\ Elements(s) = {b} /\ Distinct(s)
      BY FewElements
    <3>3. owner[b] = Line(t) /\ ref[b] = 1 /\ ReleaseAll(s)
      BY <1>1, <2>3, <3>1, <3>2, HoldersDiffer DEF OwnedBy, LinesOwn, PoolOwns, CloseLine
    <3>4. \A c \in Buffers : content'[c] = content[c] \/ owner[c] = Line(t)
      BY <1>0, <3>2, <3>3, Released
    <3>5. UNCHANGED <<accepted, q>>
      BY <2>3 DEF CloseLine
    <3> QED BY <1>5, <2>0, <3>4, <3>5
  <2>4. CASE EnqueueLine(t)
    <3>1. hand[t] \in Buffers
      BY <1>0, <2>0, <2>4 DEF EnqueueLine, Holds, Types
    <3>2. /\ q'[Explicit(t)] = Append(q[Explicit(t)], hand[t]) /\ UNCHANGED <<content>>
          /\ accepted'[t] = accepted[t] \o Numbers(content, t, <<hand[t]>>)
      BY <1>2, <1>3, <2>4, NumbersOfIsNumbers DEF EnqueueLine, Push
    <3> DEFINE a == handled[t]
               b == Numbers(content, t, batch)
               c == Numbers(content, t, q[Explicit(t)])
               d == Numbers(content, t, <<hand[t]>>)
    <3>3. /\ Numbers(content, t, q'[Explicit(t)]) = c \o d
          /\ a \in Seq(Nat) /\ b \in Seq(Nat) /\ c \in Seq(Nat) /\ d \in Seq(Nat)
      BY <1>2, <1>3, <3>1, <3>2, NumbersOfLonger, NumbersType
    <3>4. accepted'[t] = ((a \o b) \o c) \o d
      BY <1>4, <3>2
    <3>5. ((a \o b) \o c) \o d = (a \o b) \o (c \o d)
      <4> HIDE DEF a, b, c, d
      <4>1. Followed(Followed(Followed(a, b), c), d) = Followed(Followed(a, b), Followed(c, d))
        BY <3>3, RegroupedFour
      <4> QED BY <4>1 DEF Followed
    <3>6. accepted'[t] = handled'[t] \o Numbers(content', t, batch') \o Numbers(content', t, q'[Explicit(t)])
      BY <2>0, <3>2, <3>3, <3>4, <3>5
    <3>7. \A u \in Threads \ {t} :
            accepted'[u] = handled'[u] \o Numbers(content', u, batch') \o Numbers(content', u, q'[Explicit(u)])
      BY <1>4, <2>0, <3>2 DEF Alone
    <3> QED BY <3>6, <3>7, DeliveredIsExact DEF Exact
  <2>5. CASE EnqueueMarker(t)
    <3>1. UNCHANGED <<content, accepted>> /\ \A u \in Threads : q'[Explicit(u)] = q[Explicit(u)]
      BY <1>2, <1>3, <2>5, Producer DEF EnqueueMarker, Push
    <3> QED BY <1>4, <2>0, <3>1, DeliveredIsExact DEF Exact
  <2>6. CASE Dispatch(t) \/ SwapBuffer(t) \/ SignalLine(t)
    <3>1. UNCHANGED <<content, accepted, q>>
      BY <2>6 DEF Dispatch, SwapBuffer, SignalLine
    <3> QED BY <1>5, <2>0, <3>1
  <2>7. CASE CallFlush(t) \/ AcquireMarker(t) \/ TakeTicket(t) \/ SignalMarker(t)
    <3>1. UNCHANGED <<content, accepted, q>>
      BY <2>7 DEF CallFlush, AcquireMarker, TakeTicket, SignalMarker
    <3> QED BY <1>5, <2>0, <3>1
  <2>8. CASE WaitDone(t) \/ Wake(t) \/ SpuriousWake(t) \/ PublishConfig(t) \/ DeleteConfig(t)
    <3>1. UNCHANGED <<content, accepted, q>>
      BY <2>8 DEF WaitDone, Wake, TestDone, SpuriousWake, PublishConfig, DeleteConfig
    <3> QED BY <1>5, <2>0, <3>1
  <2> QED BY <1>7, <2>1, <2>2, <2>3, <2>4, <2>5, <2>6, <2>7, <2>8 DEF Thread, LineStep, FlushStep, UpdateStep
<1>8. CASE UpWorker
  <2>0. UNCHANGED accepted
    BY <1>8, WorkerAlone
  <2>1. CASE CheckFailures \/ LoadForWarning \/ ResetPendingFailures \/ LoadSinks \/ CountMarkers \/ NotifyAll
    <3>1. UNCHANGED <<content, handled, batch, q>>
      BY <2>1 DEF CheckFailures, LoadForWarning, ResetPendingFailures, LoadSinks, CountMarkers, NotifyAll
    <3> QED BY <1>5, <2>0, <3>1
  <2>2. CASE WriteWarning
    <3>1. PICK b \in Buffers : b = warning
      BY <1>0, <2>2 DEF WriteWarning, Holding, Types
    <3>2. PICK s \in Seq(Buffers) : s = <<b>> /\ Elements(s) = {b} /\ Distinct(s)
      BY FewElements
    <3>3. /\ owner[b] = Warning /\ ref[b] = 1 /\ ReleaseAll(s) /\ UNCHANGED <<q, batch, handled>>
      BY <1>1, <2>2, <3>1, <3>2, HoldersDiffer DEF WriteWarning, OwnedBy, WarningOwns, PoolOwns
    <3>4. \A c \in Buffers : content'[c] = content[c] \/ owner[c] = Warning
      BY <1>0, <3>2, <3>3, Released
    <3> QED BY <1>5, <2>0, <3>3, <3>4
  <2>3. CASE Collect
    <3>1. PICK k \in Producers : q[k] # <<>> /\ Take(k)
      BY <2>3 DEF Collect
    <3>2. /\ q'[k] = Tail(q[k]) /\ batch' = Append(batch, Head(q[k])) /\ \A l \in Producers \ {k} : q'[l] = q[l]
          /\ UNCHANGED <<content, handled>>
      BY <1>2, <2>3, <3>1 DEF Collect, Take
    <3>3. q[k] \in Seq(Buffers) /\ Head(q[k]) \in Buffers /\ Head(q[k]) \in Elements(q[k])
      BY <1>2, <3>1, Removed
    <3>4. ASSUME NEW t \in Threads
          PROVE  accepted'[t] = handled'[t] \o Numbers(content', t, batch') \o Numbers(content', t, q'[Explicit(t)])
      <4> DEFINE a == handled[t]
                 b == Numbers(content, t, batch)
                 c == Numbers(content, t, <<Head(q[k])>>)
      <4>1. Numbers(content, t, batch') = b \o c /\ a \in Seq(Nat) /\ b \in Seq(Nat) /\ c \in Seq(Nat)
        BY <1>2, <3>2, <3>3, NumbersOfLonger
      <4>2. CASE k = Explicit(t)
        <5> DEFINE d == Numbers(content, t, Tail(q[k]))
        <5>1. Numbers(content, t, q[Explicit(t)]) = c \o d /\ d \in Seq(Nat)
          BY <1>2, <3>1, <3>3, <4>2, NumbersOfHead
        <5>2. accepted[t] = (a \o b) \o (c \o d)
          BY <1>4, <5>1
        <5>3. (a \o b) \o (c \o d) = (a \o (b \o c)) \o d
          <6>1. d \in Seq(Nat)
            BY <5>1
          <6> HIDE DEF a, b, c, d
          <6>2. Followed(Followed(a, b), Followed(c, d)) = Followed(Followed(a, Followed(b, c)), d)
            BY <4>1, <6>1, RegroupedFour
          <6> QED BY <6>2 DEF Followed
        <5> QED BY <2>0, <3>2, <4>1, <4>2, <5>2, <5>3
      <4>3. CASE k # Explicit(t)
        <5>1. content[Head(q[k])] \notin {t} \X Nat
          <6>1. k # Implicit(Ctl)
            BY <1>0, <3>1 DEF Written
          <6>2. PICK u \in Threads : k = Explicit(u) \/ k = Implicit(u)
            BY <6>1, Producer
          <6>3. CASE k = Explicit(u)
            BY <1>0, <3>3, <4>3, <6>2, <6>3 DEF Written, WrittenBy, Message
          <6>4. CASE k = Implicit(u)
            BY <1>0, <3>3, <6>2, <6>4 DEF Written, WrittenBy, NoMsg
          <6> QED BY <6>2, <6>3, <6>4
        <5>2. c = <<>>
          BY <1>2, <3>3, <5>1, NumbersOne
        <5>3. b \o <<>> = b
          BY <4>1
        <5>4. q'[Explicit(t)] = q[Explicit(t)]
          BY <1>3, <3>2, <4>3
        <5> QED BY <1>4, <2>0, <3>2, <4>1, <5>2, <5>3, <5>4
      <4> QED BY <4>2, <4>3
    <3> QED BY <3>4, DeliveredIsExact DEF Exact
  <2>4. ASSUME NEW s \in Seq(Buffers), Distinct(s), ReleaseAll(s), Elements(s) \subseteq Elements(batch),
               Elements(batch') \cap Elements(s) = {}, batch' \in Seq(Buffers), Elements(batch') \subseteq Elements(batch),
               UNCHANGED q,
               NEW t \in Threads
        PROVE  /\ Numbers(content', t, batch') = Numbers(content, t, batch')
               /\ Numbers(content', t, q'[Explicit(t)]) = Numbers(content, t, q[Explicit(t)])
    <3>1. \A b \in Elements(s) : b \in Buffers /\ owner[b] = Batch /\ ref[b] = 1
      BY <1>1, <2>4, ElementsIn, HoldersDiffer DEF OwnedBy, PoolOwns, BatchOwns
    <3>2. \A b \in Buffers \ Elements(s) : content'[b] = content[b]
      BY <1>0, <2>4, <3>1, Released
    <3>3. \A b \in Elements(q[Explicit(t)]) : b \in Buffers /\ b \notin Elements(s)
      BY <1>1, <1>3, <3>1, ElementsIn, HoldersDiffer DEF OwnedBy, QueuesOwn
    <3>4. \A b \in Elements(batch') : b \in Buffers /\ b \notin Elements(s)
      BY <2>4, ElementsIn
    <3>5. /\ \A b \in Elements(batch') : content'[b] = content[b]
          /\ \A b \in Elements(q[Explicit(t)]) : content'[b] = content[b]
      BY <3>2, <3>3, <3>4
    <3> QED BY <1>3, <2>4, <3>5, NumbersSame
  <2>5. CASE ProcessRun
    <3>1. PICK s : s = Run(batch)
      OBVIOUS
    <3>2. PICK r : r = Rest(batch)
      OBVIOUS
    <3>3. Distinct(batch)
      BY <1>0 DEF Owned
    <3>4. /\ s \in Seq(Buffers) /\ r \in Seq(Buffers) /\ Distinct(s) /\ Elements(s) \subseteq Elements(batch)
          /\ Elements(r) = Elements(batch) \ Elements(s) /\ batch = s \o r
      BY <1>2, <3>1, <3>2, <3>3, RunAndRest
    <3>5. ReleaseAll(s) /\ batch' = r /\ UNCHANGED q /\ \A t \in Threads : handled'[t] = handled[t] \o NumbersOf(t, s)
      BY <2>5, <3>1, <3>2 DEF ProcessRun, Handle
    <3>6. ASSUME NEW t \in Threads
          PROVE  accepted'[t] = handled'[t] \o Numbers(content', t, batch') \o Numbers(content', t, q'[Explicit(t)])
      <4> DEFINE a == handled[t]
                 b == Numbers(content, t, s)
                 c == Numbers(content, t, r)
                 d == Numbers(content, t, q[Explicit(t)])
      <4>1. /\ Numbers(content', t, batch') = c
            /\ Numbers(content', t, q'[Explicit(t)]) = d
        <5>1. /\ Elements(batch') \cap Elements(s) = {} /\ batch' \in Seq(Buffers)
              /\ Elements(batch') \subseteq Elements(batch)
          BY <3>4, <3>5
        <5> QED BY <2>4, <3>4, <3>5, <5>1
      <4>2. Numbers(content, t, batch) = b \o c
        BY <1>2, <3>4, NumbersJoined
      <4>3. a \in Seq(Nat) /\ b \in Seq(Nat) /\ c \in Seq(Nat) /\ d \in Seq(Nat)
        BY <1>2, <1>3, <3>4, NumbersType
      <4>4. handled'[t] = a \o b
        BY <3>5, NumbersOfIsNumbers
      <4>5. accepted[t] = (a \o (b \o c)) \o d
        BY <1>4, <4>2
      <4>6. (a \o (b \o c)) \o d = ((a \o b) \o c) \o d
        <5> HIDE DEF a, b, c, d
        <5>1. Followed(Followed(a, Followed(b, c)), d) = Followed(Followed(Followed(a, b), c), d)
          BY <4>3, RegroupedFour
        <5> QED BY <5>1 DEF Followed
      <4> QED BY <2>0, <4>1, <4>4, <4>5, <4>6
    <3> QED BY <3>6, DeliveredIsExact DEF Exact
  <2>6. CASE ProcessMarker
    <3>1. PICK b : b = Head(batch)
      OBVIOUS
    <3>2. Distinct(batch) /\ batch # <<>> /\ content[b] = NoMsg
      BY <1>0, <2>6, <3>1 DEF Owned, ProcessMarker, IsMarker
    <3>3. /\ b \in Buffers /\ b \in Elements(batch) /\ Elements(Tail(batch)) = Elements(batch) \ {b}
          /\ Tail(batch) \in Seq(Buffers)
      BY <1>2, <3>1, <3>2, Removed
    <3>4. PICK s \in Seq(Buffers) : s = <<b>> /\ Elements(s) = {b} /\ Distinct(s)
      BY <3>3, FewElements
    <3>5. /\ ReleaseAll(s) /\ batch' = Tail(batch) /\ UNCHANGED <<q, handled>>
      BY <2>6, <3>1, <3>4 DEF ProcessMarker
    <3>6. ASSUME NEW t \in Threads
          PROVE  accepted'[t] = handled'[t] \o Numbers(content', t, batch') \o Numbers(content', t, q'[Explicit(t)])
      <4>1. /\ Numbers(content', t, batch') = Numbers(content, t, Tail(batch))
            /\ Numbers(content', t, q'[Explicit(t)]) = Numbers(content, t, q[Explicit(t)])
        <5>1. /\ Elements(batch') \cap Elements(s) = {} /\ batch' \in Seq(Buffers)
              /\ Elements(batch') \subseteq Elements(batch) /\ Elements(s) \subseteq Elements(batch)
          BY <3>3, <3>4, <3>5
        <5> QED BY <2>4, <3>4, <3>5, <5>1
      <4>2. Numbers(content, t, <<b>>) = <<>>
        <5>1. content[b] \notin {t} \X Nat
          BY <3>2 DEF NoMsg
        <5> QED BY <1>2, <3>3, <5>1, NumbersOne
      <4>3. Numbers(content, t, batch) = Numbers(content, t, Tail(batch))
        <5>1. /\ Numbers(content, t, batch) = <<>> \o Numbers(content, t, Tail(batch))
              /\ Numbers(content, t, Tail(batch)) \in Seq(Nat)
          BY <1>2, <3>1, <3>2, <4>2, NumbersOfHead
        <5> QED BY <5>1
      <4> QED BY <1>4, <2>0, <3>5, <4>1, <4>3
    <3> QED BY <3>6, DeliveredIsExact DEF Exact
  <2> QED BY <1>8, <2>1, <2>2, <2>3, <2>5, <2>6 DEF UpWorker
<1> QED BY <1>6, <1>7, <1>8 DEF UpStep

-----------------------------------------------------------------------------
(* The invariant holds until somebody begins to stop the worker.            *)

LEMMA NothingSaid == ASSUME NEW t, NEW s, s = <<>> PROVE NumbersOf(t, s) = <<>>
  BY NumbersOfIsNumbers, NumbersEmpty

LEMMA InitGood == ASSUME Init PROVE Good /\ Up
<1> USE DispatcherAssumption DEF Init, PoolInit
<1>0. Up
  BY DEF Up
<1>1. Types
  BY DEF Types, Texts, NoMsg, Labels
<1>2. Calm
  BY DEF Calm, WorkerLabels
<1>3. \A k \in Producers : q[k] = <<>> /\ Elements(q[k]) = {} /\ Distinct(q[k])
  BY DEF Elements, Distinct
<1>4. batch = <<>> /\ Elements(batch) = {} /\ Distinct(batch)
  BY DEF Elements, Distinct
<1>5. \A t \in Threads : Explicit(t) \in Producers /\ Implicit(t) \in Producers
  BY Producer
<1>6. Holding
  BY DEF Holding, Holds
<1>7. Written
  <2>1. \A t \in Threads : WrittenBy(t)
    BY <1>3, <1>5 DEF WrittenBy
  <2>2. q[Implicit(Ctl)] = <<>>
    BY <1>3, Producer
  <2> QED BY <2>1, <2>2 DEF Written, PoolEmpty
<1>8. Owned
  <2> DEFINE owner == [b \in Buffers |-> Pooled]
  <2>1. owner \in [Buffers -> Holders]
    BY AreHolders
  <2>2. PoolOwns(owner)
    BY DEF PoolOwns
  <2>3. LinesOwn(owner) /\ HandsOwn(owner)
    BY HoldersDiffer DEF LinesOwn, HandsOwn
  <2>4. QueuesOwn(owner) /\ BatchOwns(owner) /\ WarningOwns(owner)
    BY <1>3, <1>4, HoldersDiffer DEF QueuesOwn, BatchOwns, WarningOwns
  <2>5. OwnedBy(owner)
    BY <2>2, <2>3, <2>4 DEF OwnedBy
  <2> QED BY <1>3, <1>4, <2>1, <2>5 DEF Owned
<1>9. Tickets
  <2>1. Marking = {} /\ Locking = {}
    BY <1>3, <1>4 DEF Marking, Locking
  <2> QED BY <2>1, FS_EmptySet DEF Tickets
<1>10. Wakeups
  BY DEF Wakeups
<1>11. Sinks
  BY DEF Sinks, Updating, Busy
<1>12. Delivered
  <2>1. ASSUME NEW t \in Threads
        PROVE  accepted[t] = handled[t] \o NumbersOf(t, batch) \o NumbersOf(t, q[Explicit(t)])
    <3>1. NumbersOf(t, batch) = <<>>
      BY <1>4, NothingSaid
    <3>2. q[Explicit(t)] = <<>>
      BY <1>3, <1>5
    <3>3. NumbersOf(t, q[Explicit(t)]) = <<>>
      BY <3>2, NothingSaid
    <3>4. accepted[t] = <<>> /\ handled[t] = <<>> /\ <<>> = (<<>> \o <<>>) \o <<>>
      OBVIOUS
    <3> QED BY <3>1, <3>3, <3>4
  <2> QED BY <2>1 DEF Delivered
<1> QED BY <1>0, <1>1, <1>2, <1>6, <1>7, <1>8, <1>9, <1>10, <1>11, <1>12 DEF Good

LEMMA GoodStep == ASSUME Good, [Next]_vars, Up' PROVE Good'
<1>1. UpStep /\ UNCHANGED ctlVars
  BY UpSteps
<1> QED BY <1>1, TypesStep, CalmStep, HoldingStep, WrittenStep, OwnedStep, TicketsStep, WakeupsStep, SinksStep,
           DeliveredStep DEF Good

(* Nothing undoes a call of shutdown(): its count only grows.               *)
LEMMA StillDown ==
    ASSUME shutdowns \in Nat, [Next]_vars
    PROVE  /\ shutdowns' \in Nat
           /\ Up' => Up
           /\ Up /\ ~Up' => Shutdowns > 0
<1> USE DEF elsewhere, outside, ctlVars
<1> SUFFICES \/ shutdowns' = shutdowns
             \/ shutdowns' = shutdowns + 1 /\ shutdowns < Shutdowns
  BY DispatcherAssumption DEF Up
<1>1. CASE UNCHANGED vars
  BY <1>1 DEF vars
<1>2. ASSUME NEW t \in Threads, Thread(t) PROVE shutdowns' = shutdowns
  BY <1>2 DEF Thread, LineStep, FlushStep, UpdateStep, OpenLine, WriteMore, Dispatch, SwapBuffer, EnqueueLine, SignalLine,
              CloseLine, CallFlush, AcquireMarker, TakeTicket, EnqueueMarker, SignalMarker, WaitDone, Wake, TestDone,
              SpuriousWake, PublishConfig, DeleteConfig
<1>3. CASE Worker
  BY <1>3 DEF Worker, CheckFailures, LoadForWarning, WriteWarning, ResetPendingFailures, Collect, LoadSinks, ProcessRun,
              ProcessMarker, ProcessNull, ReleaseRest, DrainSkip, DrainAgain, CountMarkers, NotifyAll, FinalReport
<1>4. CASE Control
  BY <1>4 DEF Control, Shutdown, EnqueueNull, SignalNull, Join, Restart, StartWorker
<1> QED BY <1>1, <1>2, <1>3, <1>4 DEF Next

(* The inductive invariant of the asynchronous core holds in every          *)
(* reachable state before the first call of shutdown().                     *)
THEOREM Invariance == Spec => []Inv
<1>1. Init => Inv
  BY InitGood DEF Inv, Up
<1>2. Inv /\ [Next]_vars => Inv'
  BY GoodStep, StillDown DEF Inv
<1> QED BY <1>1, <1>2, PTL DEF Spec

-----------------------------------------------------------------------------
(***************************************************************************)
(* What the invariant means: the promises of the dispatcher, for any        *)
(* threads, buffers, batch size and number of calls.                        *)
(***************************************************************************)
(* What the invariant says in numbers.                                      *)

LEMMA SameNumber ==
    ASSUME NEW S, IsFiniteSet(S), NEW T, NEW f \in [T -> S],
           \A x, y \in T : f[x] = f[y] => x = y,
           \A z \in S : \E x \in T : f[x] = z
    PROVE  Cardinality(T) = Cardinality(S)
<1>1. f \in Bijection(T, S)
  BY Fun_IsBij
<1>2. ExistsBijection(T, S)
  BY <1>1, Fun_ExistsBij
<1>3. ExistsBijection(S, T)
  BY <1>2, Fun_ExistsBijSymmetric
<1> QED BY <1>3, FS_Bijection

LEMMA OneOrNone ==
    ASSUME NEW A, \A x, y \in A : x = y
    PROVE  Cardinality(A) = IF A = {} THEN 0 ELSE 1
<1>1. CASE A = {}
  BY <1>1, FS_EmptySet
<1>2. CASE A # {}
  <2>1. PICK x : x \in A
    BY <1>2
  <2>2. A = {x}
    BY <2>1
  <2> QED BY <1>2, <2>2, FS_Singleton
<1> QED BY <1>1, <1>2

LEMMA InPlaces ==
    ASSUME Types
    PROVE  \A p : p \in Places <=> \E k \in Producers : \E i \in 1 .. Len(q[k]) : p = <<k, i>>
<1>1. \A k \in Producers : DOMAIN q[k] = 1 .. Len(q[k])
  BY DEF Types
<1> QED BY <1>1 DEF Places

LEMMA PlacesDiffer ==
    ASSUME Types, Owned, NEW p \in Places, NEW r \in Places, At(p) = At(r)
    PROVE  At(p) \in Buffers /\ p = r
<1>a. PICK k \in Producers : \E i \in 1 .. Len(q[k]) : p = <<k, i>>
  BY InPlaces
<1>b. PICK l \in Producers : \E j \in 1 .. Len(q[l]) : r = <<l, j>>
  BY InPlaces
<1>1. PICK i \in 1 .. Len(q[k]) : p = <<k, i>>
  BY <1>a
<1>2. PICK j \in 1 .. Len(q[l]) : r = <<l, j>>
  BY <1>b
<1>3. q[k] \in Seq(Buffers) /\ q[l] \in Seq(Buffers)
  BY DEF Types
<1>4. PICK owner \in [Buffers -> Holders] : OwnedBy(owner)
  BY DEF Owned
<1>5. At(p) = q[k][i] /\ At(r) = q[l][j]
  BY <1>1, <1>2 DEF At
<1>6. q[k][i] \in Buffers /\ q[k][i] \in Elements(q[k]) /\ q[l][j] \in Elements(q[l])
  BY <1>3 DEF Elements
<1>7. owner[q[k][i]] = Queue(k) /\ owner[q[k][i]] = Queue(l)
  BY <1>4, <1>5, <1>6 DEF OwnedBy, QueuesOwn
<1>8. k = l
  BY <1>7, HoldersDiffer
<1>9. i = j
  BY <1>5, <1>8 DEF Owned, Distinct
<1> QED BY <1>1, <1>2, <1>5, <1>6, <1>8, <1>9

LEMMA OneOwner == ASSUME Good, NEW b \in Buffers PROVE Owners(b) = 1
<1>0. Types /\ Owned
  BY DEF Good
<1>1. PICK owner \in [Buffers -> Holders] : OwnedBy(owner)
  BY <1>0 DEF Owned
<1> DEFINE h == owner[b]
           lines == {t \in Threads : line[t] = b}
           hands == {t \in Threads : hand[t] = b}
           queued == {p \in Places : At(p) = b}
<1>2. avail[b] = IF h = Pooled THEN 1 ELSE 0
  BY <1>1 DEF OwnedBy, PoolOwns
<1>3. Cardinality(lines) = IF \E t \in Threads : h = Line(t) THEN 1 ELSE 0
  <2>1. \A t \in Threads : t \in lines <=> h = Line(t)
    BY <1>1 DEF OwnedBy, LinesOwn
  <2>2. \A t, u \in lines : t = u
    BY <2>1, HoldersDiffer
  <2>3. lines = {} <=> ~ \E t \in Threads : h = Line(t)
    BY <2>1
  <2> HIDE DEF lines
  <2> QED BY <2>2, <2>3, OneOrNone
<1>4. Cardinality(hands) = IF \E t \in Threads : h = Hand(t) THEN 1 ELSE 0
  <2>1. \A t \in Threads : t \in hands <=> h = Hand(t)
    BY <1>1 DEF OwnedBy, HandsOwn
  <2>2. \A t, u \in hands : t = u
    BY <2>1, HoldersDiffer
  <2>3. hands = {} <=> ~ \E t \in Threads : h = Hand(t)
    BY <2>1
  <2> HIDE DEF hands
  <2> QED BY <2>2, <2>3, OneOrNone
<1>5. Cardinality(queued) = IF \E k \in Producers : h = Queue(k) THEN 1 ELSE 0
  <2>1. \A p, r \in queued : p = r
    BY <1>0, PlacesDiffer
  <2>2. ASSUME NEW p \in queued PROVE \E k \in Producers : h = Queue(k)
    <3>a. PICK k \in Producers : \E i \in 1 .. Len(q[k]) : p = <<k, i>>
      BY <1>0, InPlaces
    <3>1. PICK i \in 1 .. Len(q[k]) : p = <<k, i>>
      BY <3>a
    <3>2. q[k][i] = b
      BY <3>1 DEF At
    <3>3. b \in Elements(q[k])
      BY <3>2 DEF Elements
    <3> QED BY <1>1, <3>3 DEF OwnedBy, QueuesOwn
  <2>3. ASSUME NEW k \in Producers, h = Queue(k) PROVE queued # {}
    <3>1. b \in Elements(q[k])
      BY <1>1, <2>3 DEF OwnedBy, QueuesOwn
    <3>2. PICK i \in 1 .. Len(q[k]) : q[k][i] = b
      BY <3>1 DEF Elements
    <3>3. <<k, i>> \in Places
      BY <1>0, InPlaces
    <3>4. <<k, i>> \in queued
      BY <3>2, <3>3 DEF At
    <3> QED BY <3>4
  <2>4. queued = {} <=> ~ \E k \in Producers : h = Queue(k)
    BY <2>2, <2>3
  <2> HIDE DEF queued
  <2> QED BY <2>1, <2>4, OneOrNone
<1>6. Occurrences(b, batch) = IF h = Batch THEN 1 ELSE 0
  <2>1. b \in Elements(batch) <=> h = Batch
    BY <1>1 DEF OwnedBy, BatchOwns
  <2>2. Distinct(batch) /\ batch \in Seq(Buffers)
    BY <1>0 DEF Owned, Types
  <2> QED BY <2>1, <2>2, CountedOnce DEF Occurrences
<1>7. warning = b <=> h = Warning
  BY <1>1 DEF OwnedBy, WarningOwns
<1>8. Owners(b) = avail[b] + Cardinality(lines) + Cardinality(hands) + Cardinality(queued)
                    + Occurrences(b, batch) + IF warning = b THEN 1 ELSE 0
  BY DEF Owners
<1>9. h \in Holders
  OBVIOUS
<1> HIDE DEF h, lines, hands, queued
<1>10. CASE h \in {Pooled, Batch, Warning}
  BY <1>2, <1>3, <1>4, <1>5, <1>6, <1>7, <1>8, <1>10, HoldersDiffer
<1>11. CASE \E t \in Threads : h = Line(t)
  BY <1>2, <1>3, <1>4, <1>5, <1>6, <1>7, <1>8, <1>11, HoldersDiffer
<1>12. CASE \E t \in Threads : h = Hand(t)
  BY <1>2, <1>3, <1>4, <1>5, <1>6, <1>7, <1>8, <1>12, HoldersDiffer
<1>13. CASE \E k \in Producers : h = Queue(k)
  BY <1>2, <1>3, <1>4, <1>5, <1>6, <1>7, <1>8, <1>13, HoldersDiffer
<1> QED BY <1>9, <1>10, <1>11, <1>12, <1>13 DEF Holders

LEMMA MarkersCounted ==
    ASSUME Good
    PROVE  /\ Markers(batch) \in Nat /\ Cardinality(MarkersQueued) \in Nat
           /\ Cardinality(Marking) = Markers(batch) + Cardinality(MarkersQueued)
<1>0. /\ Types /\ Owned /\ batch \in Seq(Buffers) /\ Distinct(batch)
      /\ \A k \in Producers : q[k] \in Seq(Buffers)
  BY DEF Good, Owned, Types
<1>1. PICK owner \in [Buffers -> Holders] : OwnedBy(owner)
  BY <1>0 DEF Owned
<1> DEFINE kept == {b \in Marking : owner[b] = Batch}
           sent == {b \in Marking : \E k \in Producers : owner[b] = Queue(k)}
           spots == {i \in DOMAIN batch : IsMarker(batch[i])}
<1>2. \A b \in Buffers : b \in Marking <=> /\ content[b] = NoMsg
                                          /\ \/ owner[b] = Batch
                                             \/ \E k \in Producers : owner[b] = Queue(k)
  BY <1>1 DEF OwnedBy, BatchOwns, QueuesOwn, Marking
<1>3. IsFiniteSet(kept) /\ IsFiniteSet(sent)
  BY FewMarkers, FS_Subset
<1>4. Marking = kept \cup sent /\ kept \cap sent = {}
  <2>1. Marking \subseteq Buffers
    BY DEF Marking
  <2>2. \A b \in Marking : owner[b] = Batch \/ \E k \in Producers : owner[b] = Queue(k)
    BY <1>2, <2>1
  <2> QED BY <2>2, HoldersDiffer
<1>5. Cardinality(Marking) = Cardinality(kept) + Cardinality(sent)
  <2> HIDE DEF kept, sent
  <2>1. Cardinality(kept \cup sent) = Cardinality(kept) + Cardinality(sent) - Cardinality({})
    BY <1>3, <1>4, FS_Union
  <2>2. Cardinality({}) = 0 /\ Cardinality(kept) \in Nat /\ Cardinality(sent) \in Nat
    BY <1>3, FS_EmptySet, FS_CardinalityType
  <2> QED BY <1>4, <2>1, <2>2
<1>6. Cardinality(spots) = Cardinality(kept)
  <2> DEFINE f == [i \in spots |-> batch[i]]
  <2>1. DOMAIN batch = 1 .. Len(batch) /\ \A i \in 1 .. Len(batch) : batch[i] \in Buffers /\ batch[i] \in Elements(batch)
    BY <1>0 DEF Elements
  <2>2. ASSUME NEW i \in spots PROVE f[i] \in kept
    <3>1. batch[i] \in Buffers /\ batch[i] \in Elements(batch) /\ content[batch[i]] = NoMsg
      BY <2>1 DEF IsMarker
    <3>2. owner[batch[i]] = Batch
      BY <1>1, <3>1 DEF OwnedBy, BatchOwns
    <3> QED BY <1>2, <3>1, <3>2
  <2>3. \A i, j \in spots : f[i] = f[j] => i = j
    BY <1>0, <2>1 DEF Distinct
  <2>4. ASSUME NEW b \in kept PROVE \E i \in spots : f[i] = b
    <3>1. b \in Buffers /\ content[b] = NoMsg /\ owner[b] = Batch
      BY DEF Marking
    <3>2. b \in Elements(batch)
      BY <1>1, <3>1 DEF OwnedBy, BatchOwns
    <3>3. PICK i \in 1 .. Len(batch) : batch[i] = b
      BY <3>2 DEF Elements
    <3>4. i \in spots
      BY <2>1, <3>1, <3>3, DispatcherAssumption DEF IsMarker
    <3> QED BY <3>3, <3>4
  <2>5. f \in [spots -> kept]
    BY <2>2
  <2> HIDE DEF f, spots, kept
  <2> QED BY <1>3, <2>3, <2>4, <2>5, SameNumber
<1>7. Cardinality(MarkersQueued) = Cardinality(sent)
  <2> DEFINE g == [p \in MarkersQueued |-> At(p)]
  <2>1. ASSUME NEW p \in MarkersQueued PROVE g[p] \in sent
    <3>1. p \in Places /\ IsMarker(At(p))
      BY DEF MarkersQueued
    <3>2. PICK k \in Producers : \E i \in 1 .. Len(q[k]) : p = <<k, i>>
      BY <1>0, <3>1, InPlaces
    <3>3. PICK i \in 1 .. Len(q[k]) : p = <<k, i>>
      BY <3>2
    <3>4. At(p) = q[k][i] /\ q[k][i] \in Buffers /\ q[k][i] \in Elements(q[k])
      BY <1>0, <3>3 DEF At, Elements
    <3>5. owner[At(p)] = Queue(k) /\ content[At(p)] = NoMsg
      BY <1>1, <3>1, <3>4 DEF OwnedBy, QueuesOwn, IsMarker
    <3> QED BY <1>2, <3>4, <3>5
  <2>2. \A p, r \in MarkersQueued : g[p] = g[r] => p = r
    BY <1>0, PlacesDiffer DEF MarkersQueued
  <2>3. ASSUME NEW b \in sent PROVE \E p \in MarkersQueued : g[p] = b
    <3>1. b \in Buffers /\ content[b] = NoMsg
      BY DEF Marking
    <3>2. PICK k \in Producers : owner[b] = Queue(k)
      OBVIOUS
    <3>3. b \in Elements(q[k])
      BY <1>1, <3>1, <3>2 DEF OwnedBy, QueuesOwn
    <3>4. PICK i \in 1 .. Len(q[k]) : q[k][i] = b
      BY <3>3 DEF Elements
    <3>5. <<k, i>> \in Places /\ At(<<k, i>>) = b
      BY <1>0, <3>4, InPlaces DEF At
    <3>6. <<k, i>> \in MarkersQueued
      BY <3>1, <3>5, DispatcherAssumption DEF MarkersQueued, IsMarker
    <3> QED BY <3>5, <3>6
  <2>4. g \in [MarkersQueued -> sent]
    BY <2>1
  <2> HIDE DEF g, sent
  <2> QED BY <1>3, <2>2, <2>3, <2>4, SameNumber
<1>8. Markers(batch) = Cardinality(spots)
  BY DEF Markers
<1>9. Cardinality(kept) \in Nat /\ Cardinality(sent) \in Nat
  BY <1>3, FS_CardinalityType
<1> HIDE DEF kept, sent, spots
<1> QED BY <1>5, <1>6, <1>7, <1>8, <1>9

LEMMA GoodTypes == ASSUME Good PROVE DispatcherTypeOK
<1>1. Types /\ Calm /\ Owned
  BY DEF Good
<1>2. \A s \in Seq(Buffers) : s \in Seq(Buffers \cup {Null})
  OBVIOUS
<1>3. batch \in Seq(Buffers \cup {Null}) /\ q \in [Producers -> Seq(Buffers \cup {Null})]
  BY <1>1, <1>2 DEF Types
<1>4. ref \in [Buffers -> Int] /\ avail \in [Buffers -> Nat]
  BY <1>1 DEF Owned
<1>5. /\ pending \in Nat /\ sema \in Nat
      /\ line \in [Threads -> Buffers \cup {NoBuf}] /\ hand \in [Threads -> Buffers \cup {NoBuf}]
      /\ Len(batch) <= MaxBatch
      /\ flush_mutex_ \in Threads \cup {NoThread} /\ sink_modify_mutex_ \in Threads \cup {NoThread}
      /\ parked \subseteq Threads
      /\ flush_seq_ \in Nat /\ flush_done_ \in Nat /\ flush_requested \in Nat
      /\ current_sinks_ \in Nat /\ config \in Nat
  BY <1>1 DEF Types
<1>6. shutdown_ \in BOOLEAN /\ should_shutdown \in BOOLEAN
  BY <1>1 DEF Calm
<1> QED BY <1>3, <1>4, <1>5, <1>6, Zenon DEF DispatcherTypeOK

-----------------------------------------------------------------------------
(* The promises of the asynchronous core.                                   *)

(* Until somebody calls shutdown(), every buffer has exactly one owner, the *)
(* pool, a line, a thread about to enqueue, the queue, the worker's batch   *)
(* or the failure report, with the reference count that says so; a buffer   *)
(* in the pool is empty: through acquire, swap_buffer, enqueue, batches and *)
(* release() nothing is leaked or released twice.                           *)
THEOREM BuffersAlwaysConserved == Spec => [](Up => BuffersConserved)
<1>1. ASSUME Inv, Up PROVE BuffersConserved
  <2>1. Good
    BY <1>1 DEF Inv
  <2>2. DispatcherTypeOK
    BY <2>1, GoodTypes
  <2>3. PICK owner \in [Buffers -> Holders] : OwnedBy(owner)
    BY <2>1 DEF Good, Owned
  <2>4. ASSUME NEW b \in Buffers PROVE ref[b] = 1 - avail[b]
    <3>1. \/ avail[b] = 1 /\ ref[b] = 0
          \/ avail[b] = 0 /\ ref[b] = 1
      BY <2>3 DEF OwnedBy, PoolOwns
    <3> QED BY <3>1
  <2>5. \A b \in Buffers : avail[b] = 1 => content[b] = NoMsg
    BY <2>1 DEF Good, Written, PoolEmpty
  <2>6. \A b \in Buffers : Owners(b) = 1
    BY <2>1, OneOwner
  <2> QED BY <2>2, <2>4, <2>5, <2>6 DEF BuffersConserved
<1>2. Inv => (Up => BuffersConserved)
  BY <1>1
<1> QED BY <1>2, Invariance, PTL

(* Until somebody calls shutdown(), what a thread has enqueued is what the  *)
(* sinks were given, then the worker's batch, then the thread's FIFO: the   *)
(* batches of process_dequeued_buffers lose, double and reorder nothing.    *)
THEOREM DeliveryAlwaysExact == Spec => [](Up => DeliveryExact)
<1>1. Inv => (Up => DeliveryExact)
  BY DEF Inv, Good, Delivered, DeliveryExact
<1> QED BY <1>1, Invariance, PTL

(* Until somebody calls shutdown(), every ticket of flush() is counted done *)
(* or has its marker on the way, and no flush() sleeps whose ticket is done *)
(* unless the worker is about to notify: no wakeup of flush_cv_ is lost.    *)
THEOREM TicketsAlwaysAccounted == Spec => [](Up => TicketsAccounted)
<1>1. ASSUME Inv, Up PROVE TicketsAccounted
  <2>1. Good
    BY <1>1 DEF Inv
  <2>2. /\ Markers(batch) \in Nat /\ Cardinality(MarkersQueued) \in Nat
        /\ Cardinality(Marking) = Markers(batch) + Cardinality(MarkersQueued)
    BY <2>1, MarkersCounted
  <2>3. flush_seq_ = flush_done_ + flush_requested + Cardinality(Marking) + Cardinality(Locking)
    BY <2>1 DEF Good, Tickets
  <2>4. \A t \in parked : Done(t) => wpc = "notify"
    BY <2>1 DEF Good, Wakeups
  <2>5. /\ Cardinality(Marking) \in Nat /\ Cardinality(Locking) \in Nat
        /\ flush_done_ \in Nat /\ flush_requested \in Nat
    BY <2>1, FewMarkers DEF Good, Types
  <2>8. flush_seq_ = flush_done_ + flush_requested + Markers(batch) + Cardinality(MarkersQueued) + Cardinality(Locking)
    BY <2>1, <2>2, <2>3, <2>5
  <2> QED BY <2>4, <2>8 DEF TicketsAccounted, Locking
<1>2. Inv => (Up => TicketsAccounted)
  BY <1>1
<1> QED BY <1>2, Invariance, PTL

(* Until somebody calls shutdown(), add_sink, set_sink and remove_sink      *)
(* never delete a configuration that the worker is about to use, as long as *)
(* flush() has found a buffer for its marker.                               *)
THEOREM SinksStayAlive == Spec => [](Up => SinksAlive)
<1>1. ASSUME Inv, Up, misses = 0, UsingSinks PROVE config \in Alive
  <2>1. Good
    BY <1>1 DEF Inv
  <2>2. Busy
    BY <1>1, <2>1 DEF UsingSinks, Busy, Good, Calm, WorkerLabels
  <2> QED BY <1>1, <2>1, <2>2 DEF Good, Sinks
<1>2. Inv => (Up => SinksAlive)
  BY <1>1 DEF SinksAlive, SinksAlwaysAlive
<1> QED BY <1>2, Invariance, PTL

-----------------------------------------------------------------------------
(* The running dispatcher implements LogDelivery.                           *)

LEMMA FrontOfAppend == ASSUME NEW s \in Seq(Nat), NEW n \in Nat PROVE SubSeq(Append(s, n), 1, Len(s)) = s
<1> DEFINE r == Append(s, n)
           u == SubSeq(r, 1, Len(s))
<1>1. r \in Seq(Nat) /\ Len(s) \in Nat /\ Len(r) = Len(s) + 1 /\ \A i \in 1 .. Len(s) : r[i] = s[i]
  BY AppendProperties
<1> HIDE DEF r
<1>2. u \in Seq(Nat) /\ Len(u) = Len(s) /\ \A i \in 1 .. Len(s) : u[i] = s[i]
  BY <1>1, SubSeqProperties
<1> HIDE DEF u
<1>3. u = s
  BY <1>2, SeqEqual
<1> QED BY <1>3 DEF u, r

LEMMA StartOfJoined == ASSUME NEW x \in Seq(Nat), NEW y \in Seq(Nat) PROVE SubSeq(x \o y, 1, Len(x)) = x
<1> DEFINE r == x \o y
           u == SubSeq(r, 1, Len(x))
<1>1. /\ r \in Seq(Nat) /\ Len(x) \in Nat /\ Len(y) \in Nat /\ Len(r) = Len(x) + Len(y)
      /\ \A i \in 1 .. Len(x) : r[i] = x[i]
  BY ConcatProperties
<1> HIDE DEF r
<1>2. u \in Seq(Nat) /\ Len(u) = Len(x) /\ \A i \in 1 .. Len(x) : u[i] = x[i]
  BY <1>1, SubSeqProperties
<1> HIDE DEF u
<1>3. u = x
  BY <1>2, SeqEqual
<1> QED BY <1>3 DEF u, r

LEMMA AcceptedAsDelivery ==
    ASSUME Good, NEW t \in Threads, EnqueueLine(t)
    PROVE  accepted'[t] # <<>> /\ Delivery!Accept(t)
<1>0. Types /\ Holds(t) /\ WrittenBy(t)
  BY DEF Good, Holding, Written
<1>1. hand[t] \in Buffers /\ content[hand[t]] \in {t} \X Nat
  BY <1>0 DEF EnqueueLine, Holds, WrittenBy, Types, Message
<1>2. PICK n \in Nat : n = content[hand[t]][2]
  BY <1>1
<1>3. NumbersOf(t, <<hand[t]>>) = <<n>>
  BY <1>0, <1>1, <1>2, NumbersOne, NumbersOfIsNumbers DEF Types
<1>4. PICK s \in Seq(Nat) : s = accepted[t]
  BY <1>0 DEF Types
<1>5. accepted'[t] = s \o <<n>> /\ accepted' = [accepted EXCEPT ![t] = accepted'[t]] /\ handled' = handled
  BY <1>0, <1>3, <1>4 DEF EnqueueLine, Types
<1>6. s \o <<n>> = Append(s, n) /\ Append(s, n) \in Seq(Nat) /\ Len(Append(s, n)) = Len(s) + 1
  BY <1>4
<1>7. SubSeq(Append(s, n), 1, Len(s)) = s
  BY <1>4, FrontOfAppend
<1>8. Delivery!Front(accepted'[t]) = s
  BY <1>5, <1>6, <1>7 DEF Delivery!Front
<1> QED BY <1>4, <1>5, <1>6, <1>8 DEF Delivery!Accept

LEMMA HandledAsDelivery ==
    ASSUME Good, ProcessRun
    PROVE  Delivery!Advance
<1>0. Types /\ Delivered
  BY DEF Good
<1>1. PICK s : s = Run(batch)
  OBVIOUS
<1>2. PICK r : r = Rest(batch)
  OBVIOUS
<1>3. s \in Seq(Buffers) /\ r \in Seq(Buffers) /\ batch = s \o r
  BY <1>0, <1>1, <1>2, RunAndRest DEF Types
<1>4. accepted' = accepted /\ handled' = [t \in Threads |-> handled[t] \o NumbersOf(t, s)]
  BY <1>1 DEF ProcessRun, Handle
<1>5. ASSUME NEW t \in Threads PROVE handled'[t] \in Delivery!Longer(t)
  <2> DEFINE a == handled[t]
             b == Numbers(content, t, s)
             c == Numbers(content, t, r)
             d == Numbers(content, t, q[Explicit(t)])
  <2>1. q[Explicit(t)] \in Seq(Buffers)
    BY <1>0, Producer DEF Types
  <2>2. a \in Seq(Nat) /\ b \in Seq(Nat) /\ c \in Seq(Nat) /\ d \in Seq(Nat)
    BY <1>0, <1>3, <2>1, NumbersType DEF Types
  <2>3. handled'[t] = a \o b
    BY <1>4, NumbersOfIsNumbers
  <2>4. Numbers(content, t, batch) = b \o c
    BY <1>0, <1>3, NumbersJoined DEF Types
  <2>5. accepted[t] = (a \o (b \o c)) \o d
    BY <1>0, <2>4, DeliveredIsExact DEF Exact
  <2>6. (a \o (b \o c)) \o d = (a \o b) \o (c \o d)
    <3> HIDE DEF a, b, c, d
    <3>1. Followed(Followed(a, Followed(b, c)), d) = Followed(Followed(a, b), Followed(c, d))
      BY <2>2, RegroupedFour
    <3> QED BY <3>1 DEF Followed
  <2>7. PICK x \in Seq(Nat), y \in Seq(Nat) : x = a \o b /\ y = c \o d /\ accepted[t] = x \o y
    <3> HIDE DEF a, b, c, d
    <3>1. a \o b \in Seq(Nat) /\ c \o d \in Seq(Nat)
      BY <2>2
    <3> QED BY <2>5, <2>6, <3>1
  <2>8. /\ Len(handled[t]) <= Len(x) /\ Len(x) <= Len(x \o y)
        /\ Len(x) \in Nat /\ Len(handled[t]) \in Nat /\ Len(x \o y) \in Nat
    <3> HIDE DEF b, c, d
    <3>1. Len(x) = Len(a) + Len(b) /\ Len(a) \in Nat /\ Len(b) \in Nat
      BY <2>2, <2>7
    <3>2. Len(x \o y) = Len(x) + Len(y) /\ Len(y) \in Nat
      BY <2>7
    <3> QED BY <3>1, <3>2
  <2>9. SubSeq(x \o y, 1, Len(x)) = x
    BY <2>7, StartOfJoined
  <2>10. Len(x) \in Len(handled[t]) .. Len(accepted[t])
    <3> HIDE DEF a, b, c, d
    <3>1. Len(accepted[t]) = Len(x \o y)
      BY <2>7
    <3> QED BY <2>8, <3>1
  <2> QED BY <2>3, <2>7, <2>9, <2>10 DEF Delivery!Longer
<1>6. handled' \in [Threads -> UNION {Delivery!Longer(t) : t \in Threads}]
  BY <1>4, <1>5
<1> QED BY <1>4, <1>5, <1>6 DEF Delivery!Advance

LEMMA DeliveryStep == ASSUME Good, UpStep, UNCHANGED ctlVars PROVE [Delivery!Next]_(Delivery!vars)
<1> USE DEF elsewhere, outside, history
<1>1. CASE UNCHANGED <<accepted, handled>>
  BY <1>1 DEF Delivery!vars
<1>2. ASSUME NEW t \in Threads, Thread(t) PROVE UNCHANGED <<accepted, handled>> \/ EnqueueLine(t)
  BY <1>2 DEF Thread, LineStep, FlushStep, UpdateStep, OpenLine, WriteMore, Dispatch, SwapBuffer, SignalLine, CloseLine,
              CallFlush, AcquireMarker, TakeTicket, EnqueueMarker, SignalMarker, WaitDone, Wake, TestDone, SpuriousWake,
              PublishConfig, DeleteConfig
<1>3. ASSUME NEW t \in Threads, EnqueueLine(t) PROVE Delivery!Next
  BY <1>3, AcceptedAsDelivery DEF Delivery!Next
<1>4. CASE ProcessRun
  BY <1>4, HandledAsDelivery DEF Delivery!Next
<1>5. CASE UpWorker
  BY <1>1, <1>4, <1>5 DEF UpWorker, CheckFailures, LoadForWarning, WriteWarning, ResetPendingFailures, Collect, LoadSinks,
                          ProcessMarker, CountMarkers, NotifyAll
<1> QED BY <1>1, <1>2, <1>3, <1>5 DEF UpStep, vars

(* A dispatcher that is never shut down implements the safety part of       *)
(* LogDelivery: per thread, enqueue_buffer appends one message and          *)
(* process_dequeued_buffers hands the sinks the next ones, in order.        *)
THEOREM RunningDelivers == ASSUME Shutdowns = 0 PROVE Spec => Delivery!SafeSpec
<1>1. Init => Delivery!Init
  BY DEF Init, Delivery!Init
<1>2. Inv /\ Up /\ [Next]_vars => Up' /\ [Delivery!Next]_(Delivery!vars)
  <2> SUFFICES ASSUME Inv, Up, [Next]_vars PROVE Up' /\ [Delivery!Next]_(Delivery!vars)
    OBVIOUS
  <2>1. Up' /\ Good
    BY StillDown DEF Inv
  <2> QED BY <2>1, UpSteps, DeliveryStep
<1>3. Init => Up
  BY DEF Init, Up
<1> QED BY <1>1, <1>2, <1>3, Invariance, PTL DEF Spec, Delivery!SafeSpec

-----------------------------------------------------------------------------
(* A thread's messages stay in the order in which it logged them.           *)

Rising(s) == \A i, j \in 1 .. Len(s) : i < j => s[i] < s[j]
Below(s, n) == \A i \in 1 .. Len(s) : s[i] < n

(* The line has the newest message, or what is being enqueued has it and    *)
(* the line is still empty.                                                 *)
OrderedBy(t) ==
    /\ Rising(accepted[t]) /\ Below(accepted[t], logged[t] + 1)
    /\ line[t] # NoBuf /\ content[line[t]] # NoMsg =>
         content[line[t]] = <<t, logged[t]>> /\ Below(accepted[t], logged[t])
    /\ pc[t] = "enqueue" =>
         /\ content[hand[t]] = <<t, logged[t]>> /\ Below(accepted[t], logged[t])
         /\ line[t] # NoBuf => content[line[t]] = NoMsg
Ordered == \A t \in Threads : OrderedBy(t)
OrderInv == Up => Ordered

(* A thread writes to its line or to a buffer of the pool, the worker to    *)
(* what it has taken.                                                       *)
LEMMA ThreadWrites ==
    ASSUME Good, NEW t \in Threads, Thread(t), NEW owner \in [Buffers -> Holders], OwnedBy(owner)
    PROVE  \A b \in Buffers : content'[b] = content[b] \/ owner[b] \in {Pooled, Line(t)}
<1> USE DEF elsewhere, outside, store, poolVars
<1>0. Types /\ Owned /\ Holds(t)
  BY DEF Good, Holding
<1>1. CASE OpenLine(t)
  <2>1. CASE UNCHANGED content
    BY <2>1
  <2>2. CASE \E b \in Buffers : Acquire(b) /\ content' = [content EXCEPT ![b] = <<t, logged[t] + 1>>]
    BY <1>0, <2>2, Acquired DEF OwnedBy, Types, Texts
  <2> QED BY <1>1, <2>1, <2>2 DEF OpenLine
<1>2. CASE WriteMore(t)
  BY <1>0, <1>2 DEF WriteMore, OwnedBy, LinesOwn, Types, Texts
<1>3. CASE CloseLine(t)
  <2>1. PICK b \in Buffers : b = line[t]
    BY <1>0, <1>3 DEF CloseLine, Holds, Types
  <2>2. PICK s \in Seq(Buffers) : s = <<b>> /\ Elements(s) = {b} /\ Distinct(s)
    BY FewElements
  <2>3. owner[b] = Line(t) /\ ref[b] = 1 /\ ReleaseAll(s)
    BY <1>3, <2>1, <2>2, HoldersDiffer DEF OwnedBy, LinesOwn, PoolOwns, CloseLine
  <2>4. \A c \in Buffers : content'[c] = content[c] \/ owner[c] = Line(t)
    BY <1>0, <2>2, <2>3, Released
  <2> QED BY <2>4
<1>4. ASSUME ~OpenLine(t), ~WriteMore(t), ~CloseLine(t) PROVE UNCHANGED content
  BY <1>4 DEF Thread, LineStep, FlushStep, UpdateStep, Dispatch, SwapBuffer, EnqueueLine, SignalLine, CallFlush,
              AcquireMarker, TakeTicket, EnqueueMarker, SignalMarker, WaitDone, Wake, TestDone, SpuriousWake,
              PublishConfig, DeleteConfig
<1> QED BY <1>1, <1>2, <1>3, <1>4

LEMMA WorkerWrites ==
    ASSUME Good, UpWorker, NEW owner \in [Buffers -> Holders], OwnedBy(owner)
    PROVE  \A b \in Buffers : content'[b] = content[b] \/ owner[b] \in {Batch, Warning}
<1> USE DEF elsewhere, outside, store, poolVars
<1>0. Types /\ Owned /\ Holding /\ Distinct(batch) /\ batch \in Seq(Buffers)
  BY DEF Good, Owned, Types
<1>1. CASE WriteWarning
  <2>1. PICK b \in Buffers : b = warning
    BY <1>0, <1>1 DEF WriteWarning, Holding, Types
  <2>2. PICK s \in Seq(Buffers) : s = <<b>> /\ Elements(s) = {b} /\ Distinct(s)
    BY FewElements
  <2>3. owner[b] = Warning /\ ref[b] = 1 /\ ReleaseAll(s)
    BY <1>1, <2>1, <2>2, HoldersDiffer DEF WriteWarning, OwnedBy, WarningOwns, PoolOwns
  <2>4. \A c \in Buffers : content'[c] = content[c] \/ owner[c] = Warning
    BY <1>0, <2>2, <2>3, Released
  <2> QED BY <2>4
<1>2. ASSUME NEW s \in Seq(Buffers), Distinct(s), ReleaseAll(s), Elements(s) \subseteq Elements(batch)
      PROVE  \A b \in Buffers : content'[b] = content[b] \/ owner[b] = Batch
  <2>1. \A b \in Elements(s) : b \in Buffers /\ owner[b] = Batch /\ ref[b] = 1
    BY <1>2, ElementsIn, HoldersDiffer DEF OwnedBy, PoolOwns, BatchOwns
  <2> QED BY <1>0, <1>2, <2>1, Released
<1>3. CASE ProcessRun
  <2>1. PICK s : s = Run(batch)
    OBVIOUS
  <2>2. s \in Seq(Buffers) /\ Distinct(s) /\ Elements(s) \subseteq Elements(batch)
    BY <1>0, <2>1, RunAndRest
  <2>3. ReleaseAll(s)
    BY <1>3, <2>1 DEF ProcessRun
  <2> QED BY <1>2, <2>2, <2>3
<1>4. CASE ProcessMarker
  <2>1. batch # <<>>
    BY <1>4 DEF ProcessMarker
  <2>2. PICK b \in Buffers : b = Head(batch) /\ b \in Elements(batch)
    BY <1>0, <2>1, Removed
  <2>3. PICK s \in Seq(Buffers) : s = <<b>> /\ Elements(s) = {b} /\ Distinct(s)
    BY FewElements
  <2>4. ReleaseAll(s)
    BY <1>4, <2>2, <2>3 DEF ProcessMarker
  <2> QED BY <1>2, <2>2, <2>3, <2>4
<1>5. ASSUME ~WriteWarning, ~ProcessRun, ~ProcessMarker PROVE UNCHANGED content
  BY <1>5 DEF UpWorker, CheckFailures, LoadForWarning, ResetPendingFailures, Collect, LoadSinks, CountMarkers, NotifyAll
<1> QED BY <1>1, <1>3, <1>4, <1>5

LEMMA RisingAppended ==
    ASSUME NEW s \in Seq(Nat), NEW n \in Nat, Rising(s), Below(s, n)
    PROVE  Rising(s \o <<n>>) /\ Below(s \o <<n>>, n + 1)
<1> DEFINE r == s \o <<n>>
<1>1. /\ Len(s) \in Nat /\ Len(r) = Len(s) + 1 /\ r[Len(s) + 1] = n
      /\ \A i \in 1 .. Len(s) : r[i] = s[i] /\ s[i] \in Nat
  OBVIOUS
<1> HIDE DEF r
<1>2. \A i \in 1 .. Len(r) : r[i] \in Nat /\ r[i] < n + 1 /\ (i = Len(r) \/ r[i] < n)
  BY <1>1 DEF Below
<1>3. ASSUME NEW i \in 1 .. Len(r), NEW j \in 1 .. Len(r), i < j PROVE r[i] < r[j]
  <2>1. CASE j = Len(s) + 1
    BY <1>1, <1>2, <1>3, <2>1
  <2>2. CASE j # Len(s) + 1
    <3>1. i \in 1 .. Len(s) /\ j \in 1 .. Len(s)
      BY <1>1, <1>3, <2>2
    <3>2. s[i] < s[j]
      BY <1>3, <3>1 DEF Rising
    <3> QED BY <1>1, <3>1, <3>2
  <2> QED BY <2>1, <2>2
<1>4. Rising(r) /\ Below(r, n + 1)
  BY <1>2, <1>3 DEF Rising, Below
<1> QED BY <1>4 DEF r

LEMMA OrderKept ==
    ASSUME Types, NEW t \in Threads, OrderedBy(t), Holds(t),
           pc'[t] = pc[t], line'[t] = line[t], hand'[t] = hand[t], logged'[t] = logged[t], accepted'[t] = accepted[t],
           line[t] \in Buffers => content'[line[t]] = content[line[t]],
           hand[t] \in Buffers => content'[hand[t]] = content[hand[t]]
    PROVE  OrderedBy(t)'
<1>1. line[t] # NoBuf => line[t] \in Buffers
  BY DEF Types
<1>2. pc[t] = "enqueue" => hand[t] \in Buffers
  BY DEF Types, Holds
<1> QED BY <1>1, <1>2 DEF OrderedBy, Rising, Below

LEMMA OrderStep == ASSUME Good, Ordered, UpStep, UNCHANGED ctlVars PROVE Ordered'
<1> USE DEF elsewhere, outside, store, counters, poolVars, queueVars, flushVars, sinkVars, workerVars, threadVars, history, Goto
<1>0. Types /\ Owned /\ Holding /\ Written
  BY DEF Good
<1>1. PICK owner \in [Buffers -> Holders] : OwnedBy(owner)
  BY <1>0 DEF Owned
<1>2. ASSUME NEW t \in Threads, pc'[t] = pc[t], line'[t] = line[t], hand'[t] = hand[t], logged'[t] = logged[t],
             accepted'[t] = accepted[t],
             \A b \in Buffers : content'[b] = content[b] \/ owner[b] \notin {Line(t), Hand(t)}
      PROVE  OrderedBy(t)'
  <2>1. /\ line[t] \in Buffers => content'[line[t]] = content[line[t]]
        /\ hand[t] \in Buffers => content'[hand[t]] = content[hand[t]]
    BY <1>1, <1>2 DEF OwnedBy, LinesOwn, HandsOwn
  <2> QED BY <1>0, <1>2, <2>1, OrderKept DEF Ordered, Holding
<1>3. CASE UNCHANGED vars
  BY <1>2, <1>3 DEF vars, threadVars, Ordered
<1>4. CASE UpWorker
  <2>1. UNCHANGED <<threadVars, accepted>>
    BY <1>4, WorkerAlone
  <2>2. \A t \in Threads : \A b \in Buffers : content'[b] = content[b] \/ owner[b] \notin {Line(t), Hand(t)}
    BY <1>1, <1>4, WorkerWrites, HoldersDiffer
  <2> QED BY <1>2, <2>1, <2>2 DEF threadVars, Ordered
<1>5. ASSUME NEW t \in Threads, Thread(t) PROVE Ordered'
  <2>0. Holds(t) /\ Alone(t) /\ WrittenBy(t) /\ OrderedBy(t)
    BY <1>0, <1>5, ThreadAlone DEF Holding, Written, Ordered
  <2>1. ASSUME NEW u \in Threads \ {t} PROVE OrderedBy(u)'
    <3>1. \A b \in Buffers : content'[b] = content[b] \/ owner[b] \notin {Line(u), Hand(u)}
      BY <1>1, <1>5, ThreadWrites, HoldersDiffer
    <3>2. pc'[u] = pc[u] /\ line'[u] = line[u] /\ hand'[u] = hand[u] /\ accepted'[u] = accepted[u]
      BY <2>0 DEF Alone
    <3>3. logged'[u] = logged[u]
      <4>1. CASE OpenLine(t) \/ WriteMore(t)
        BY <1>0, <4>1 DEF Types, OpenLine, WriteMore
      <4>2. CASE ~OpenLine(t) /\ ~WriteMore(t)
        <5>1. UNCHANGED logged
          BY <1>5, <4>2 DEF Thread, LineStep, FlushStep, UpdateStep, Dispatch, SwapBuffer, EnqueueLine, SignalLine,
                CloseLine, CallFlush, AcquireMarker, TakeTicket, EnqueueMarker, SignalMarker, WaitDone, Wake, TestDone,
                SpuriousWake, PublishConfig, DeleteConfig
        <5> QED BY <5>1
      <4> QED BY <4>1, <4>2
    <3> QED BY <1>2, <3>1, <3>2, <3>3
  <2> SUFFICES OrderedBy(t)'
    BY <2>1 DEF Ordered
  <2>2. accepted[t] \in Seq(Nat) /\ logged[t] \in Nat
    BY <1>0 DEF Types
  <2>a. \A i \in 1 .. Len(accepted[t]) : accepted[t][i] \in Nat
    BY <2>2
  <2>b. ASSUME UNCHANGED accepted, logged'[t] = logged[t] + 1
        PROVE  /\ Rising(accepted'[t]) /\ Below(accepted'[t], logged'[t] + 1) /\ Below(accepted'[t], logged'[t])
    <3>1. Rising(accepted[t]) /\ \A i \in 1 .. Len(accepted[t]) : accepted[t][i] < logged[t] + 1
      BY <2>0 DEF OrderedBy, Below
    <3>2. \A i \in 1 .. Len(accepted'[t]) : accepted'[t][i] < logged'[t] /\ accepted'[t][i] < logged'[t] + 1
      BY <2>2, <2>a, <2>b, <3>1
    <3> QED BY <2>b, <3>1, <3>2 DEF Below
  <2>3. ASSUME NEW b \in Buffers, line'[t] = b, pc'[t] = "writing", UNCHANGED accepted, logged'[t] = logged[t] + 1,
               content'[b] = <<t, logged[t] + 1>>
        PROVE  OrderedBy(t)'
    <3> QED BY <2>b, <2>3 DEF OrderedBy
  <2>4. CASE OpenLine(t)
    <3>1. logged'[t] = logged[t] + 1 /\ UNCHANGED <<hand, accepted>> /\ pc[t] = "idle" /\ line[t] = NoBuf
      BY <1>0, <2>0, <2>4 DEF OpenLine, Types, Holds
    <3>2. CASE UNCHANGED <<pc, line, content>>
      BY <2>b, <3>1, <3>2 DEF OrderedBy
    <3>3. CASE \E b \in Buffers : /\ Acquire(b)
                                  /\ content' = [content EXCEPT ![b] = <<t, logged[t] + 1>>]
                                  /\ line' = [line EXCEPT ![t] = b]
                                  /\ Goto(t, "writing")
      BY <1>0, <2>3, <3>1, <3>3 DEF Types, Texts
    <3> QED BY <2>4, <3>2, <3>3 DEF OpenLine
  <2>5. CASE WriteMore(t)
    <3>1. PICK b \in Buffers : b = line[t]
      BY <1>0, <2>0, <2>5 DEF WriteMore, Holds, Types
    <3>2. /\ content'[b] = <<t, logged[t] + 1>> /\ logged'[t] = logged[t] + 1
          /\ line'[t] = b /\ pc'[t] = "writing" /\ UNCHANGED accepted
      BY <1>0, <2>5, <3>1 DEF WriteMore, Types, Texts
    <3> QED BY <2>3, <3>1, <3>2
  <2>6. CASE SwapBuffer(t)
    <3>1. /\ hand'[t] = line[t] /\ pc'[t] = "enqueue" /\ pc[t] = "swap" /\ UNCHANGED <<content, logged, accepted>>
      BY <1>0, <2>6 DEF SwapBuffer, Types
    <3>2. content[line[t]] = <<t, logged[t]>> /\ Below(accepted[t], logged[t])
      BY <2>0, <3>1 DEF WrittenBy, Holds, OrderedBy
    <3>3. line'[t] # NoBuf => content[line'[t]] = NoMsg
      <4>1. CASE line' = [line EXCEPT ![t] = NoBuf]
        BY <1>0, <4>1 DEF Types
      <4>2. CASE \E b \in Buffers : Acquire(b) /\ line' = [line EXCEPT ![t] = b]
        <5>1. PICK b \in Buffers : Acquire(b) /\ line' = [line EXCEPT ![t] = b]
          BY <4>2
        <5>2. avail[b] = 1
          BY <1>0, <1>1, <5>1, Acquired DEF OwnedBy
        <5>3. line'[t] = b
          BY <1>0, <5>1 DEF Types
        <5> QED BY <1>0, <5>2, <5>3 DEF Written, PoolEmpty
      <4> QED BY <2>6, <4>1, <4>2 DEF SwapBuffer
    <3> QED BY <2>0, <3>1, <3>2, <3>3 DEF OrderedBy
  <2>7. CASE EnqueueLine(t)
    <3>1. pc[t] = "enqueue" /\ pc'[t] = "signal" /\ line' = line /\ UNCHANGED <<content, logged>>
      BY <1>0, <2>7 DEF EnqueueLine, Types
    <3>2. /\ content[hand[t]] = <<t, logged[t]>> /\ Below(accepted[t], logged[t])
          /\ line[t] # NoBuf => content[line[t]] = NoMsg
      BY <2>0, <3>1 DEF OrderedBy
    <3>3. hand[t] \in Buffers
      BY <1>0, <2>0, <3>1 DEF Holds, Types
    <3>4. NumbersOf(t, <<hand[t]>>) = <<logged[t]>>
      <4>1. content[hand[t]] \in {t} \X Nat /\ content[hand[t]][2] = logged[t]
        BY <2>2, <3>2
      <4>2. content \in Texts
        BY <1>0 DEF Types
      <4>3. Numbers(content, t, <<hand[t]>>) = <<content[hand[t]][2]>>
        BY <3>3, <4>1, <4>2, NumbersOne
      <4> QED BY <4>1, <4>3, NumbersOfIsNumbers
    <3>5. accepted'[t] = accepted[t] \o <<logged[t]>>
      BY <1>0, <2>7, <3>4 DEF EnqueueLine, Types
    <3>6. Rising(accepted'[t]) /\ Below(accepted'[t], logged[t] + 1)
      BY <2>0, <2>2, <3>2, <3>5, RisingAppended DEF OrderedBy
    <3> QED BY <3>1, <3>2, <3>6 DEF OrderedBy
  <2>8. CASE CloseLine(t)
    <3>1. pc'[t] = "idle" /\ line'[t] = NoBuf /\ UNCHANGED <<logged, accepted>>
      BY <1>0, <2>8 DEF CloseLine, Types
    <3> QED BY <2>0, <3>1 DEF OrderedBy
  <2>9. ASSUME UNCHANGED <<content, logged, accepted, line>>, pc'[t] # "enqueue" PROVE OrderedBy(t)'
    BY <2>0, <2>9 DEF OrderedBy
  <2>10. CASE Dispatch(t) \/ SignalLine(t) \/ CallFlush(t)
    BY <1>0, <2>9, <2>10 DEF Dispatch, SignalLine, CallFlush, Types
  <2>11. CASE AcquireMarker(t) \/ TakeTicket(t) \/ EnqueueMarker(t) \/ SignalMarker(t)
    BY <1>0, <2>9, <2>11 DEF AcquireMarker, FlushReturnsTo, Fails, TakeTicket, EnqueueMarker, SignalMarker, Types
  <2>12. CASE WaitDone(t) \/ Wake(t) \/ SpuriousWake(t) \/ PublishConfig(t) \/ DeleteConfig(t)
    BY <1>0, <2>9, <2>12 DEF WaitDone, Wake, TestDone, FlushReturnsTo, SpuriousWake, PublishConfig, DeleteConfig, Types
  <2> QED BY <1>5, <2>4, <2>5, <2>6, <2>7, <2>8, <2>10, <2>11, <2>12 DEF Thread, LineStep, FlushStep, UpdateStep
<1> QED BY <1>3, <1>4, <1>5 DEF UpStep

LEMMA OrderInvariance == Spec => []OrderInv
<1>1. Init => OrderInv
  BY DEF Init, OrderInv, Ordered, OrderedBy, Rising, Below
<1>2. Inv /\ OrderInv /\ [Next]_vars => OrderInv'
  <2> SUFFICES ASSUME Inv, OrderInv, [Next]_vars, Up' PROVE Ordered'
    BY DEF OrderInv
  <2>1. Up /\ Good
    BY StillDown DEF Inv
  <2> QED BY <2>1, UpSteps, OrderStep DEF OrderInv
<1> QED BY <1>1, <1>2, Invariance, PTL DEF Spec

(* Until somebody calls shutdown(), a thread's messages are handled in the  *)
(* order it logged them, and none twice (log_line's numbers, enqueue_buffer,*)
(* process_dequeued_buffers).                                               *)
THEOREM HandledAlwaysInOrder == Spec => [](Up => HandledInOrder)
<1>1. ASSUME Good, Ordered, NEW t \in Threads PROVE Rising(handled[t]) /\ handled[t] \in Seq(Nat)
  <2>1. /\ batch \in Seq(Buffers) /\ q[Explicit(t)] \in Seq(Buffers) /\ handled[t] \in Seq(Nat)
        /\ accepted[t] \in Seq(Nat)
    BY <1>1, Producer DEF Good, Types
  <2> DEFINE a == handled[t]
             b == NumbersOf(t, batch)
             c == NumbersOf(t, q[Explicit(t)])
  <2>2. b \in Seq(Nat) /\ c \in Seq(Nat) /\ accepted[t] = (a \o b) \o c
    BY <1>1, <2>1, NumbersOfType DEF Good, Delivered
  <2>3. PICK y \in Seq(Nat) : accepted[t] = a \o y
    <3> HIDE DEF a, b, c
    <3>1. Followed(Followed(a, b), c) = Followed(a, Followed(b, c)) /\ Followed(b, c) \in Seq(Nat)
      BY <2>1, <2>2, Regrouped DEF a
    <3> QED BY <2>2, <3>1 DEF Followed
  <2>4. /\ Len(a) \in Nat /\ Len(accepted[t]) \in Nat /\ Len(a) <= Len(accepted[t])
        /\ \A i \in 1 .. Len(a) : accepted[t][i] = a[i]
    <3> HIDE DEF b, c
    <3> QED BY <2>1, <2>3
  <2>5. Rising(accepted[t])
    BY <1>1 DEF Ordered, OrderedBy
  <2>6. ASSUME NEW i \in 1 .. Len(a), NEW j \in 1 .. Len(a), i < j PROVE a[i] < a[j]
    <3> HIDE DEF a
    <3>1. i \in 1 .. Len(accepted[t]) /\ j \in 1 .. Len(accepted[t])
      BY <2>4
    <3>2. accepted[t][i] < accepted[t][j]
      BY <2>5, <2>6, <3>1 DEF Rising
    <3> QED BY <2>4, <3>2
  <2> QED BY <2>1, <2>6 DEF Rising
<1>2. Inv /\ OrderInv => (Up => HandledInOrder)
  <2> SUFFICES ASSUME Good, Ordered, NEW t \in Threads, NEW i \in DOMAIN handled[t], NEW j \in DOMAIN handled[t], i < j
               PROVE  handled[t][i] < handled[t][j]
    BY DEF Inv, OrderInv, HandledInOrder
  <2>1. DOMAIN handled[t] = 1 .. Len(handled[t])
    BY <1>1
  <2> QED BY <1>1, <2>1 DEF Rising
<1> QED BY <1>2, Invariance, OrderInvariance, PTL
=============================================================================
