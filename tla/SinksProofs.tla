----------------------------- MODULE SinksProofs -----------------------------
(* What is proved of the filters and sinks: see Sinks and SinksProperties.   *)
EXTENDS SinksProperties, SequenceTheorems, FiniteSetTheorems, TLAPS

-----------------------------------------------------------------------------
(* Arithmetic *)

LEMMA Quotient ==
  ASSUME NEW a \in Nat, NEW b \in Nat \ {0}
  PROVE  a \div b \in Nat /\ b * (a \div b) <= a /\ a < b * ((a \div b) + 1)
  OBVIOUS

LEMMA TimesGrows ==
  ASSUME NEW a \in Nat, NEW b \in Nat, NEW c \in Nat, a <= b
  PROVE  c * a <= c * b /\ c * a \in Nat
  OBVIOUS

(* A sequence that is written as a function.                                 *)
LEMMA FunctionIsSeq ==
  ASSUME NEW n \in Nat, NEW S, NEW s \in [1 .. n -> S]
  PROVE  s \in Seq(S) /\ Len(s) = n /\ DOMAIN s = 1 .. n
<1>1. s \in Seq(S)
  BY SeqDef
<1> QED BY <1>1, LenProperties

LEMMA Joined ==
  ASSUME NEW S, NEW s \in Seq(S), NEW r \in Seq(S)
  PROVE  /\ s \o r \in Seq(S)
         /\ Len(s) \in Nat /\ Len(r) \in Nat /\ Len(s \o r) = Len(s) + Len(r)
         /\ DOMAIN s = 1 .. Len(s) /\ DOMAIN r = 1 .. Len(r)
         /\ DOMAIN (s \o r) = 1 .. Len(s) + Len(r)
         /\ \A i \in 1 .. Len(s) : (s \o r)[i] = s[i]
         /\ \A i \in 1 .. Len(r) : (s \o r)[Len(s) + i] = r[i]
<1>1. s \o r \in Seq(S) /\ Len(s) \in Nat /\ Len(r) \in Nat /\ Len(s \o r) = Len(s) + Len(r)
  BY ConcatProperties, LenProperties
<1>2. /\ DOMAIN s = 1 .. Len(s) /\ DOMAIN r = 1 .. Len(r)
      /\ DOMAIN (s \o r) = 1 .. Len(s) + Len(r)
  BY <1>1, LenProperties
<1>3. \A i \in 1 .. Len(s) + Len(r) :
        (s \o r)[i] = IF i <= Len(s) THEN s[i] ELSE r[i - Len(s)]
  BY ConcatProperties
<1>4. \A i \in 1 .. Len(s) : (s \o r)[i] = s[i]
  BY <1>1, <1>3
<1>5. \A i \in 1 .. Len(r) : (s \o r)[Len(s) + i] = r[i]
  <2> TAKE i \in 1 .. Len(r)
  <2>1. Len(s) + i \in 1 .. Len(s) + Len(r) /\ ~(Len(s) + i <= Len(s)) /\ (Len(s) + i) - Len(s) = i
    BY <1>1
  <2> QED BY <1>3, <2>1
<1> QED BY <1>1, <1>2, <1>4, <1>5

-----------------------------------------------------------------------------
(* Types *)

Entries == [id : Int, msg : Messages, filtered_ : BOOLEAN]
Shown == [key : Texts, at : Nat, dropped : BOOLEAN]
Limited == [at : Nat, dropped : BOOLEAN]

(* The chains: configurations are only added, the ones before the current    *)
(* one are deleted in turn, and no filter is twice in one.                   *)
ChainTypes ==
    /\ lists \in Seq(Seq(Filters)) /\ Len(lists) >= 1
    /\ \A c \in 1 .. Len(lists) : IsInjective(lists[c])
    /\ deleted \subseteq 1 .. Len(lists) - 1
    /\ upc \in {"idle", "flush", "shutdown", "delete"}
    /\ old \in 1 .. Len(lists) /\ (upc # "idle" => old = Len(lists) - 1)

FilterTypes ==
    /\ now \in 0 .. MaxTime
    /\ seen_messages_ \in [Texts -> {Never} \cup (0 .. now)]
    /\ last_cleanup_ \in 0 .. now /\ last_refill_ \in 0 .. now
    /\ tokens \in 0 .. Rate * Second

WorkerTypes ==
    /\ pc \in {"idle", "load", "filter", "sinks"} /\ pos \in 1 .. 4
    /\ cfg \in 1 .. Len(lists)
    /\ pc = "filter" => pos <= Len(lists[cfg]) + 1
    /\ run \in Seq(Entries)
    /\ runs \in Nat

HistoryTypes ==
    /\ shown \in Seq(Shown) /\ limited \in Seq(Limited)
    /\ gaveUp \in BOOLEAN

(* The worker's chain is not deleted, and not about to be: a flush() that    *)
(* found a buffer waited for a worker between two runs.                      *)
InUse ==
    pc = "filter" /\ ~gaveUp =>
      cfg \notin deleted /\ (upc \in {"shutdown", "delete"} => cfg # old)

Types == ChainTypes /\ FilterTypes /\ WorkerTypes /\ HistoryTypes /\ InUse

(* The constants.                                                            *)
LEMMA Bounds ==
  /\ Capacity \in Nat /\ MaxIov \in Nat /\ MaxRun \in Nat \ {0} /\ Window \in Nat \ {0}
  /\ Second \in Nat \ {0} /\ CleanupInterval \in Nat /\ Rate \in Nat /\ Runs \in Nat
  /\ MaxTime \in Nat /\ Updates \in Nat /\ Faults \in Nat
  /\ Rate * Second \in Nat
<1>1. /\ Capacity \in Nat /\ MaxIov \in Nat /\ MaxRun \in Nat \ {0} /\ Window \in Nat \ {0}
      /\ Second \in Nat \ {0} /\ CleanupInterval \in Nat /\ Rate \in Nat /\ Runs \in Nat
      /\ MaxTime \in Nat /\ Updates \in Nat /\ Faults \in Nat
  BY SinksAssumption
<1> QED BY <1>1

(* A chain without repetition has at most as many filters as there are.      *)
LEMMA ShortChain ==
  ASSUME NEW s \in Seq(Filters), IsInjective(s)
  PROVE  Len(s) \in 0 .. 3
<1>1. Len(s) \in Nat /\ DOMAIN s = 1 .. Len(s) /\ \A i \in 1 .. Len(s) : s[i] \in Filters
  BY ElementOfSeq, LenProperties
<1>2. SUFFICES ASSUME Len(s) >= 4 PROVE FALSE
  BY <1>1
<1>3. 1 \in DOMAIN s /\ 2 \in DOMAIN s /\ 3 \in DOMAIN s /\ 4 \in DOMAIN s
  BY <1>1, <1>2
<1>4. /\ s[1] # s[2] /\ s[1] # s[3] /\ s[1] # s[4]
      /\ s[2] # s[3] /\ s[2] # s[4] /\ s[3] # s[4]
  BY <1>3 DEF IsInjective
<1>5. /\ s[1] \in Filters /\ s[2] \in Filters /\ s[3] \in Filters /\ s[4] \in Filters
  BY <1>1, <1>3
<1> QED BY <1>4, <1>5 DEF Filters

(* Taking a filter away keeps a chain a chain.                               *)
LEMMA Removed ==
  ASSUME NEW s \in Seq(Filters), IsInjective(s), NEW i \in DOMAIN s
  PROVE  RemoveAt(s, i) \in Seq(Filters) /\ IsInjective(RemoveAt(s, i))
<1> DEFINE a == SubSeq(s, 1, i - 1)
           b == SubSeq(s, i + 1, Len(s))
<1>1. /\ Len(s) \in Nat /\ i \in 1 .. Len(s) /\ DOMAIN s = 1 .. Len(s)
      /\ \A k \in 1 .. Len(s) : s[k] \in Filters
  BY ElementOfSeq, LenProperties
<1>2. /\ a \in Seq(Filters) /\ Len(a) = i - 1
      /\ \A k \in 1 .. i - 1 : a[k] = s[k]
  <2>1. \A k \in 1 .. i - 1 : s[k] \in Filters /\ 1 + k - 1 = k
    BY <1>1
  <2>2. i - 1 \in Int /\ 1 \in Int /\ (i - 1) - 1 + 1 = i - 1
        /\ (IF 1 <= i - 1 THEN i - 1 - 1 + 1 ELSE 0) = i - 1
    BY <1>1
  <2> QED BY <2>1, <2>2, SubSeqProperties
<1>3. /\ b \in Seq(Filters) /\ Len(b) = Len(s) - i
      /\ \A k \in 1 .. Len(s) - i : b[k] = s[i + k]
  <2>1. \A k \in i + 1 .. Len(s) : s[k] \in Filters
    BY <1>1
  <2>2. /\ i + 1 \in Int /\ Len(s) \in Int /\ Len(s) - (i + 1) + 1 = Len(s) - i
        /\ (IF i + 1 <= Len(s) THEN Len(s) - (i + 1) + 1 ELSE 0) = Len(s) - i
        /\ \A k \in 1 .. Len(s) - i : (i + 1) + k - 1 = i + k
    BY <1>1
  <2> QED BY <2>1, <2>2, SubSeqProperties
<1> HIDE DEF a, b
<1>4. /\ a \o b \in Seq(Filters) /\ DOMAIN (a \o b) = 1 .. Len(s) - 1
      /\ \A k \in 1 .. i - 1 : (a \o b)[k] = s[k]
      /\ \A k \in 1 .. Len(s) - i : (a \o b)[(i - 1) + k] = s[i + k]
  <2>1. (i - 1) + (Len(s) - i) = Len(s) - 1
    BY <1>1
  <2>2. /\ a \o b \in Seq(Filters) /\ DOMAIN (a \o b) = 1 .. Len(a) + Len(b)
        /\ \A k \in 1 .. Len(a) : (a \o b)[k] = a[k]
        /\ \A k \in 1 .. Len(b) : (a \o b)[Len(a) + k] = b[k]
    <3>1. a \in Seq(Filters) /\ b \in Seq(Filters)
      BY <1>2, <1>3
    <3>2. \A x, y \in Seq(Filters) :
            /\ x \o y \in Seq(Filters) /\ DOMAIN (x \o y) = 1 .. Len(x) + Len(y)
            /\ \A k \in 1 .. Len(x) : (x \o y)[k] = x[k]
            /\ \A k \in 1 .. Len(y) : (x \o y)[Len(x) + k] = y[k]
      BY Joined
    <3> QED BY <3>1, <3>2, Zenon
  <2>3. DOMAIN (a \o b) = 1 .. Len(s) - 1
    BY <1>2, <1>3, <2>1, <2>2
  <2>4. \A k \in 1 .. i - 1 : (a \o b)[k] = s[k]
    BY <1>2, <2>2
  <2>5. \A k \in 1 .. Len(s) - i : (a \o b)[(i - 1) + k] = s[i + k]
    BY <1>2, <1>3, <2>2
  <2> QED BY <2>2, <2>3, <2>4, <2>5
<1>5. \A k \in 1 .. Len(s) - 1 : (a \o b)[k] = IF k < i THEN s[k] ELSE s[k + 1]
  <2> TAKE k \in 1 .. Len(s) - 1
  <2>1. CASE k < i
    <3>1. k \in 1 .. i - 1
      BY <1>1, <2>1
    <3> QED BY <1>4, <2>1, <3>1
  <2>2. CASE ~(k < i)
    <3>1. /\ k - i + 1 \in 1 .. Len(s) - i /\ (i - 1) + (k - i + 1) = k
          /\ i + (k - i + 1) = k + 1
      BY <1>1, <2>2
    <3> QED BY <1>4, <2>2, <3>1
  <2> QED BY <2>1, <2>2
<1>6. IsInjective(a \o b)
  <2> SUFFICES ASSUME NEW j \in 1 .. Len(s) - 1, NEW k \in 1 .. Len(s) - 1,
                      (a \o b)[j] = (a \o b)[k]
               PROVE  j = k
    BY <1>4 DEF IsInjective
  <2> DEFINE of(m) == IF m < i THEN m ELSE m + 1
  <2>1. of(j) \in DOMAIN s /\ of(k) \in DOMAIN s /\ (of(j) = of(k) => j = k)
    BY <1>1
  <2>2. s[of(j)] = s[of(k)]
    BY <1>5
  <2> QED BY <2>1, <2>2 DEF IsInjective
<1> QED BY <1>4, <1>6 DEF RemoveAt, a, b

LEMMA Added ==
  ASSUME NEW s \in Seq(Filters), IsInjective(s), NEW f \in Filters \ ToSet(s)
  PROVE  Append(s, f) \in Seq(Filters) /\ IsInjective(Append(s, f))
<1>1. /\ Append(s, f) \in Seq(Filters) /\ Len(Append(s, f)) = Len(s) + 1 /\ Len(s) \in Nat
      /\ \A i \in 1 .. Len(s) : Append(s, f)[i] = s[i]
      /\ Append(s, f)[Len(s) + 1] = f
      /\ DOMAIN s = 1 .. Len(s) /\ DOMAIN Append(s, f) = 1 .. Len(s) + 1
  BY AppendProperties, LenProperties
<1>2. \A i \in 1 .. Len(s) : s[i] # f
  BY <1>1 DEF ToSet
<1>3. IsInjective(Append(s, f))
  <2> SUFFICES ASSUME NEW i \in 1 .. Len(s) + 1, NEW j \in 1 .. Len(s) + 1,
                      Append(s, f)[i] = Append(s, f)[j]
               PROVE  i = j
    BY <1>1 DEF IsInjective
  <2>1. (i \in 1 .. Len(s) \/ i = Len(s) + 1) /\ (j \in 1 .. Len(s) \/ j = Len(s) + 1)
    BY <1>1
  <2> QED BY <1>1, <1>2, <2>1 DEF IsInjective
<1> QED BY <1>1, <1>3

-----------------------------------------------------------------------------
(* The invariant *)

(* Of every text that is remembered a message was shown at that time; a     *)
(* message that was shown is remembered, by itself or by a later one, or is *)
(* out of the window.                                                       *)
Remembered ==
    /\ \A t \in Texts :
         seen_messages_[t] # Never =>
           \E i \in 1 .. Len(shown) : shown[i].key = t /\ shown[i].at = seen_messages_[t]
    /\ \A i \in 1 .. Len(shown) :
         shown[i].at <= seen_messages_[shown[i].key] \/ shown[i].at < now - Window

PassedOf(s, i, j) == Cardinality({k \in i .. j : ~s[k].dropped})

(* What a full bucket at message i and the refills since leave after the     *)
(* messages that passed.                                                     *)
Left(i) ==
    Rate * Second + Rate * (last_refill_ - limited[i].at)
      - Second * PassedOf(limited, i, Len(limited))

(* The bucket is never above what is left since any message, and it is what  *)
(* is left since one of them, unless it is full.                             *)
Balanced ==
    /\ \A i \in 1 .. Len(limited) : tokens <= Left(i)
    /\ tokens = Rate * Second \/ \E i \in 1 .. Len(limited) : tokens = Left(i)

Inv == Types /\ Remembered /\ Balanced /\ DecisionsExact

-----------------------------------------------------------------------------
(* Types are kept *)

LEMMA InitTypes == Init => Types
<1> SUFFICES ASSUME Init PROVE Types
  OBVIOUS
<1>1. PICK chain \in Chains : lists = <<chain>>
  BY DEF Init
<1>2. chain \in Seq(Filters) /\ IsInjective(chain)
  BY ChainsAssumption
<1>3. ChainTypes
  <2>1. /\ <<chain>> \in Seq(Seq(Filters)) /\ Len(<<chain>>) = 1
        /\ \A c \in 1 .. 1 : <<chain>>[c] = chain
    BY <1>2
  <2> QED BY <1>1, <1>2, <2>1 DEF Init, ChainTypes
<1>4. FilterTypes
  BY Bounds DEF Init, FilterTypes
<1>5. WorkerTypes
  <2>1. run = <<>> /\ <<>> \in Seq(Entries)
    BY DEF Init
  <2>2. Len(lists) = 1
    BY <1>1
  <2> QED BY <2>1, <2>2 DEF Init, WorkerTypes
<1>6. HistoryTypes
  <2>1. <<>> \in Seq(Shown) /\ <<>> \in Seq(Limited)
    OBVIOUS
  <2>2. shown = <<>> /\ limited = <<>> /\ gaveUp = FALSE
    BY DEF Init
  <2> QED BY <2>1, <2>2 DEF HistoryTypes
<1>7. InUse
  BY DEF Init, InUse
<1> QED BY <1>3, <1>4, <1>5, <1>6, <1>7 DEF Types

LEMMA PublishChain ==
  ASSUME ChainTypes, NEW s \in Seq(Filters), IsInjective(s), Publish(s)
  PROVE  ChainTypes' /\ Len(lists') = Len(lists) + 1
         /\ \A c \in 1 .. Len(lists) : lists'[c] = lists[c]
<1>1. lists' = Append(lists, s) /\ old' = Len(lists) /\ upc' = "flush" /\ deleted' = deleted
  BY DEF Publish, Current
<1>2. lists \in Seq(Seq(Filters)) /\ Len(lists) \in Nat
  BY LenProperties DEF ChainTypes
<1>3. /\ lists' \in Seq(Seq(Filters)) /\ Len(lists') = Len(lists) + 1
      /\ \A c \in 1 .. Len(lists) : lists'[c] = lists[c]
      /\ lists'[Len(lists) + 1] = s
  BY <1>1, <1>2, AppendProperties
<1>4. \A c \in 1 .. Len(lists') : IsInjective(lists'[c])
  <2> TAKE c \in 1 .. Len(lists')
  <2>1. c \in 1 .. Len(lists) \/ c = Len(lists) + 1
    BY <1>2, <1>3
  <2> QED BY <1>3, <2>1 DEF ChainTypes
<1>5. ChainTypes'
  BY <1>1, <1>2, <1>3, <1>4 DEF ChainTypes
<1> QED BY <1>3, <1>5

LEMMA UpdateChain ==
  ASSUME ChainTypes, AddFilter \/ RemoveFilter \/ ClearFilters
  PROVE  ChainTypes' /\ Len(lists') = Len(lists) + 1 /\ upc' = "flush" /\ deleted' = deleted
         /\ \A c \in 1 .. Len(lists) : lists'[c] = lists[c]
<1>1. /\ lists[Current] \in Seq(Filters) /\ IsInjective(lists[Current])
  BY ElementOfSeq, LenProperties DEF ChainTypes, Current
<1>2. CASE AddFilter
  <2>1. PICK f \in Filters \ ToSet(lists[Current]) : Publish(Append(lists[Current], f))
    BY <1>2 DEF AddFilter
  <2> QED BY <1>1, <2>1, Added, PublishChain DEF Publish
<1>3. CASE RemoveFilter
  <2>1. PICK i \in DOMAIN lists[Current] : Publish(RemoveAt(lists[Current], i))
    BY <1>3 DEF RemoveFilter
  <2> QED BY <1>1, <2>1, Removed, PublishChain DEF Publish
<1>4. CASE ClearFilters
  <2>1. <<>> \in Seq(Filters) /\ IsInjective(<<>>) /\ Publish(<<>>)
    BY <1>4 DEF ClearFilters, IsInjective
  <2> QED BY <2>1, PublishChain DEF Publish
<1> QED BY <1>2, <1>3, <1>4

(* The steps of the worker, the clock and the flush() leave the chains.      *)
LEMMA ChainKept ==
  ASSUME \/ Tick \/ TakeRun \/ LoadFilters \/ Dedup \/ RateLimit \/ Sample \/ EndFilters
         \/ ProcessIndividual \/ ProcessBulk \/ ReleaseRun
  PROVE  UNCHANGED <<lists, deleted, upc, old>>
  BY DEF Tick, TakeRun, LoadFilters, Dedup, RateLimit, Sample, EndFilters, ProcessIndividual,
         ProcessBulk, ReleaseRun, updater, outsideFilter, outsideSinks

LEMMA ChainStep ==
  ASSUME ChainTypes, [Next]_vars
  PROVE  ChainTypes'
<1>1. CASE UNCHANGED <<lists, deleted, upc, old>>
  BY <1>1 DEF ChainTypes
<1>2. CASE \/ Tick \/ TakeRun \/ LoadFilters \/ Dedup \/ RateLimit \/ Sample \/ EndFilters
           \/ ProcessIndividual \/ ProcessBulk \/ ReleaseRun
  BY <1>1, <1>2, ChainKept
<1>3. CASE AddFilter \/ RemoveFilter \/ ClearFilters
  BY <1>3, UpdateChain
<1>4. CASE FlushUpdate
  BY <1>4 DEF FlushUpdate, ChainTypes
<1>5. CASE ShutdownFilters
  BY <1>5 DEF ShutdownFilters, ChainTypes
<1>6. CASE DeleteFilters
  <2>1. old \in 1 .. Len(lists) - 1 /\ deleted' = deleted \cup {old} /\ upc' = "idle"
        /\ lists' = lists /\ old' = old
    BY <1>6, LenProperties DEF DeleteFilters, ChainTypes
  <2> QED BY <2>1 DEF ChainTypes
<1>7. CASE UNCHANGED vars
  BY <1>1, <1>7 DEF vars, updater
<1> QED BY <1>2, <1>3, <1>4, <1>5, <1>6, <1>7 DEF Next

LEMMA CleanedUpType ==
  ASSUME FilterTypes
  PROVE  /\ CleanedUp \in [Texts -> {Never} \cup (0 .. now)]
         /\ \A t \in Texts : \/ CleanedUp[t] = seen_messages_[t]
                             \/ CleanedUp[t] = Never /\ seen_messages_[t] < now - Window
<1>1. CASE now - last_cleanup_ < CleanupInterval
  BY <1>1 DEF FilterTypes, CleanedUp
<1>2. CASE ~(now - last_cleanup_ < CleanupInterval)
  <2>1. CleanedUp = [t \in Texts |-> IF seen_messages_[t] < now - Window THEN Never
                                     ELSE seen_messages_[t]]
    BY <1>2 DEF CleanedUp
  <2>2. \A t \in Texts : seen_messages_[t] \in {Never} \cup (0 .. now)
    BY DEF FilterTypes
  <2> QED BY <2>1, <2>2
<1> QED BY <1>1, <1>2

(* What the bucket holds, and what it pays for the run.                      *)
LEMMA Refills ==
  ASSUME FilterTypes
  PROVE  /\ Refilled \in 0 .. Rate * Second
         /\ tokens + Rate * (now - last_refill_) \in Nat
         /\ Refilled <= tokens + Rate * (now - last_refill_)
         /\ Refilled = Rate * Second \/ Refilled = tokens + Rate * (now - last_refill_)
<1> DEFINE cap == Rate * Second
           gain == Rate * (now - last_refill_)
<1>1. now - last_refill_ \in Nat /\ tokens \in 0 .. cap /\ cap \in Nat
  BY Bounds DEF FilterTypes
<1>2. gain \in Nat /\ (now - last_refill_) * Rate = gain
  BY <1>1, Bounds
<1>3. Refilled = IF tokens + gain > cap THEN cap ELSE tokens + gain
  BY <1>2 DEF Refilled
<1> HIDE DEF cap, gain
<1>4. /\ Refilled \in 0 .. cap /\ tokens + gain \in Nat /\ Refilled <= tokens + gain
      /\ Refilled = cap \/ Refilled = tokens + gain
  BY <1>1, <1>2, <1>3
<1> QED BY <1>4 DEF cap, gain

LEMMA Pays ==
  ASSUME NEW f \in Nat, NEW n \in Nat
  PROVE  LET p == f \div Second
             q == IF p < n THEN p ELSE n
         IN /\ p \in Nat /\ q \in Nat /\ q <= p /\ q <= n
            /\ Second * p <= f /\ f < Second * (p + 1)
            /\ Second * q \in Nat /\ Second * q <= f
<1> DEFINE p == f \div Second
           q == IF p < n THEN p ELSE n
<1>1. p \in Nat /\ Second * p <= f /\ f < Second * (p + 1)
  BY Quotient, Bounds
<1> HIDE DEF p
<1>2. q \in Nat /\ q <= p /\ q <= n
  BY <1>1
<1> HIDE DEF q
<1>3. Second * q <= Second * p /\ Second * q \in Nat /\ Second * p \in Nat
  BY <1>1, <1>2, TimesGrows, Bounds
<1>4. Second * q <= f
  BY <1>1, <1>3
<1> QED BY <1>1, <1>2, <1>3, <1>4 DEF p, q

LEMMA RunLength ==
  ASSUME WorkerTypes
  PROVE  /\ Len(run) \in Nat /\ DOMAIN run = 1 .. Len(run)
         /\ \A k \in 1 .. Len(run) : run[k] \in Entries /\ run[k].msg.text \in Texts
<1>1. /\ Len(run) \in Nat /\ DOMAIN run = 1 .. Len(run)
      /\ \A k \in 1 .. Len(run) : run[k] \in Entries
  BY ElementOfSeq, LenProperties DEF WorkerTypes
<1>2. \A k \in 1 .. Len(run) : run[k].msg.text \in Texts
  BY <1>1 DEF Entries, Texts
<1> QED BY <1>1, <1>2

LEMMA FilterStep ==
  ASSUME FilterTypes, WorkerTypes, [Next]_vars
  PROVE  FilterTypes'
<1>1. CASE UNCHANGED <<now, filterState>>
  BY <1>1 DEF FilterTypes, filterState
<1>2. CASE Tick
  <2>1. /\ now' = now + 1 /\ now < MaxTime /\ UNCHANGED filterState
    BY <1>2 DEF Tick
  <2>2. now \in Nat /\ MaxTime \in Nat
    BY Bounds DEF FilterTypes
  <2>3. 0 .. now \subseteq 0 .. now' /\ now' \in 0 .. MaxTime
    BY <2>1, <2>2
  <2> QED BY <2>1, <2>3 DEF FilterTypes, filterState
<1>3. CASE Dedup
  <2>1. /\ seen_messages_' = [t \in Texts |-> IF \E k \in DOMAIN run : run[k].msg.text = t THEN now
                                              ELSE CleanedUp[t]]
        /\ last_cleanup_' \in {last_cleanup_, now}
        /\ UNCHANGED <<now, tokens, last_refill_>>
    BY <1>3 DEF Dedup, outsideFilter
  <2>2. seen_messages_' \in [Texts -> {Never} \cup (0 .. now)]
    BY <2>1, CleanedUpType, Bounds DEF FilterTypes
  <2> QED BY <2>1, <2>2 DEF FilterTypes
<1>4. CASE RateLimit
  <2>1. /\ tokens' = Refilled - Paid(Refilled \div Second)
        /\ last_refill_' = now
        /\ UNCHANGED <<now, seen_messages_, last_cleanup_>>
    BY <1>4 DEF RateLimit, outsideFilter
  <2>2. Refilled \in 0 .. Rate * Second /\ Refilled \in Nat
    BY Refills, Bounds
  <2>3. Paid(Refilled \div Second) \in Nat /\ Paid(Refilled \div Second) <= Refilled
    BY <2>2, Pays, RunLength DEF Paid
  <2>4. tokens' \in 0 .. Rate * Second
    BY <2>1, <2>2, <2>3, Bounds
  <2> QED BY <2>1, <2>4 DEF FilterTypes
<1>5. CASE ShutdownFilters
  <2>1. /\ UNCHANGED <<now, last_cleanup_, tokens, last_refill_>>
        /\ seen_messages_' = [t \in Texts |-> Never] \/ seen_messages_' = seen_messages_
    BY <1>5 DEF ShutdownFilters, outsideUpdater
  <2> QED BY <2>1 DEF FilterTypes
<1>6. CASE TakeRun \/ LoadFilters \/ Sample \/ EndFilters \/ ProcessIndividual \/ ProcessBulk
           \/ ReleaseRun \/ AddFilter \/ RemoveFilter \/ ClearFilters \/ FlushUpdate
           \/ DeleteFilters
  BY <1>1, <1>6 DEF TakeRun, LoadFilters, Sample, EndFilters, ProcessIndividual, ProcessBulk,
       ReleaseRun, AddFilter, RemoveFilter, ClearFilters, Publish, FlushUpdate, DeleteFilters,
       outsideFilter, outsideSinks, outsideUpdater, filterState
<1>7. CASE UNCHANGED vars
  BY <1>1, <1>7 DEF vars
<1> QED BY <1>2, <1>3, <1>4, <1>5, <1>6, <1>7 DEF Next

(* Marking messages of the run.                                              *)
LEMMA Marked ==
  ASSUME WorkerTypes, NEW drop \in [DOMAIN run -> BOOLEAN], Mark(drop)
  PROVE  run' \in Seq(Entries) /\ Len(run') = Len(run)
<1>1. run' = [k \in 1 .. Len(run) |-> [run[k] EXCEPT !.filtered_ = @ \/ drop[k]]]
  BY RunLength DEF Mark
<1>2. run' \in [1 .. Len(run) -> Entries]
  <2>1. \A k \in 1 .. Len(run) : [run[k] EXCEPT !.filtered_ = @ \/ drop[k]] \in Entries
    <3> TAKE k \in 1 .. Len(run)
    <3>1. run[k] \in [id : Int, msg : Messages, filtered_ : BOOLEAN]
      BY RunLength DEF Entries
    <3>2. (run[k].filtered_ \/ drop[k]) \in BOOLEAN
      OBVIOUS
    <3> QED BY <3>1, <3>2 DEF Entries
  <2> QED BY <1>1, <2>1
<1> QED BY <1>2, RunLength, FunctionIsSeq

(* What one call of dedup_filter and of rate_limit_filter adds to what they  *)
(* were shown.                                                               *)
Text(k) == run[k].msg.text
Known(t) == CleanedUp[t] # Never /\ now - CleanedUp[t] < Window
Dropped(k) == Known(Text(k)) \/ \E j \in 1 .. k - 1 : Text(j) = Text(k)
ShownNow == [k \in 1 .. Len(run) |-> [key |-> Text(k), at |-> now, dropped |-> Dropped(k)]]
Payable == Refilled \div Second
LimitedNow == [k \in 1 .. Len(run) |-> [at |-> now, dropped |-> k > Payable]]

LEMMA DedupCall ==
  ASSUME FilterTypes, WorkerTypes, HistoryTypes, Dedup
  PROVE  /\ ShownNow \in Seq(Shown) /\ Len(ShownNow) = Len(run)
         /\ shown' = shown \o ShownNow /\ shown' \in Seq(Shown)
         /\ Mark([k \in DOMAIN run |-> Dropped(k)])
         /\ [k \in DOMAIN run |-> Dropped(k)] \in [DOMAIN run -> BOOLEAN]
         /\ seen_messages_' = [t \in Texts |-> IF \E k \in 1 .. Len(run) : Text(k) = t THEN now
                                               ELSE CleanedUp[t]]
         /\ AtFilter("dedup") /\ pos' = pos + 1
         /\ UNCHANGED <<now, updater, pc, cfg, runs, gaveUp, tokens, last_refill_, limited>>
<1>1. DOMAIN run = 1 .. Len(run) /\ Len(run) \in Nat
  BY RunLength
<1>2. \A k \in 1 .. Len(run) : Dropped(k) \in BOOLEAN
  BY DEF Dropped, Known
<1>3. ShownNow \in [1 .. Len(run) -> Shown]
  <2>1. \A k \in 1 .. Len(run) : [key |-> Text(k), at |-> now, dropped |-> Dropped(k)] \in Shown
    <3> TAKE k \in 1 .. Len(run)
    <3>1. Text(k) \in Texts /\ now \in Nat
      BY RunLength, Bounds DEF Text, FilterTypes
    <3> QED BY <1>2, <3>1 DEF Shown
  <2> QED BY <2>1 DEF ShownNow
<1>4. ShownNow \in Seq(Shown) /\ Len(ShownNow) = Len(run)
  BY <1>1, <1>3, FunctionIsSeq
<1>5. shown' = shown \o ShownNow
  BY <1>1 DEF Dedup, ShownNow, Text, Dropped, Known
<1>6. shown' \in Seq(Shown)
  <2>1. shown \in Seq(Shown)
    BY DEF HistoryTypes
  <2> QED BY <1>4, <1>5, <2>1, ConcatProperties, Zenon
<1>7. Mark([k \in DOMAIN run |-> Dropped(k)])
  BY <1>1 DEF Dedup, Text, Dropped, Known
<1>8. [k \in DOMAIN run |-> Dropped(k)] \in [DOMAIN run -> BOOLEAN]
  BY <1>1, <1>2
<1>9. /\ seen_messages_' = [t \in Texts |-> IF \E k \in 1 .. Len(run) : Text(k) = t THEN now
                                            ELSE CleanedUp[t]]
      /\ AtFilter("dedup") /\ pos' = pos + 1
  BY <1>1 DEF Dedup, Text
<1>10. UNCHANGED <<now, updater, pc, cfg, runs, gaveUp, tokens, last_refill_, limited>>
  BY DEF Dedup, outsideFilter
<1> QED BY <1>4, <1>5, <1>6, <1>7, <1>8, <1>9, <1>10

LEMMA RateCall ==
  ASSUME FilterTypes, WorkerTypes, HistoryTypes, RateLimit
  PROVE  /\ LimitedNow \in Seq(Limited) /\ Len(LimitedNow) = Len(run)
         /\ limited' = limited \o LimitedNow /\ limited' \in Seq(Limited)
         /\ Mark([k \in DOMAIN run |-> k > Payable])
         /\ [k \in DOMAIN run |-> k > Payable] \in [DOMAIN run -> BOOLEAN]
         /\ tokens' = Refilled - Paid(Payable) /\ last_refill_' = now
         /\ AtFilter("rate_limit") /\ pos' = pos + 1
         /\ UNCHANGED <<now, updater, pc, cfg, runs, gaveUp, seen_messages_, shown>>
<1>1. DOMAIN run = 1 .. Len(run) /\ Len(run) \in Nat
  BY RunLength
<1>2. LimitedNow \in [1 .. Len(run) -> Limited]
  <2>1. now \in Nat
    BY Bounds DEF FilterTypes
  <2>2. \A k \in 1 .. Len(run) : [at |-> now, dropped |-> k > Payable] \in Limited
    BY <2>1 DEF Limited
  <2> QED BY <2>2 DEF LimitedNow
<1>3. LimitedNow \in Seq(Limited) /\ Len(LimitedNow) = Len(run)
  BY <1>1, <1>2, FunctionIsSeq
<1>4. limited' = limited \o LimitedNow
  BY <1>1 DEF RateLimit, LimitedNow, Payable
<1>5. limited' \in Seq(Limited)
  <2>1. limited \in Seq(Limited)
    BY DEF HistoryTypes
  <2> QED BY <1>3, <1>4, <2>1, ConcatProperties, Zenon
<1>6. Mark([k \in DOMAIN run |-> k > Payable])
  BY DEF RateLimit, Payable
<1>7. [k \in DOMAIN run |-> k > Payable] \in [DOMAIN run -> BOOLEAN]
  OBVIOUS
<1>8. /\ tokens' = Refilled - Paid(Payable) /\ last_refill_' = now
      /\ AtFilter("rate_limit") /\ pos' = pos + 1
  BY DEF RateLimit, Payable
<1>9. UNCHANGED <<now, updater, pc, cfg, runs, gaveUp, seen_messages_, shown>>
  BY DEF RateLimit, outsideFilter
<1> QED BY <1>3, <1>4, <1>5, <1>6, <1>7, <1>8, <1>9

LEMMA HistoryStep ==
  ASSUME FilterTypes, WorkerTypes, HistoryTypes, [Next]_vars
  PROVE  HistoryTypes'
<1>1. CASE UNCHANGED <<shown, limited, gaveUp>>
  BY <1>1 DEF HistoryTypes
<1>2. CASE Dedup
  BY <1>2, DedupCall DEF HistoryTypes
<1>3. CASE RateLimit
  BY <1>3, RateCall DEF HistoryTypes
<1>4. CASE FlushUpdate
  BY <1>4 DEF FlushUpdate, HistoryTypes, outsideUpdater
<1>5. CASE ShutdownFilters
  <2>1. <<>> \in Seq(Shown)
    OBVIOUS
  <2>2. (shown' = <<>> \/ shown' = shown) /\ UNCHANGED <<limited, gaveUp>>
    BY <1>5 DEF ShutdownFilters, outsideUpdater
  <2> QED BY <2>1, <2>2 DEF HistoryTypes
<1>6. CASE Tick \/ TakeRun \/ LoadFilters \/ Sample \/ EndFilters \/ ProcessIndividual
           \/ ProcessBulk \/ ReleaseRun \/ AddFilter \/ RemoveFilter \/ ClearFilters
           \/ DeleteFilters
  BY <1>1, <1>6 DEF Tick, TakeRun, LoadFilters, Sample, EndFilters, ProcessIndividual,
       ProcessBulk, ReleaseRun, AddFilter, RemoveFilter, ClearFilters, Publish, DeleteFilters,
       outsideFilter, outsideSinks, outsideUpdater, history
<1>7. CASE UNCHANGED vars
  BY <1>1, <1>7 DEF vars, history
<1> QED BY <1>2, <1>3, <1>4, <1>5, <1>6, <1>7 DEF Next

(* Taking a run: its messages have numbers and no mark.                      *)
LEMMA Taking ==
  ASSUME WorkerTypes, TakeRun
  PROVE  run' \in Seq(Entries) /\ runs' \in Nat
<1>1. PICK n \in 1 .. MaxRun : \E ms \in [1 .. n -> Messages] :
        run' = [k \in 1 .. n |-> [id |-> runs * MaxRun + k, msg |-> ms[k], filtered_ |-> FALSE]]
  BY DEF TakeRun
<1>2. PICK ms \in [1 .. n -> Messages] :
        run' = [k \in 1 .. n |-> [id |-> runs * MaxRun + k, msg |-> ms[k], filtered_ |-> FALSE]]
  BY <1>1
<1>3. n \in Nat /\ runs \in Nat /\ runs * MaxRun \in Nat /\ runs' = runs + 1
  BY Bounds DEF WorkerTypes, TakeRun
<1>4. \A k \in 1 .. n :
        [id |-> runs * MaxRun + k, msg |-> ms[k], filtered_ |-> FALSE] \in Entries
  <2> TAKE k \in 1 .. n
  <2>1. runs * MaxRun + k \in Int /\ ms[k] \in Messages
    BY <1>3
  <2> QED BY <2>1 DEF Entries
<1>5. run' \in [1 .. n -> Entries]
  BY <1>2, <1>4
<1> QED BY <1>3, <1>5, FunctionIsSeq

(* A filter of the chain is where the worker is: there is room to go on.     *)
LEMMA NextFilter ==
  ASSUME ChainTypes, WorkerTypes, NEW f, AtFilter(f)
  PROVE  pos + 1 \in 1 .. 4 /\ pos + 1 <= Len(lists[cfg]) + 1 /\ pc = "filter"
<1>1. lists[cfg] \in Seq(Filters) /\ IsInjective(lists[cfg])
  BY ElementOfSeq DEF ChainTypes, WorkerTypes
<1> QED BY <1>1, ShortChain DEF WorkerTypes, AtFilter

LEMMA WorkerStep ==
  ASSUME ChainTypes, FilterTypes, WorkerTypes, HistoryTypes, [Next]_vars
  PROVE  WorkerTypes'
<1>0. Len(lists) \in Nat
  BY LenProperties DEF ChainTypes
<1>1. CASE UNCHANGED <<worker, runs, lists>>
  BY <1>1 DEF WorkerTypes, worker
<1>2. CASE TakeRun
  <2>1. UNCHANGED <<cfg, pos, lists>> /\ pc' = "load"
    BY <1>2 DEF TakeRun, updater
  <2> QED BY <1>2, <2>1, Taking DEF WorkerTypes
<1>3. CASE LoadFilters
  <2>1. UNCHANGED <<run, runs, lists>> /\ pc' = "filter" /\ pos' = 1 /\ cfg' = Len(lists)
    BY <1>3 DEF LoadFilters, updater, Current
  <2>2. lists[Len(lists)] \in Seq(Filters) /\ cfg' \in 1 .. Len(lists)
    BY <1>0, <2>1, ElementOfSeq DEF ChainTypes
  <2>3. Len(lists[Len(lists)]) \in Nat
    BY <2>2, LenProperties
  <2> QED BY <2>1, <2>2, <2>3 DEF WorkerTypes
<1>4. CASE Dedup \/ RateLimit \/ Sample
  <2>1. \E drop \in [DOMAIN run -> BOOLEAN] : Mark(drop)
    <3>1. CASE Dedup
      BY <3>1, DedupCall
    <3>2. CASE RateLimit
      BY <3>2, RateCall
    <3>3. CASE Sample
      BY <3>3 DEF Sample
    <3> QED BY <1>4, <3>1, <3>2, <3>3
  <2>2. run' \in Seq(Entries)
    BY <2>1, Marked
  <2>3. \E f : AtFilter(f)
    BY <1>4 DEF Dedup, RateLimit, Sample
  <2>4. pos' = pos + 1 /\ UNCHANGED <<lists, cfg, pc, runs>>
    BY <1>4 DEF Dedup, RateLimit, Sample, outsideFilter, updater
  <2>5. pos + 1 \in 1 .. 4 /\ pos + 1 <= Len(lists[cfg]) + 1
    BY <2>3, NextFilter
  <2> QED BY <2>2, <2>4, <2>5 DEF WorkerTypes
<1>5. CASE EndFilters
  BY <1>5 DEF EndFilters, WorkerTypes, updater
<1>6. CASE ProcessIndividual
  <2>1. UNCHANGED <<lists, cfg, run, runs, pc>> /\ pos' = pos + 1 /\ pos \in {1, 2} /\ pc = "sinks"
    BY <1>6 DEF ProcessIndividual, outsideSinks, updater
  <2> QED BY <2>1 DEF WorkerTypes
<1>7. CASE ProcessBulk
  <2>1. UNCHANGED <<lists, cfg, run, runs, pc>> /\ pos' = pos + 1 /\ pos = 3 /\ pc = "sinks"
    BY <1>7 DEF ProcessBulk, outsideSinks, updater
  <2> QED BY <2>1 DEF WorkerTypes
<1>8. CASE ReleaseRun
  <2>1. <<>> \in Seq(Entries)
    OBVIOUS
  <2>2. UNCHANGED <<lists, cfg, runs, pos>> /\ run' = <<>> /\ pc' = "idle"
    BY <1>8 DEF ReleaseRun, updater
  <2> QED BY <2>1, <2>2 DEF WorkerTypes
<1>9. CASE AddFilter \/ RemoveFilter \/ ClearFilters
  <2>1. UNCHANGED <<worker, runs>>
    BY <1>9 DEF AddFilter, RemoveFilter, ClearFilters, Publish, outsideUpdater
  <2>2. Len(lists') = Len(lists) + 1 /\ lists'[cfg] = lists[cfg] /\ cfg \in 1 .. Len(lists')
    BY <1>0, <1>9, UpdateChain DEF WorkerTypes
  <2> QED BY <2>1, <2>2 DEF WorkerTypes, worker
<1>10. CASE Tick \/ FlushUpdate \/ ShutdownFilters \/ DeleteFilters
  BY <1>1, <1>10 DEF Tick, FlushUpdate, ShutdownFilters, DeleteFilters, outsideUpdater, updater
<1>11. CASE UNCHANGED vars
  BY <1>1, <1>11 DEF vars, updater
<1> QED BY <1>2, <1>3, <1>4, <1>5, <1>6, <1>7, <1>8, <1>9, <1>10, <1>11 DEF Next

LEMMA InUseStep ==
  ASSUME ChainTypes, WorkerTypes, HistoryTypes, InUse, [Next]_vars
  PROVE  InUse'
<1>0. Len(lists) \in Nat
  BY LenProperties DEF ChainTypes
<1>1. CASE UNCHANGED <<pc, gaveUp, cfg, deleted, upc, old>>
  BY <1>1 DEF InUse
<1>2. CASE TakeRun \/ EndFilters \/ ReleaseRun
  BY <1>2 DEF TakeRun, EndFilters, ReleaseRun, InUse
<1>3. CASE LoadFilters
  <2>1. cfg' = Len(lists) /\ UNCHANGED <<deleted, upc, old>>
    BY <1>3 DEF LoadFilters, updater, Current
  <2>2. Len(lists) \notin deleted /\ (upc # "idle" => Len(lists) # old)
    BY <1>0 DEF ChainTypes
  <2> QED BY <2>1, <2>2 DEF InUse
<1>4. CASE AddFilter \/ RemoveFilter \/ ClearFilters
  <2>1. UNCHANGED <<pc, cfg, gaveUp, deleted>> /\ upc' = "flush"
    BY <1>4 DEF AddFilter, RemoveFilter, ClearFilters, Publish, outsideUpdater, worker
  <2> QED BY <2>1 DEF InUse
<1>5. CASE FlushUpdate
  <2>1. UNCHANGED <<pc, cfg, old, deleted>> /\ (pc = "idle" \/ gaveUp' = TRUE)
    BY <1>5 DEF FlushUpdate, outsideUpdater, worker
  <2> QED BY <2>1 DEF InUse
<1>6. CASE ShutdownFilters
  <2>1. UNCHANGED <<pc, cfg, gaveUp, old, deleted>> /\ upc = "shutdown"
    BY <1>6 DEF ShutdownFilters, outsideUpdater, worker
  <2> QED BY <2>1 DEF InUse
<1>7. CASE DeleteFilters
  <2>1. /\ UNCHANGED <<pc, cfg, gaveUp, old>> /\ upc = "delete" /\ upc' = "idle"
        /\ deleted' = deleted \cup {old}
    BY <1>7 DEF DeleteFilters, outsideUpdater, worker
  <2> QED BY <2>1 DEF InUse
<1>8. CASE Tick \/ Dedup \/ RateLimit \/ Sample \/ ProcessIndividual \/ ProcessBulk
  BY <1>1, <1>8 DEF Tick, Dedup, RateLimit, Sample, ProcessIndividual, ProcessBulk,
       outsideFilter, outsideSinks, updater, worker
<1>9. CASE UNCHANGED vars
  BY <1>1, <1>9 DEF vars, updater, worker
<1> QED BY <1>2, <1>3, <1>4, <1>5, <1>6, <1>7, <1>8, <1>9 DEF Next

LEMMA TypesStep ==
  ASSUME Types, [Next]_vars
  PROVE  Types'
  BY ChainStep, FilterStep, WorkerStep, HistoryStep, InUseStep DEF Types

LEMMA TypesMean ==
  ASSUME Types
  PROVE  FiltersAlive
<1>1. /\ DOMAIN lists = 1 .. Len(lists) /\ Len(lists) \in Nat
      /\ \A c \in 1 .. Len(lists) : lists[c] \in Seq(Filters)
  BY ElementOfSeq, LenProperties DEF Types, ChainTypes
<1>2. \A c \in DOMAIN lists : ToSet(lists[c]) \subseteq Filters /\ IsInjective(lists[c])
  <2> TAKE c \in DOMAIN lists
  <2>1. \A i \in DOMAIN lists[c] : lists[c][i] \in Filters
    BY <1>1, ElementOfSeq, LenProperties
  <2> QED BY <1>1, <2>1 DEF ToSet, Types, ChainTypes
<1>3. /\ deleted \subseteq DOMAIN lists /\ {cfg, old} \subseteq DOMAIN lists
      /\ upc \in {"idle", "flush", "shutdown", "delete"}
      /\ pc \in {"idle", "load", "filter", "sinks"} /\ pos \in 1 .. 4
  <2>1. deleted \subseteq DOMAIN lists
    <3>1. 1 .. Len(lists) - 1 \subseteq DOMAIN lists
      BY <1>1
    <3> QED BY <3>1 DEF Types, ChainTypes
  <2>2. {cfg, old} \subseteq DOMAIN lists
    BY <1>1 DEF Types, ChainTypes, WorkerTypes
  <2> QED BY <2>1, <2>2 DEF Types, ChainTypes, WorkerTypes
<1>4. /\ now \in 0 .. MaxTime
      /\ seen_messages_ \in [Texts -> {Never} \cup (0 .. now)]
      /\ {last_cleanup_, last_refill_} \subseteq 0 .. now
      /\ tokens \in 0 .. Rate * Second
  BY DEF Types, FilterTypes
<1>5. SinksTypeOK
  BY <1>2, <1>3, <1>4 DEF SinksTypeOK
<1> QED BY <1>5 DEF FiltersAlive, Types, InUse

-----------------------------------------------------------------------------
(* Duplicates *)

LEMMA ShownAt ==
  ASSUME HistoryTypes
  PROVE  /\ Len(shown) \in Nat /\ DOMAIN shown = 1 .. Len(shown)
         /\ \A i \in 1 .. Len(shown) : shown[i] \in Shown
  BY ElementOfSeq, LenProperties DEF HistoryTypes

(* What one call of dedup_filter does to what was shown.                     *)
LEMMA ShownThen ==
  ASSUME FilterTypes, WorkerTypes, HistoryTypes, Dedup
  PROVE  LET n == Len(shown)
         IN /\ n \in Nat /\ Len(run) \in Nat
            /\ Len(shown') = n + Len(run) /\ DOMAIN shown' = 1 .. n + Len(run)
            /\ \A i \in 1 .. n : shown'[i] = shown[i]
            /\ \A k \in 1 .. Len(run) : /\ shown'[n + k].key = Text(k)
                                        /\ shown'[n + k].at = now
                                        /\ shown'[n + k].dropped = Dropped(k)
<1> DEFINE n == Len(shown)
<1>1. shown \in Seq(Shown) /\ ShownNow \in Seq(Shown) /\ Len(ShownNow) = Len(run)
      /\ shown' = shown \o ShownNow
  BY DedupCall DEF HistoryTypes
<1>2. /\ n \in Nat /\ Len(run) \in Nat
      /\ Len(shown') = n + Len(run) /\ DOMAIN shown' = 1 .. n + Len(run)
      /\ \A i \in 1 .. n : shown'[i] = shown[i]
      /\ \A k \in 1 .. Len(run) : shown'[n + k] = ShownNow[k]
  <2>1. \A x, y \in Seq(Shown) :
          /\ Len(x) \in Nat /\ Len(y) \in Nat
          /\ Len(x \o y) = Len(x) + Len(y) /\ DOMAIN (x \o y) = 1 .. Len(x) + Len(y)
          /\ \A i \in 1 .. Len(x) : (x \o y)[i] = x[i]
          /\ \A k \in 1 .. Len(y) : (x \o y)[Len(x) + k] = y[k]
    BY Joined
  <2> QED BY <1>1, <2>1, Zenon
<1>3. \A k \in 1 .. Len(run) : /\ ShownNow[k].key = Text(k) /\ ShownNow[k].at = now
                               /\ ShownNow[k].dropped = Dropped(k)
  BY DEF ShownNow
<1> QED BY <1>2, <1>3

(* A text is known exactly if it was shown inside the window.                *)
LEMMA KnownExact ==
  ASSUME FilterTypes, HistoryTypes, Remembered, NEW t \in Texts
  PROVE  Known(t) <=> \E i \in 1 .. Len(shown) : shown[i].key = t /\ now - shown[i].at < Window
<1> DEFINE s == seen_messages_[t]
           c == CleanedUp[t]
<1>1. /\ s \in {Never} \cup (0 .. now) /\ now \in Nat /\ Window \in Nat
      /\ c = s \/ (c = Never /\ s < now - Window)
  BY CleanedUpType, Bounds DEF FilterTypes
<1>2. ASSUME Known(t)
      PROVE  \E i \in 1 .. Len(shown) : shown[i].key = t /\ now - shown[i].at < Window
  <2>1. c # Never /\ now - c < Window /\ c = s
    BY <1>1, <1>2 DEF Known
  <2>2. PICK i \in 1 .. Len(shown) : shown[i].key = t /\ shown[i].at = s
    BY <2>1 DEF Remembered
  <2> QED BY <2>1, <2>2
<1>3. ASSUME NEW i \in 1 .. Len(shown), shown[i].key = t, now - shown[i].at < Window
      PROVE  Known(t)
  <2>1. shown[i].at \in Nat
    BY ShownAt DEF Shown
  <2>2. shown[i].at <= s
    BY <1>1, <1>3, <2>1 DEF Remembered
  <2>3. s \in 0 .. now /\ now - s < Window /\ ~(s < now - Window)
    BY <1>1, <1>3, <2>1, <2>2 DEF Never
  <2>4. c = s
    BY <1>1, <2>3
  <2> QED BY <1>1, <2>3, <2>4 DEF Known, Never
<1> QED BY <1>2, <1>3

LEMMA RememberedDedup ==
  ASSUME FilterTypes, WorkerTypes, HistoryTypes, Remembered, Dedup
  PROVE  Remembered'
<1> DEFINE n == Len(shown)
           L == Len(run)
           given(t) == \E k \in 1 .. L : Text(k) = t
<1>1. /\ n \in Nat /\ L \in Nat /\ Len(shown') = n + L
      /\ \A i \in 1 .. n : shown'[i] = shown[i]
      /\ \A k \in 1 .. L : shown'[n + k].key = Text(k) /\ shown'[n + k].at = now
  BY ShownThen
<1>2. /\ \A t \in Texts : seen_messages_'[t] = IF given(t) THEN now ELSE CleanedUp[t]
      /\ now' = now
  BY DedupCall
<1>3. now \in Nat /\ Window \in Nat
  BY Bounds DEF FilterTypes
<1>4. \A i \in 1 .. n : shown[i].key \in Texts /\ shown[i].at \in Nat
  BY ShownAt DEF Shown
<1>5. \A k \in 1 .. L : Text(k) \in Texts
  BY RunLength DEF Text
<1>6. ASSUME NEW t \in Texts, seen_messages_'[t] # Never
      PROVE  \E i \in 1 .. n + L : shown'[i].key = t /\ shown'[i].at = seen_messages_'[t]
  <2>1. CASE given(t)
    <3>1. PICK k \in 1 .. L : Text(k) = t
      BY <2>1
    <3>2. n + k \in 1 .. n + L
      BY <1>1
    <3> QED BY <1>1, <1>2, <2>1, <3>1, <3>2
  <2>2. CASE ~given(t)
    <3>1. seen_messages_'[t] = seen_messages_[t] /\ seen_messages_[t] # Never
      BY <1>2, <1>6, <2>2, CleanedUpType
    <3>2. PICK i \in 1 .. n : shown[i].key = t /\ shown[i].at = seen_messages_[t]
      BY <3>1 DEF Remembered
    <3>3. i \in 1 .. n + L
      BY <1>1
    <3> QED BY <1>1, <3>1, <3>2, <3>3
  <2> QED BY <2>1, <2>2
<1>7. ASSUME NEW i \in 1 .. n + L
      PROVE  shown'[i].at <= seen_messages_'[shown'[i].key] \/ shown'[i].at < now - Window
  <2>1. CASE i \in 1 .. n
    <3> DEFINE t == shown[i].key
    <3>1. t \in Texts /\ shown'[i] = shown[i] /\ shown[i].at \in Nat
      BY <1>1, <1>4, <2>1
    <3>2. shown[i].at <= seen_messages_[t] \/ shown[i].at < now - Window
      BY <2>1 DEF Remembered
    <3>3. /\ seen_messages_[t] \in {Never} \cup (0 .. now)
          /\ \/ CleanedUp[t] = seen_messages_[t]
             \/ seen_messages_[t] < now - Window
      BY <3>1, CleanedUpType DEF FilterTypes
    <3>4. seen_messages_'[t] = now \/ seen_messages_'[t] = CleanedUp[t]
      BY <1>2, <3>1
    <3>5. shown[i].at <= now \/ shown[i].at < now - Window
      BY <1>3, <3>1, <3>2, <3>3 DEF Never
    <3> HIDE DEF t
    <3>6. shown[i].at <= seen_messages_'[t] \/ shown[i].at < now - Window
      BY <1>3, <3>1, <3>2, <3>3, <3>4, <3>5 DEF Never
    <3> QED BY <3>1, <3>6 DEF t
  <2>2. CASE ~(i \in 1 .. n)
    <3>1. i - n \in 1 .. L /\ n + (i - n) = i
      BY <1>1, <2>2
    <3>2. shown'[i].key = Text(i - n) /\ shown'[i].at = now /\ Text(i - n) \in Texts
      BY <1>1, <1>5, <3>1
    <3>3. seen_messages_'[Text(i - n)] = now
      BY <1>2, <3>1, <3>2
    <3> QED BY <1>3, <3>2, <3>3
  <2> QED BY <2>1, <2>2
<1> QED BY <1>1, <1>2, <1>6, <1>7 DEF Remembered

LEMMA DuplicatesDedup ==
  ASSUME FilterTypes, WorkerTypes, HistoryTypes, Remembered, DuplicatesExact, Dedup
  PROVE  DuplicatesExact'
<1> DEFINE n == Len(shown)
           L == Len(run)
<1>1. /\ n \in Nat /\ L \in Nat /\ DOMAIN shown' = 1 .. n + L /\ DOMAIN shown = 1 .. n
      /\ \A i \in 1 .. n : shown'[i] = shown[i]
      /\ \A k \in 1 .. L : /\ shown'[n + k].key = Text(k) /\ shown'[n + k].at = now
                           /\ shown'[n + k].dropped = Dropped(k)
  BY ShownThen, ShownAt
<1>2. now \in Nat /\ Window \in Nat \ {0}
  BY Bounds DEF FilterTypes
<1>3. ASSUME NEW j \in 1 .. n + L
      PROVE  shown'[j].dropped <=> \E i \in 1 .. j - 1 : /\ shown'[i].key = shown'[j].key
                                                         /\ shown'[j].at - shown'[i].at < Window
  <2>1. CASE j \in 1 .. n
    <3>1. \A i \in 1 .. j - 1 : shown'[i] = shown[i]
      BY <1>1, <2>1
    <3>2. shown'[j] = shown[j] /\ j \in DOMAIN shown
      BY <1>1, <2>1
    <3>3. shown[j].dropped <=> \E i \in 1 .. j - 1 : /\ shown[i].key = shown[j].key
                                                     /\ shown[j].at - shown[i].at < Window
      BY <3>2 DEF DuplicatesExact
    <3> QED BY <3>1, <3>2, <3>3
  <2>2. CASE ~(j \in 1 .. n)
    <3> DEFINE k == j - n
    <3>1. k \in 1 .. L /\ n + k = j
      BY <1>1, <2>2
    <3>2. /\ shown'[j].key = Text(k) /\ shown'[j].at = now /\ shown'[j].dropped = Dropped(k)
          /\ Text(k) \in Texts
      BY <1>1, <3>1, RunLength DEF Text
    <3> HIDE DEF k
    <3>3. ASSUME Dropped(k)
          PROVE  \E i \in 1 .. j - 1 : shown'[i].key = Text(k) /\ now - shown'[i].at < Window
      <4>1. CASE Known(Text(k))
        <5>1. PICK i \in 1 .. n : shown[i].key = Text(k) /\ now - shown[i].at < Window
          BY <3>2, <4>1, KnownExact
        <5>2. i \in 1 .. j - 1
          BY <1>1, <3>1
        <5> QED BY <1>1, <5>1, <5>2
      <4>2. CASE \E m \in 1 .. k - 1 : Text(m) = Text(k)
        <5>1. PICK m \in 1 .. k - 1 : Text(m) = Text(k)
          BY <4>2
        <5>2. n + m \in 1 .. j - 1 /\ m \in 1 .. L
          BY <1>1, <3>1
        <5>3. shown'[n + m].key = Text(k) /\ now - shown'[n + m].at < Window
          BY <1>1, <1>2, <5>1, <5>2
        <5> QED BY <5>2, <5>3
      <4> QED BY <3>3, <4>1, <4>2 DEF Dropped
    <3>4. ASSUME NEW i \in 1 .. j - 1, shown'[i].key = Text(k), now - shown'[i].at < Window
          PROVE  Dropped(k)
      <4>1. CASE i \in 1 .. n
        <5>1. Known(Text(k))
          BY <1>1, <3>2, <3>4, <4>1, KnownExact
        <5> QED BY <5>1 DEF Dropped
      <4>2. CASE ~(i \in 1 .. n)
        <5>1. i - n \in 1 .. k - 1 /\ i - n \in 1 .. L /\ n + (i - n) = i
          BY <1>1, <3>1, <4>2
        <5>2. Text(i - n) = Text(k)
          BY <1>1, <3>4, <5>1
        <5> QED BY <5>1, <5>2 DEF Dropped
      <4> QED BY <4>1, <4>2
    <3> QED BY <3>2, <3>3, <3>4
  <2> QED BY <2>1, <2>2
<1> QED BY <1>1, <1>3 DEF DuplicatesExact

LEMMA DuplicatesStep ==
  ASSUME FilterTypes, WorkerTypes, HistoryTypes, Remembered, DuplicatesExact, [Next]_vars
  PROVE  Remembered' /\ DuplicatesExact'
<1>1. CASE UNCHANGED <<now, seen_messages_, shown>>
  BY <1>1 DEF Remembered, DuplicatesExact
<1>2. CASE Tick
  <2>1. now' = now + 1 /\ UNCHANGED <<seen_messages_, shown>>
    BY <1>2 DEF Tick, filterState, history
  <2>2. now \in Nat /\ Window \in Nat
    BY Bounds DEF FilterTypes
  <2>3. \A i \in 1 .. Len(shown) : shown[i].at < now - Window => shown[i].at < now' - Window
    <3>1. \A i \in 1 .. Len(shown) : shown[i].at \in Nat
      BY ShownAt DEF Shown
    <3> QED BY <2>1, <2>2, <3>1
  <2>4. Remembered'
    BY <2>1, <2>3 DEF Remembered
  <2>5. DuplicatesExact'
    BY <2>1 DEF DuplicatesExact
  <2> QED BY <2>4, <2>5
<1>3. CASE Dedup
  BY <1>3, RememberedDedup, DuplicatesDedup
<1>4. CASE ShutdownFilters
  <2>1. CASE "dedup" \in ToSet(lists[old])
    <3>1. now' = now /\ seen_messages_' = [t \in Texts |-> Never] /\ shown' = <<>>
      BY <1>4, <2>1 DEF ShutdownFilters, outsideUpdater
    <3>2. Len(<<>>) = 0 /\ DOMAIN <<>> = {}
      OBVIOUS
    <3>3. Remembered'
      BY <3>1, <3>2 DEF Remembered
    <3>4. DuplicatesExact'
      BY <3>1, <3>2 DEF DuplicatesExact
    <3> QED BY <3>3, <3>4
  <2>2. CASE ~("dedup" \in ToSet(lists[old]))
    BY <1>1, <1>4, <2>2 DEF ShutdownFilters, outsideUpdater
  <2> QED BY <2>1, <2>2
<1>5. CASE TakeRun \/ LoadFilters \/ RateLimit \/ Sample \/ EndFilters \/ ProcessIndividual
           \/ ProcessBulk \/ ReleaseRun \/ AddFilter \/ RemoveFilter \/ ClearFilters
           \/ FlushUpdate \/ DeleteFilters
  BY <1>1, <1>5 DEF TakeRun, LoadFilters, RateLimit, Sample, EndFilters, ProcessIndividual,
       ProcessBulk, ReleaseRun, AddFilter, RemoveFilter, ClearFilters, Publish, FlushUpdate,
       DeleteFilters, outsideFilter, outsideSinks, outsideUpdater, filterState, history
<1>6. CASE UNCHANGED vars
  BY <1>1, <1>6 DEF vars, filterState, history
<1> QED BY <1>2, <1>3, <1>4, <1>5, <1>6 DEF Next

-----------------------------------------------------------------------------
(* The rate limit *)

LEMMA PassedFinite ==
  ASSUME NEW s, NEW i \in Int, NEW j \in Int
  PROVE  /\ IsFiniteSet({k \in i .. j : ~s[k].dropped}) /\ PassedOf(s, i, j) \in Nat
         /\ (i > j => PassedOf(s, i, j) = 0)
<1> DEFINE P == {k \in i .. j : ~s[k].dropped}
<1>1. IsFiniteSet(i .. j) /\ P \in SUBSET (i .. j)
  BY FS_Interval
<1>2. IsFiniteSet(P)
  BY <1>1, FS_Subset
<1>3. Cardinality(P) \in Nat
  BY <1>2, FS_CardinalityType
<1>4. i > j => Cardinality(P) = 0
  <2>1. i > j => P = {}
    OBVIOUS
  <2> QED BY <2>1, FS_EmptySet
<1> QED BY <1>2, <1>3, <1>4 DEF PassedOf

LEMMA PassedSame ==
  ASSUME NEW s, NEW t, NEW i, NEW j, \A k \in i .. j : s[k] = t[k]
  PROVE  PassedOf(s, i, j) = PassedOf(t, i, j)
<1>1. {k \in i .. j : ~s[k].dropped} = {k \in i .. j : ~t[k].dropped}
  OBVIOUS
<1> QED BY <1>1 DEF PassedOf

(* Of the m messages after j, the first p passed and the others did not.     *)
FirstPassed(s, j, m, p) == \A k \in 1 .. m : (s[j + k].dropped <=> k > p)
Fewer(m, p) == IF m < p THEN m ELSE p

LEMMA PassedPrefix ==
  ASSUME NEW s, NEW i \in Int, NEW j \in Int, i <= j + 1, NEW m \in Nat, NEW p \in Nat,
         FirstPassed(s, j, m, p)
  PROVE  PassedOf(s, i, j + m) = PassedOf(s, i, j) + Fewer(m, p)
<1> DEFINE q == Fewer(m, p)
           A == {k \in i .. j : ~s[k].dropped}
           B == j + 1 .. j + q
           C == {k \in i .. j + m : ~s[k].dropped}
<1>1. q \in Nat /\ q <= m /\ q <= p /\ (m <= q \/ q = p)
  BY DEF Fewer
<1> HIDE DEF q
<1>2. C = A \cup B
  <2>1. ASSUME NEW k \in C PROVE k \in A \cup B
    <3>1. CASE k <= j
      BY <3>1
    <3>2. CASE k > j
      <4>1. k \in Int /\ k - j \in 1 .. m /\ j + (k - j) = k
        BY <3>2
      <4>2. ~(k - j > p)
        BY <4>1 DEF FirstPassed
      <4>3. k - j <= q
        BY <1>1, <4>1, <4>2
      <4>4. k \in B
        BY <1>1, <4>1, <4>3
      <4> QED BY <4>4
    <3> QED BY <3>1, <3>2
  <2>2. ASSUME NEW k \in A PROVE k \in C
    OBVIOUS
  <2>3. ASSUME NEW k \in B PROVE k \in C
    <3>1. k \in Int /\ k - j \in 1 .. q /\ j + (k - j) = k
      BY <1>1
    <3>2. k - j \in 1 .. m /\ ~(k - j > p)
      BY <1>1, <3>1
    <3>3. ~s[k].dropped
      BY <3>1, <3>2 DEF FirstPassed
    <3> QED BY <1>1, <3>1, <3>2, <3>3
  <2> QED BY <2>1, <2>2, <2>3
<1>3. A \cap B = {}
  BY <1>1
<1>4. IsFiniteSet(A) /\ Cardinality(A) = PassedOf(s, i, j) /\ PassedOf(s, i, j) \in Nat
  BY PassedFinite DEF PassedOf
<1>5. IsFiniteSet(B) /\ Cardinality(B) = q
  <2>1. j + 1 \in Int /\ j + q \in Int
        /\ (IF j + 1 > j + q THEN 0 ELSE (j + q) - (j + 1) + 1) = q
    BY <1>1
  <2> QED BY <2>1, FS_Interval
<1>6. Cardinality(C) = Cardinality(A) + Cardinality(B) - Cardinality(A \cap B)
  BY <1>2, <1>4, <1>5, FS_Union
<1>7. Cardinality(A \cap B) = 0
  BY <1>3, FS_EmptySet
<1> HIDE DEF A, B, q
<1>8. Cardinality(C) = PassedOf(s, i, j) + q
  BY <1>1, <1>4, <1>5, <1>6, <1>7
<1> QED BY <1>8 DEF PassedOf, q

LEMMA PassedFewer ==
  ASSUME NEW s, NEW i \in Int, NEW h \in Int, NEW j \in Int, i <= h
  PROVE  PassedOf(s, h, j) <= PassedOf(s, i, j)
<1> DEFINE P == {k \in i .. j : ~s[k].dropped}
           Q == {k \in h .. j : ~s[k].dropped}
<1>1. Q \in SUBSET P
  OBVIOUS
<1> QED BY <1>1, PassedFinite, FS_Subset DEF PassedOf

LEMMA LimitedThen ==
  ASSUME FilterTypes, WorkerTypes, HistoryTypes, RateLimit
  PROVE  LET n == Len(limited)
         IN /\ n \in Nat /\ Len(run) \in Nat /\ DOMAIN limited = 1 .. n
            /\ \A i \in 1 .. n : limited[i].at \in Nat
            /\ Len(limited') = n + Len(run) /\ DOMAIN limited' = 1 .. n + Len(run)
            /\ \A i \in 1 .. n : limited'[i] = limited[i]
            /\ \A k \in 1 .. Len(run) : /\ limited'[n + k].at = now
                                        /\ limited'[n + k].dropped = (k > Payable)
<1> DEFINE n == Len(limited)
<1>1. limited \in Seq(Limited) /\ LimitedNow \in Seq(Limited) /\ Len(LimitedNow) = Len(run)
      /\ limited' = limited \o LimitedNow
  BY RateCall DEF HistoryTypes
<1>2. /\ n \in Nat /\ Len(run) \in Nat /\ DOMAIN limited = 1 .. n
      /\ Len(limited') = n + Len(run) /\ DOMAIN limited' = 1 .. n + Len(run)
      /\ \A i \in 1 .. n : limited'[i] = limited[i]
      /\ \A k \in 1 .. Len(run) : limited'[n + k] = LimitedNow[k]
  <2>1. \A x, y \in Seq(Limited) :
          /\ Len(x) \in Nat /\ Len(y) \in Nat /\ DOMAIN x = 1 .. Len(x)
          /\ Len(x \o y) = Len(x) + Len(y) /\ DOMAIN (x \o y) = 1 .. Len(x) + Len(y)
          /\ \A i \in 1 .. Len(x) : (x \o y)[i] = x[i]
          /\ \A k \in 1 .. Len(y) : (x \o y)[Len(x) + k] = y[k]
    BY Joined
  <2> QED BY <1>1, <2>1, Zenon
<1>3. \A k \in 1 .. Len(run) : LimitedNow[k].at = now /\ LimitedNow[k].dropped = (k > Payable)
  BY DEF LimitedNow
<1>4. \A i \in 1 .. n : limited[i].at \in Nat
  <2>1. \A i \in 1 .. n : limited[i] \in Limited
    BY <1>1, ElementOfSeq
  <2> QED BY <2>1 DEF Limited
<1> QED BY <1>2, <1>3, <1>4

LEMMA Distribute ==
  ASSUME NEW r \in Int, NEW a \in Int, NEW b \in Int, NEW c \in Int
  PROVE  /\ r * (a - c) = r * (b - c) + r * (a - b)
         /\ r * (a - c) \in Int /\ r * (b - c) \in Int /\ r * (a - b) \in Int
  OBVIOUS

(* What is left at this moment, not at the last refill.                      *)
LeftNow(i) ==
    Rate * Second + Rate * (now - limited[i].at) - Second * PassedOf(limited, i, Len(limited))

LEMMA LimitedAt ==
  ASSUME HistoryTypes
  PROVE  /\ Len(limited) \in Nat /\ DOMAIN limited = 1 .. Len(limited)
         /\ \A i \in 1 .. Len(limited) : limited[i] \in Limited /\ limited[i].at \in Nat
<1>1. /\ Len(limited) \in Nat /\ DOMAIN limited = 1 .. Len(limited)
      /\ \A i \in 1 .. Len(limited) : limited[i] \in Limited
  BY ElementOfSeq, LenProperties DEF HistoryTypes
<1> QED BY <1>1 DEF Limited

LEMMA LeftGrows ==
  ASSUME FilterTypes, HistoryTypes, NEW i \in 1 .. Len(limited)
  PROVE  /\ LeftNow(i) = Left(i) + Rate * (now - last_refill_)
         /\ LeftNow(i) \in Int /\ Left(i) \in Int
<1> DEFINE at == limited[i].at
           c == PassedOf(limited, i, Len(limited))
<1>1. /\ at \in Int /\ now \in Int /\ last_refill_ \in Int /\ Rate \in Int /\ Second \in Int
      /\ Rate * Second \in Int
  BY LimitedAt, Bounds DEF FilterTypes
<1>2. c \in Int
  <2>1. i \in Int /\ Len(limited) \in Int
    BY LimitedAt
  <2>2. c \in Nat
    BY <2>1, PassedFinite, Zenon
  <2> QED BY <2>2
<1> HIDE DEF at, c
<1>3. /\ Rate * (now - at) = Rate * (last_refill_ - at) + Rate * (now - last_refill_)
      /\ Rate * (now - at) \in Int /\ Rate * (last_refill_ - at) \in Int
      /\ Rate * (now - last_refill_) \in Int
  BY <1>1, Distribute
<1>4. Second * c \in Int
  BY <1>1, <1>2
<1>5. /\ LeftNow(i) = Rate * Second + Rate * (now - at) - Second * c
      /\ Left(i) = Rate * Second + Rate * (last_refill_ - at) - Second * c
  BY DEF LeftNow, Left, at, c
<1> QED BY <1>1, <1>3, <1>4, <1>5

LEMMA BalancedNow ==
  ASSUME FilterTypes, HistoryTypes, Balanced
  PROVE  /\ \A i \in 1 .. Len(limited) : Refilled <= LeftNow(i)
         /\ Refilled = Rate * Second \/ \E i \in 1 .. Len(limited) : Refilled = LeftNow(i)
<1> DEFINE gain == Rate * (now - last_refill_)
<1>1. /\ Refilled \in 0 .. Rate * Second /\ tokens + gain \in Nat /\ Refilled <= tokens + gain
      /\ Refilled = Rate * Second \/ Refilled = tokens + gain
  BY Refills
<1>2. tokens \in 0 .. Rate * Second /\ Rate * Second \in Nat /\ gain \in Nat
  <2>1. now - last_refill_ \in Nat
    BY Bounds DEF FilterTypes
  <2> QED BY <2>1, Bounds DEF FilterTypes
<1>3. \A i \in 1 .. Len(limited) :
        LeftNow(i) = Left(i) + gain /\ LeftNow(i) \in Int /\ Left(i) \in Int
  BY LeftGrows
<1> HIDE DEF gain
<1>4. ASSUME NEW i \in 1 .. Len(limited) PROVE Refilled <= LeftNow(i)
  <2>1. tokens <= Left(i)
    BY DEF Balanced
  <2> QED BY <1>1, <1>2, <1>3, <2>1
<1>5. CASE tokens = Rate * Second
  <2>1. Refilled = Rate * Second
    BY <1>1, <1>2, <1>5
  <2> QED BY <1>4, <2>1
<1>6. CASE \E i \in 1 .. Len(limited) : tokens = Left(i)
  <2>1. PICK i \in 1 .. Len(limited) : tokens = Left(i)
    BY <1>6
  <2>2. tokens + gain = LeftNow(i)
    BY <1>3, <2>1
  <2> QED BY <1>1, <1>4, <2>2
<1> QED BY <1>5, <1>6 DEF Balanced

(* How many passed, from any message on, up to the m-th of the run.          *)
LEMMA Counts ==
  ASSUME FilterTypes, WorkerTypes, HistoryTypes, RateLimit, Payable \in Nat,
         NEW m \in 0 .. Len(run)
  PROVE  LET n == Len(limited)
             q == Fewer(m, Payable)
         IN /\ \A i \in 1 .. n : PassedOf(limited', i, n + m) = PassedOf(limited, i, n) + q
            /\ PassedOf(limited', n + 1, n + m) = q
            /\ \A i \in n + 1 .. n + Len(run) : /\ PassedOf(limited', i, n + m) \in Nat
                                                /\ PassedOf(limited', i, n + m) <= q
<1> DEFINE n == Len(limited)
           q == Fewer(m, Payable)
<1>1. /\ n \in Nat /\ Len(run) \in Nat /\ m \in Nat
      /\ \A i \in 1 .. n : limited'[i] = limited[i]
      /\ FirstPassed(limited', n, m, Payable)
  <2>1. Len(run) \in Nat
    BY LimitedThen
  <2>2. m \in Nat /\ 1 .. m \subseteq 1 .. Len(run)
    BY <2>1
  <2>3. \A k \in 1 .. m : limited'[n + k].dropped = (k > Payable)
    BY <2>2, LimitedThen
  <2> QED BY <2>1, <2>2, <2>3, LimitedThen DEF FirstPassed
<1>2. \A i \in 1 .. n + 1 : PassedOf(limited', i, n + m) = PassedOf(limited', i, n) + q
  <2> TAKE i \in 1 .. n + 1
  <2>1. i \in Int /\ n \in Int /\ i <= n + 1
    BY <1>1
  <2> QED BY <1>1, <2>1, PassedPrefix
<1>3. \A i \in 1 .. n : PassedOf(limited', i, n) = PassedOf(limited, i, n)
  <2> TAKE i \in 1 .. n
  <2>1. \A k \in i .. n : limited'[k] = limited[k]
    BY <1>1
  <2> QED BY <2>1, PassedSame
<1>4. \A i \in 1 .. n : PassedOf(limited', i, n + m) = PassedOf(limited, i, n) + q
  <2> TAKE i \in 1 .. n
  <2>1. i \in 1 .. n + 1
    BY <1>1
  <2> QED BY <1>2, <1>3, <2>1
<1>5. PassedOf(limited', n + 1, n + m) = q
  <2>1. PassedOf(limited', n + 1, n) = 0
    <3>1. n + 1 \in Int /\ n \in Int /\ n + 1 > n
      BY <1>1
    <3> QED BY <3>1, PassedFinite, Zenon
  <2>2. n + 1 \in 1 .. n + 1 /\ q \in Nat
    BY <1>1 DEF Fewer
  <2>3. PassedOf(limited', n + 1, n + m) = PassedOf(limited', n + 1, n) + q
    BY <1>2, <2>2
  <2> QED BY <2>1, <2>2, <2>3
<1>6. ASSUME NEW i \in n + 1 .. n + Len(run)
      PROVE  PassedOf(limited', i, n + m) \in Nat /\ PassedOf(limited', i, n + m) <= q
  <2>1. n + 1 \in Int /\ i \in Int /\ n + m \in Int /\ n + 1 <= i
    BY <1>1
  <2>2. PassedOf(limited', i, n + m) <= PassedOf(limited', n + 1, n + m)
    BY <2>1, PassedFewer
  <2> QED BY <1>5, <2>1, <2>2, PassedFinite
<1> QED BY <1>4, <1>5, <1>6

LEMMA BalancedRate ==
  ASSUME FilterTypes, WorkerTypes, HistoryTypes, Balanced, RateLimit
  PROVE  Balanced'
<1> DEFINE n == Len(limited)
           L == Len(run)
           F == Refilled
           cap == Rate * Second
           q == IF Payable < L THEN Payable ELSE L
           C(i) == PassedOf(limited', i, n + L)
<1>1. /\ n \in Nat /\ L \in Nat /\ Len(limited') = n + L
      /\ \A i \in 1 .. n : limited'[i] = limited[i] /\ limited[i].at \in Nat
      /\ \A k \in 1 .. L : limited'[n + k].at = now
  BY LimitedThen
<1>2. /\ now \in Nat /\ cap \in Nat /\ Rate \in Nat /\ Second \in Nat /\ F \in 0 .. cap
      /\ F \in Nat
  BY Refills, Bounds DEF FilterTypes
<1>3. Payable \in Nat /\ q \in Nat /\ q <= L
  BY <1>1, <1>2, Pays DEF Payable
<1>4. tokens' = F - Second * q /\ last_refill_' = now
  BY RateCall DEF Paid
<1>5. L \in 0 .. Len(run) /\ Fewer(L, Payable) = q
  BY <1>1, <1>3 DEF Fewer
<1>6. /\ \A i \in 1 .. n : C(i) = PassedOf(limited, i, n) + q
      /\ C(n + 1) = q
      /\ \A i \in n + 1 .. n + L : C(i) \in Nat /\ C(i) <= q
  BY <1>3, <1>5, Counts
<1>7. \A i \in 1 .. n + L : Left(i)' = cap + Rate * (now - limited'[i].at) - Second * C(i)
  BY <1>1, <1>4 DEF Left
<1>8. \A i \in 1 .. n : LeftNow(i) = cap + Rate * (now - limited[i].at) - Second * PassedOf(limited, i, n)
  BY DEF LeftNow
<1> HIDE DEF n, L, F, cap, q, C
<1>9. ASSUME NEW i \in 1 .. n PROVE Left(i)' = LeftNow(i) - Second * q /\ LeftNow(i) \in Int
  <2>1. i \in 1 .. n + L /\ i \in Int /\ n \in Int
    BY <1>1
  <2>2. PassedOf(limited, i, n) \in Nat
    BY <2>1, PassedFinite
  <2>3. Second * C(i) = Second * PassedOf(limited, i, n) + Second * q
    BY <1>2, <1>3, <1>6, <2>2
  <2>4. /\ Rate * (now - limited[i].at) \in Int /\ Second * PassedOf(limited, i, n) \in Int
        /\ Second * q \in Int
    BY <1>1, <1>2, <1>3, <2>2
  <2>5. limited'[i].at = limited[i].at
    BY <1>1
  <2>6. Left(i)' = cap + Rate * (now - limited[i].at) - Second * C(i)
    BY <1>7, <2>1, <2>5
  <2>7. LeftNow(i) = cap + Rate * (now - limited[i].at) - Second * PassedOf(limited, i, n)
    BY <1>8
  <2> QED BY <1>2, <2>3, <2>4, <2>6, <2>7
<1>10. ASSUME NEW i \in n + 1 .. n + L PROVE Left(i)' = cap - Second * C(i)
  <2>1. i - n \in 1 .. L /\ n + (i - n) = i /\ i \in 1 .. n + L
    BY <1>1
  <2>2. limited'[i].at = now
    BY <1>1, <2>1
  <2>3. Rate * (now - now) = 0 /\ Second * C(i) \in Int
    BY <1>2, <1>6
  <2> QED BY <1>2, <1>7, <2>1, <2>2, <2>3
<1>11. Second * q \in Nat /\ \A i \in 1 .. n : F <= LeftNow(i)
  BY <1>2, <1>3, BalancedNow DEF n, F
<1>12. ASSUME NEW i \in 1 .. n + L PROVE tokens' <= Left(i)'
  <2>1. CASE i \in 1 .. n
    BY <1>2, <1>4, <1>9, <1>11, <2>1
  <2>2. CASE ~(i \in 1 .. n)
    <3>1. i \in n + 1 .. n + L
      BY <1>1, <2>2
    <3>2. Second * C(i) <= Second * q /\ Second * C(i) \in Nat
      BY <1>2, <1>3, <1>6, <3>1, TimesGrows
    <3> QED BY <1>2, <1>4, <1>10, <1>11, <3>1, <3>2
  <2> QED BY <2>1, <2>2
<1>13. tokens' = cap \/ \E i \in 1 .. n + L : tokens' = Left(i)'
  <2>1. CASE F = cap /\ L = 0
    <3>1. q = 0
      BY <1>3, <2>1
    <3>2. Second * 0 = 0
      BY <1>2
    <3> QED BY <1>2, <1>4, <2>1, <3>1, <3>2
  <2>2. CASE F = cap /\ L # 0
    <3>1. n + 1 \in n + 1 .. n + L /\ n + 1 \in 1 .. n + L
      BY <1>1, <2>2
    <3>2. PICK i \in n + 1 .. n + L : i = n + 1
      BY <3>1
    <3>3. C(i) = q /\ i \in 1 .. n + L
      BY <1>6, <3>1, <3>2
    <3>4. Left(i)' = cap - Second * q
      BY <1>10, <3>3
    <3> QED BY <1>4, <2>2, <3>3, <3>4
  <2>3. CASE F # cap
    <3>1. PICK i \in 1 .. n : F = LeftNow(i)
      BY <2>3, BalancedNow DEF n, F, cap
    <3>2. i \in 1 .. n + L
      BY <1>1
    <3> QED BY <1>4, <1>9, <3>1, <3>2
  <2> QED BY <2>1, <2>2, <2>3
<1> QED BY <1>1, <1>12, <1>13 DEF Balanced, cap

LEMMA RateExactCall ==
  ASSUME FilterTypes, WorkerTypes, HistoryTypes, Balanced, RateExact, RateLimit
  PROVE  RateExact'
<1> DEFINE n == Len(limited)
           L == Len(run)
           F == Refilled
           cap == Rate * Second
           p == Payable
           C(i, m) == PassedOf(limited', i, n + m)
           c(i) == PassedOf(limited, i, n)
           Over(i, j) == (PassedOf(limited', i, j - 1) + 1) * Second
                           > cap + Rate * (limited'[j].at - limited'[i].at)
<1>1. /\ n \in Nat /\ L \in Nat /\ DOMAIN limited' = 1 .. n + L /\ DOMAIN limited = 1 .. n
      /\ \A i \in 1 .. n : limited'[i] = limited[i] /\ limited[i].at \in Nat
      /\ \A k \in 1 .. L : limited'[n + k].at = now /\ limited'[n + k].dropped = (k > p)
  BY LimitedThen
<1>2. /\ now \in Nat /\ cap \in Nat /\ Rate \in Nat /\ Second \in Nat \ {0} /\ F \in 0 .. cap
      /\ F \in Nat
  BY Refills, Bounds DEF FilterTypes
<1>3. p \in Nat /\ Second * p <= F /\ F < Second * (p + 1)
  BY <1>2, Pays DEF Payable
<1>4. \A m \in 0 .. L :
        /\ \A i \in 1 .. n : C(i, m) = c(i) + Fewer(m, p)
        /\ C(n + 1, m) = Fewer(m, p)
        /\ \A i \in n + 1 .. n + L : C(i, m) \in Nat /\ C(i, m) <= Fewer(m, p)
  BY <1>3, Counts
<1>5. /\ \A i \in 1 .. n : F <= LeftNow(i)
      /\ F = cap \/ \E i \in 1 .. n : F = LeftNow(i)
  BY BalancedNow
<1>6. \A i \in 1 .. n : LeftNow(i) = cap + Rate * (now - limited[i].at) - Second * c(i)
  BY DEF LeftNow
<1>7. \A i \in 1 .. n : c(i) \in Nat
  <2> TAKE i \in 1 .. n
  <2>1. i \in Int /\ n \in Int
    BY <1>1
  <2> QED BY <2>1, PassedFinite
<1> HIDE DEF n, L, F, cap, p, c
(* The messages before the call.                                             *)
<1>8. ASSUME NEW j \in 1 .. n
      PROVE  limited'[j].dropped <=> \E i \in 1 .. j : Over(i, j)
  <2>1. limited[j].dropped <=> \E i \in 1 .. j :
          (PassedOf(limited, i, j - 1) + 1) * Second > cap + Rate * (limited[j].at - limited[i].at)
    BY <1>1 DEF RateExact, PassedIn, PassedOf, cap
  <2>2. \A i \in 1 .. j : /\ limited'[i] = limited[i]
                          /\ PassedOf(limited', i, j - 1) = PassedOf(limited, i, j - 1)
    <3> TAKE i \in 1 .. j
    <3>1. \A k \in i .. j - 1 : limited'[k] = limited[k]
      BY <1>1
    <3>2. i \in 1 .. n
      BY <1>1
    <3> QED BY <1>1, <3>1, <3>2, PassedSame
  <2>3. limited'[j] = limited[j]
    BY <1>1
  <2> QED BY <2>1, <2>2, <2>3
(* The k-th message of the call, seen from one before it and from one of it. *)
<1>9. ASSUME NEW k \in 1 .. L, NEW i \in 1 .. n
      PROVE  Over(i, n + k) <=> Second * (Fewer(k - 1, p) + 1) > LeftNow(i)
  <2> DEFINE f == Fewer(k - 1, p)
  <2>1. k - 1 \in 0 .. L /\ (n + k) - 1 = n + (k - 1) /\ f \in Nat
    BY <1>1, <1>3 DEF Fewer
  <2>2. /\ limited'[n + k].at = now /\ limited'[i].at = limited[i].at
        /\ PassedOf(limited', i, (n + k) - 1) = c(i) + f
    BY <1>1, <1>4, <2>1
  <2> HIDE DEF f
  <2>3. Over(i, n + k) <=> ((c(i) + f) + 1) * Second > cap + Rate * (now - limited[i].at)
    BY <2>2
  <2>4. /\ ((c(i) + f) + 1) * Second = Second * c(i) + Second * (f + 1)
        /\ Second * c(i) \in Int /\ Second * (f + 1) \in Int
        /\ Rate * (now - limited[i].at) \in Int
    BY <1>1, <1>2, <1>7, <2>1
  <2>5. LeftNow(i) = cap + Rate * (now - limited[i].at) - Second * c(i)
    BY <1>6
  <2>6. Over(i, n + k) <=> Second * (f + 1) > LeftNow(i)
    BY <1>2, <2>3, <2>4, <2>5
  <2> QED BY <2>6 DEF f
<1>10. ASSUME NEW k \in 1 .. L, NEW i \in n + 1 .. n + k
       PROVE  /\ C(i, k - 1) \in Nat /\ C(i, k - 1) <= Fewer(k - 1, p)
              /\ Over(i, n + k) <=> Second * (C(i, k - 1) + 1) > cap
  <2>1. k - 1 \in 0 .. L /\ (n + k) - 1 = n + (k - 1) /\ i \in n + 1 .. n + L
        /\ i - n \in 1 .. L /\ n + (i - n) = i
    <3>1. n \in Nat /\ L \in Nat /\ k \in 1 .. L /\ i \in n + 1 .. n + k
      BY <1>1
    <3>2. k - 1 \in 0 .. L /\ (n + k) - 1 = n + (k - 1)
      BY <3>1
    <3>3. i \in n + 1 .. n + L /\ i - n \in 1 .. L /\ n + (i - n) = i
      BY <3>1
    <3> QED BY <3>2, <3>3
  <2>2. /\ limited'[n + k].at = now /\ limited'[i].at = now
        /\ PassedOf(limited', i, (n + k) - 1) = C(i, k - 1)
    BY <1>1, <2>1
  <2>3. C(i, k - 1) \in Nat /\ C(i, k - 1) <= Fewer(k - 1, p)
    BY <1>4, <2>1
  <2>4. Over(i, n + k) <=> (C(i, k - 1) + 1) * Second > cap + Rate * (now - now)
    BY <2>2
  <2> HIDE DEF C, Over
  <2>5. /\ (C(i, k - 1) + 1) * Second = Second * (C(i, k - 1) + 1)
        /\ cap + Rate * (now - now) = cap
    BY <1>2, <2>3
  <2> QED BY <2>3, <2>4, <2>5
<1> HIDE DEF C, Over
<1>11. ASSUME NEW k \in 1 .. L
       PROVE  k > p <=> \E i \in 1 .. n + k : Over(i, n + k)
  <2>1. ASSUME k > p PROVE \E i \in 1 .. n + k : Over(i, n + k)
    <3>1. Fewer(k - 1, p) = p
      BY <1>1, <1>3, <2>1 DEF Fewer
    <3>2. CASE F = cap
      <4>1. PICK i \in n + 1 .. n + k : i = n + 1
        BY <1>1
      <4>2. k - 1 \in 0 .. L /\ i \in 1 .. n + k
        BY <1>1
      <4>3. C(i, k - 1) = p
        BY <1>4, <3>1, <4>1, <4>2
      <4>4. Over(i, n + k)
        BY <1>3, <1>10, <3>2, <4>3
      <4> QED BY <4>2, <4>4
    <3>3. CASE \E i \in 1 .. n : F = LeftNow(i)
      <4>1. PICK i \in 1 .. n : F = LeftNow(i)
        BY <3>3
      <4>2. i \in 1 .. n + k
        BY <1>1
      <4>3. Over(i, n + k)
        BY <1>3, <1>9, <3>1, <4>1
      <4> QED BY <4>2, <4>3
    <3> QED BY <1>5, <3>2, <3>3
  <2>2. ASSUME ~(k > p), NEW i \in 1 .. n + k, Over(i, n + k) PROVE FALSE
    <3>1. Fewer(k - 1, p) = k - 1 /\ k \in Nat /\ k <= p /\ (k - 1) + 1 = k
      BY <1>1, <1>3, <2>2 DEF Fewer
    <3>2. Second * k <= F /\ Second * k \in Nat
      <4>1. Second * k <= Second * p /\ Second * k \in Nat /\ Second * p \in Nat
        BY <1>2, <1>3, <3>1, TimesGrows
      <4> QED BY <1>2, <1>3, <4>1
    <3>3. CASE i \in 1 .. n
      <4>1. Second * k > LeftNow(i)
        BY <1>9, <2>2, <3>1, <3>3
      <4>2. F <= LeftNow(i) /\ LeftNow(i) \in Int
        BY <1>5, <3>3, LeftGrows DEF n
      <4> QED BY <1>2, <3>2, <4>1, <4>2
    <3>4. CASE ~(i \in 1 .. n)
      <4>1. i \in n + 1 .. n + k
        BY <1>1, <3>4
      <4>2. /\ C(i, k - 1) \in Nat /\ C(i, k - 1) + 1 <= k
            /\ Second * (C(i, k - 1) + 1) > cap
        BY <1>10, <2>2, <3>1, <4>1
      <4>3. C(i, k - 1) + 1 \in Nat
        BY <4>2
      <4>4. Second * (C(i, k - 1) + 1) <= Second * k /\ Second * (C(i, k - 1) + 1) \in Nat
        BY <1>2, <3>1, <4>2, <4>3, TimesGrows
      <4> QED BY <1>2, <3>2, <4>2, <4>4
    <3> QED BY <3>3, <3>4
  <2> QED BY <2>1, <2>2
<1>12. ASSUME NEW j \in 1 .. n + L
       PROVE  limited'[j].dropped <=> \E i \in 1 .. j : Over(i, j)
  <2>1. CASE j \in 1 .. n
    BY <1>8, <2>1
  <2>2. CASE ~(j \in 1 .. n)
    <3>1. PICK k \in 1 .. L : j = n + k
      <4>1. j - n \in 1 .. L /\ j = n + (j - n)
        BY <1>1, <2>2
      <4> QED BY <4>1
    <3>2. limited'[j].dropped = (k > p)
      BY <1>1, <3>1
    <3>3. k > p <=> \E i \in 1 .. j : Over(i, j)
      BY <1>11, <3>1
    <3> QED BY <3>2, <3>3
  <2> QED BY <2>1, <2>2
<1> QED BY <1>1, <1>12 DEF RateExact, PassedIn, PassedOf, Over, cap

LEMMA RateStep ==
  ASSUME FilterTypes, WorkerTypes, HistoryTypes, Balanced, RateExact, [Next]_vars
  PROVE  Balanced' /\ RateExact'
<1>1. CASE UNCHANGED <<tokens, last_refill_, limited>>
  <2>1. Balanced'
    BY <1>1 DEF Balanced, Left
  <2>2. RateExact'
    BY <1>1 DEF RateExact, PassedIn
  <2> QED BY <2>1, <2>2
<1>2. CASE RateLimit
  BY <1>2, BalancedRate, RateExactCall
<1>3. CASE Tick \/ TakeRun \/ LoadFilters \/ Dedup \/ Sample \/ EndFilters \/ ProcessIndividual
           \/ ProcessBulk \/ ReleaseRun \/ AddFilter \/ RemoveFilter \/ ClearFilters
           \/ FlushUpdate \/ ShutdownFilters \/ DeleteFilters
  BY <1>1, <1>3 DEF Tick, TakeRun, LoadFilters, Dedup, Sample, EndFilters, ProcessIndividual,
       ProcessBulk, ReleaseRun, AddFilter, RemoveFilter, ClearFilters, Publish, FlushUpdate,
       ShutdownFilters, DeleteFilters, outsideFilter, outsideSinks, outsideUpdater, filterState,
       history
<1>4. CASE UNCHANGED vars
  BY <1>1, <1>4 DEF vars, filterState, history
<1> QED BY <1>2, <1>3, <1>4 DEF Next

-----------------------------------------------------------------------------
(* The theorems *)

LEMMA InitInv == Init => Inv
<1> SUFFICES ASSUME Init PROVE Inv
  OBVIOUS
<1>1. Types
  BY InitTypes
<1>2. /\ shown = <<>> /\ limited = <<>> /\ tokens = Rate * Second
      /\ \A t \in Texts : seen_messages_[t] = Never
  BY DEF Init
<1>3. Len(<<>>) = 0 /\ DOMAIN <<>> = {} /\ 1 .. 0 = {}
  OBVIOUS
<1>4. Remembered /\ Balanced
  BY <1>2, <1>3 DEF Remembered, Balanced
<1>5. DuplicatesExact /\ RateExact
  BY <1>2, <1>3 DEF DuplicatesExact, RateExact
<1> QED BY <1>1, <1>4, <1>5 DEF Inv, DecisionsExact

LEMMA InvStep == Inv /\ [Next]_vars => Inv'
  BY TypesStep, DuplicatesStep, RateStep DEF Inv, DecisionsExact, Types

LEMMA Invariance == Spec => []Inv
<1>1. Init => Inv
  BY InitInv
<1>2. Inv /\ [Next]_vars => Inv'
  BY InvStep
<1> QED BY <1>1, <1>2, PTL DEF Spec

(* The filters and the chain keep their types, and the worker never goes     *)
(* through a chain that was deleted unless a flush() found no buffer, for    *)
(* any chains, runs and changes of the chain (process_buffer_batch,          *)
(* update_filter_config).                                                    *)
THEOREM FiltersStayAlive == Spec => []FiltersAlive
<1>1. Inv => FiltersAlive
  BY TypesMean DEF Inv
<1> QED BY <1>1, Invariance, PTL

(* Deduplication drops exactly the duplicates inside the window and the rate *)
(* limit exactly the messages beyond a bucket and its refills, for every     *)
(* window, rate, clean-up interval, clock and partition into batches         *)
(* (dedup_filter::process_batch, cleanup_old_entries,                        *)
(* rate_limit_filter::process_batch).                                        *)
THEOREM DecisionsAlwaysExact == Spec => []DecisionsExact
<1>1. Inv => DecisionsExact
  BY DEF Inv
<1> QED BY <1>1, Invariance, PTL
=============================================================================
