----------------------------- MODULE RobinHood -----------------------------
(***************************************************************************)
(* The hash table behind the key and module registries and the module      *)
(* filters: detail::Table of the vendored robin_hood.h.                    *)
(*                                                                         *)
(* An element lies at or behind the cell its hash names.  Its info byte    *)
(* holds the distance, in units of inc, and below it some bits of the      *)
(* hash; 0 is an empty cell.  There is no wrapping round: behind the cells *)
(* proper there is a buffer, then a sentinel.  When distances no longer    *)
(* fit the byte, the table gives up hash bits, then changes its hash, or   *)
(* grows.  A table is a record; kv and info are functions on its cells.    *)
(***************************************************************************)
EXTENDS Integers, Sequences, FiniteSets, SequencesExt, FiniteSetsExt

CONSTANTS TableKeys, TableValues,
          HashOf,       \* hash function (by the multiplier's number) and key to hash
          InitialSize,  \* InitialNumElements
          HashBits,     \* 2 ^ InitialInfoNumBits: hash bits in the info, and its first inc
          InfoTop,      \* 0xFF
          LoadFactor,   \* MaxLoadFactor100
          MaxTries,     \* the 256 attempts of one insertion
          Reserves,     \* bound: what reserve() is asked for
          MaxTableSize, \* bound: cells the model lets a table grow to
          NoTableKey

VARIABLES table,        \* the table
          contents,     \* what it should hold: key to value
          thrown        \* an insertion failed

tableVars == <<table, contents, thrown>>

(* The same value; a checker that evaluates by need computes it here.       *)
Once(x) == CHOOSE y \in {x} : TRUE

Unallocated ==
  [mult |-> 0, mask |-> 0, kv |-> <<>>, info |-> <<>>, num |-> 0, allowed |-> 0, inc |-> HashBits, shift |-> 0]

AllowedFor(size) == (size * LoadFactor) \div 100
WithBuffer(size) == size + Min({AllowedFor(size), InfoTop})
Sentinel(t) == WithBuffer(t.mask + 1)
InitData(t, size) ==
  LET n == WithBuffer(size)
  IN [t EXCEPT !.mask = size - 1, !.num = 0, !.allowed = AllowedFor(size), !.inc = HashBits, !.shift = 0,
        !.kv = [i \in 0 .. n - 1 |-> <<NoTableKey, 0>>], !.info = [i \in 0 .. n |-> IF i = n THEN 1 ELSE 0]]

(* Bytes behind the sentinel, and those of a table never allocated, are 0. *)
Info(t, i) == IF i \in DOMAIN t.info THEN t.info[i] ELSE 0
KeyIn(t, i) == IF i \in DOMAIN t.kv THEN t.kv[i][1] ELSE NoTableKey

(* keyToIdx, and next() taken j times.                                     *)
Home(t, key) == (HashOf[t.mult][key] \div HashBits) % (t.mask + 1)
FirstInfo(t, key) == t.inc + ((HashOf[t.mult][key] % HashBits) \div (2 ^ t.shift))
At(t, key, j) == Home(t, key) + j
InfoAfter(t, key, j) == FirstInfo(t, key) + j * t.inc
Steps(t) == 0 .. Sentinel(t) + 1
FirstStep(S) == Min(S)

Matches(t, key, j) == InfoAfter(t, key, j) = Info(t, At(t, key, j)) /\ KeyIn(t, At(t, key, j)) = key

(* findIdx looks at two cells between tests of its loop.                   *)
FindSteps(t, key) ==
  {j \in Steps(t) : /\ Matches(t, key, j)
                    /\ \A e \in 1 .. j : e % 2 = 0 => InfoAfter(t, key, e) <= Info(t, At(t, key, e))}
InTable(t, key) == FindSteps(t, key) # {}
FindIdx(t, key) == At(t, key, FirstStep(FindSteps(t, key)))
(* erase(key) tests its loop before every cell but the first.              *)
EraseSteps(t, key) ==
  {j \in Steps(t) : Matches(t, key, j) /\ \A e \in 1 .. j : InfoAfter(t, key, e) <= Info(t, At(t, key, e))}

(* begin() and ++: the cells in use, in order.                             *)
Cells(t) == {i \in DOMAIN t.kv : t.info[i] # 0}

-----------------------------------------------------------------------------
(* Insertion.                                                              *)

FirstEmpty(t, from) == Min({i \in from .. Sentinel(t) + 1 : Info(t, i) = 0})

ShiftUp(t, empty, ins) ==
  LET info == [i \in DOMAIN t.info |-> IF i \in ins + 1 .. empty THEN (t.info[i - 1] + t.inc) % (InfoTop + 1) ELSE t.info[i]]
  IN [t EXCEPT !.kv = [i \in DOMAIN t.kv |-> IF i \in ins + 1 .. empty THEN t.kv[i - 1] ELSE t.kv[i]],
               !.info = info,
               !.allowed = IF \E i \in ins + 1 .. empty : Info([t EXCEPT !.info = info], i) + t.inc > InfoTop THEN 0 ELSE @]

PutAt(t, ins, infoByte, kv) ==
  LET marked == [t EXCEPT !.allowed = IF infoByte + t.inc > InfoTop THEN 0 ELSE @]
      shifted == ShiftUp(marked, FirstEmpty(t, ins), ins)
  IN [shifted EXCEPT !.kv = [@ EXCEPT ![ins] = kv], !.info = [@ EXCEPT ![ins] = infoByte % (InfoTop + 1)],
                     !.num = @ + 1]

(* One hash bit less in every info byte, of cells in use or not; every     *)
(* byte from 0 to the sentinel is halved, and the sentinel set again.      *)
CanIncreaseInfo(t) == t.inc > 2
IncreaseInfo(t) ==
  [t EXCEPT !.inc = @ \div 2, !.shift = @ + 1, !.allowed = AllowedFor(t.mask + 1),
            !.info = [i \in DOMAIN @ |-> IF i = Sentinel(t) THEN 1 ELSE @[i] \div 2]]

(* insert_move: the element is known to be new.                            *)
InsertMove(x, kv) ==
  LET t == IF x.t.allowed = 0 /\ CanIncreaseInfo(x.t) THEN IncreaseInfo(x.t) ELSE x.t
      j == FirstStep({j \in Steps(t) : InfoAfter(t, kv[1], j) > Info(t, At(t, kv[1], j))})
  IN IF x.failed \/ (x.t.allowed = 0 /\ ~CanIncreaseInfo(x.t)) THEN [x EXCEPT !.failed = TRUE]
     ELSE [x EXCEPT !.t = PutAt(t, At(t, kv[1], j), InfoAfter(t, kv[1], j), kv)]

(* A failure half way loses what has not been moved.                       *)
Rehash(t, size) ==
  FoldLeft(LAMBDA x, i : Once(IF i \in Cells(t) THEN InsertMove(x, t.kv[i]) ELSE x),
           [t |-> InitData(t, size), failed |-> FALSE], [i \in 1 .. Cardinality(DOMAIN t.kv) |-> i - 1])

Multipliers == Cardinality(DOMAIN HashOf)
IncreaseSize(t) ==
  LET full == AllowedFor(t.mask + 1)
  IN IF t.mask = 0 THEN [t |-> InitData(t, InitialSize), failed |-> FALSE]
     ELSE IF t.num < full /\ CanIncreaseInfo(t) THEN [t |-> IncreaseInfo(t), failed |-> FALSE]
     ELSE IF t.num * 2 < full THEN Rehash([t EXCEPT !.mult = (@ + 1) % Multipliers], t.mask + 1)
     ELSE Rehash(t, (t.mask + 1) * 2)

(* nextWhileLess, then the cells whose info equals the key's.              *)
InsertStep(t, key) == FirstStep({j \in Steps(t) : InfoAfter(t, key, j) >= Info(t, At(t, key, j))})
PastEqual(t, key) ==
  LET first == InsertStep(t, key)
  IN FirstStep({j \in Steps(t) : j >= first /\ InfoAfter(t, key, j) # Info(t, At(t, key, j))})
FoundSteps(t, key) == {j \in InsertStep(t, key) .. PastEqual(t, key) - 1 : KeyIn(t, At(t, key, j)) = key}

(* insertKeyPrepareEmptySpot, and what its callers put into the spot.      *)
TryInsert(x, key, value) ==
  LET t == x.t
      j == PastEqual(t, key)
  IN IF x.state # "trying" THEN x
     ELSE IF FoundSteps(t, key) # {}
       THEN [x EXCEPT !.state = "found", !.at = At(t, key, FirstStep(FoundSteps(t, key)))]
     ELSE IF t.num >= t.allowed
       THEN LET r == IncreaseSize(t) IN [x EXCEPT !.t = r.t, !.state = IF r.failed THEN "overflow" ELSE @]
     ELSE [x EXCEPT !.t = PutAt(t, At(t, key, j), InfoAfter(t, key, j), <<key, value>>), !.state = "new"]
Inserted(t, key, value) ==
  FoldLeft(LAMBDA x, i : Once(TryInsert(x, key, value)), [t |-> t, state |-> "trying", at |-> 0], [i \in 1 .. MaxTries |-> i])

(* shiftDown: elements behind the cell that are not at home move up.       *)
ShiftDownAll(t, idx) ==  \* (mutant) elements that are at home move too
  LET stop == Min({i \in idx .. Sentinel(t) : Info(t, i + 1) < t.inc})
  IN [t EXCEPT !.kv = [i \in DOMAIN @ |-> IF i \in idx .. stop - 1 THEN @[i + 1]
                                          ELSE IF i = stop THEN <<NoTableKey, 0>> ELSE @[i]],
               !.info = [i \in DOMAIN @ |-> IF i \in idx .. stop - 1 THEN @[i + 1] - t.inc
                                            ELSE IF i = stop THEN 0 ELSE @[i]],
               !.num = @ - 1]

ShiftDown(t, idx) ==
  LET stop == Min({i \in idx .. Sentinel(t) : Info(t, i + 1) < 2 * t.inc})
  IN [t EXCEPT !.kv = [i \in DOMAIN @ |-> IF i \in idx .. stop - 1 THEN @[i + 1]
                                          ELSE IF i = stop THEN <<NoTableKey, 0>> ELSE @[i]],
               !.info = [i \in DOMAIN @ |-> IF i \in idx .. stop - 1 THEN @[i + 1] - t.inc
                                            ELSE IF i = stop THEN 0 ELSE @[i]],
               !.num = @ - 1]

-----------------------------------------------------------------------------
TableInit == table = Unallocated /\ contents = <<>> /\ thrown = FALSE

Live == ~thrown /\ table.mask < MaxTableSize
Bind(f, key, value) == [k \in DOMAIN f \cup {key} |-> IF k = key THEN value ELSE f[k]]

(* operator[] with an assignment, insert_or_assign.                        *)
Assign(key, value) ==
  /\ Live
  /\ LET r == Inserted(table, key, value)
     IN /\ table' = IF r.state = "found" THEN [r.t EXCEPT !.kv[r.at] = <<key, value>>] ELSE r.t
        /\ thrown' = (r.state \in {"overflow", "trying"})
        /\ contents' = IF thrown' THEN contents ELSE Bind(contents, key, value)

(* emplace, try_emplace, insert: an element already there stays.           *)
Emplace(key, value) ==
  /\ Live
  /\ LET r == Inserted(table, key, value)
     IN /\ table' = r.t
        /\ thrown' = (r.state \in {"overflow", "trying"})
        /\ contents' = IF thrown' \/ key \in DOMAIN contents THEN contents ELSE Bind(contents, key, value)

EraseKey(key) ==
  /\ Live
  /\ table' = IF EraseSteps(table, key) = {} THEN table
              ELSE ShiftDown(table, At(table, key, FirstStep(EraseSteps(table, key))))
  /\ contents' = [k \in DOMAIN contents \ {key} |-> contents[k]]
  /\ UNCHANGED thrown

Reserve(c) ==
  /\ Live
  /\ LET wanted == Max({c, table.num})
         size == Min({s \in {InitialSize * 2 ^ i : i \in 0 .. 8} : AllowedFor(s) >= wanted})
         r == Rehash(table, size)
     IN IF size <= table.mask + 1 THEN UNCHANGED <<table, thrown>>
        ELSE table' = r.t /\ thrown' = r.failed
  /\ UNCHANGED contents

(* clear() keeps the cells, and how many elements they may hold.           *)
ClearTable ==
  /\ Live /\ table.num > 0
  /\ table' = [InitData(table, table.mask + 1) EXCEPT !.allowed = table.allowed]
  /\ contents' = <<>>
  /\ UNCHANGED thrown

TableNext ==
  \/ \E key \in TableKeys, value \in TableValues : Assign(key, value) \/ Emplace(key, value)
  \/ \E key \in TableKeys : EraseKey(key)
  \/ \E c \in Reserves : Reserve(c)
  \/ ClearTable

TableSpec == TableInit /\ [][TableNext]_tableVars
=============================================================================
