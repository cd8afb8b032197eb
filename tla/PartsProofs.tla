----------------------------- MODULE PartsProofs -----------------------------
(* Proofs about the smaller parts.  Type erasure: every handle finds its     *)
(* value, whatever is copied, moved, swapped or assigned.  The registries:   *)
(* a level set for all modules reaches them all, and each name and each      *)
(* statement is registered once.                                             *)
EXTENDS Levels, Erased, BlockingQueue, FiniteSetTheorems, SequenceTheorems, TLAPS

(***************************************************************************)
(* Type erasure.  MemoryFits says of a memory m that the handles lead to   *)
(* the values v: in the handle itself or in a heap cell of its own.        *)
(***************************************************************************)
Places == HeapCells \cup {Nothing, Own, Unborn}

MemoryType(m) ==
    m \in [ptr : [Handles -> Places], small : [Handles -> BOOLEAN],
           storage : [Handles -> SmallValues \cup {Nothing, Husk}],
           heap : [HeapCells -> LargeValues \cup {Nothing}], wronged : {FALSE}]

Leads(m, v, h) ==
    /\ m.ptr[h] \in {Nothing, Unborn} => v[h] = Nothing /\ m.storage[h] \notin SmallValues
    /\ m.ptr[h] = Own => m.small[h] /\ m.storage[h] \in SmallValues /\ v[h] = m.storage[h]
    /\ m.ptr[h] \in HeapCells =>
         /\ ~m.small[h] /\ m.storage[h] \notin SmallValues
         /\ m.heap[m.ptr[h]] \in LargeValues /\ v[h] = m.heap[m.ptr[h]]

CellsOwned(m) ==
    /\ \A g, h \in Handles : m.ptr[g] = m.ptr[h] /\ m.ptr[g] \in HeapCells => g = h
    /\ \A c \in HeapCells : m.heap[c] # Nothing => \E h \in Handles : m.ptr[h] = c

MemoryFits(m, v) ==
    /\ MemoryType(m)
    /\ v \in [Handles -> Values \cup {Nothing}]
    /\ \A h \in Handles : Leads(m, v, h)
    /\ CellsOwned(m)

LEMMA PlacesAre == {Nothing, Own, Unborn} \subseteq Places /\ HeapCells \subseteq Places
  BY DEF Places

LEMMA DestroyedFits ==
    ASSUME NEW m, NEW v, NEW h \in Handles, MemoryFits(m, v), m.ptr[h] # Unborn
    PROVE  /\ MemoryFits(Destroyed(m, h), [v EXCEPT ![h] = Nothing])
           /\ Destroyed(m, h).ptr = [m.ptr EXCEPT ![h] = Nothing]
           /\ \A c \in HeapCells : m.heap[c] = Nothing => Destroyed(m, h).heap[c] = Nothing
<1> DEFINE d == Destroyed(m, h)
           w == [v EXCEPT ![h] = Nothing]
<1>t. MemoryType(m)
  BY DEF MemoryFits
<1>1. CASE m.ptr[h] = Nothing
  <2>1. d = m /\ w = v
    BY <1>1, ErasedAssumption DEF Destroyed, MemoryFits, Leads
  <2> QED BY <2>1, <1>1 DEF MemoryFits, MemoryType
<1>2. CASE m.ptr[h] = Own
  <2>1. /\ d = [m EXCEPT !.storage[h] = Nothing, !.ptr[h] = Nothing, !.wronged = FALSE]
        /\ m.storage[h] # Nothing
    BY <1>2, ErasedAssumption DEF Destroyed, MemoryFits, MemoryType, Leads
  <2>2a. /\ d.storage = [m.storage EXCEPT ![h] = Nothing] /\ d.ptr = [m.ptr EXCEPT ![h] = Nothing]
        /\ d.heap = m.heap /\ d.small = m.small
    BY <2>1, <1>t DEF MemoryType
  <2>2b. MemoryType([m EXCEPT !.storage[h] = Nothing, !.ptr[h] = Nothing, !.wronged = FALSE])
    BY <1>t, PlacesAre DEF MemoryType
  <2>2. /\ d.storage = [m.storage EXCEPT ![h] = Nothing] /\ d.ptr = [m.ptr EXCEPT ![h] = Nothing]
        /\ d.heap = m.heap /\ d.small = m.small /\ MemoryType(d)
    BY <2>2a, <2>2b, <2>1
  <2>3. \A g \in Handles : Leads(d, w, g)
    BY <2>2, <1>2, ErasedAssumption DEF Leads, MemoryFits, MemoryType
  <2>4. CellsOwned(d)
    BY <2>2, <1>2, ErasedAssumption DEF CellsOwned, MemoryFits, MemoryType
  <2>5. w \in [Handles -> Values \cup {Nothing}]
    BY DEF MemoryFits
  <2> QED BY <2>2, <2>3, <2>4, <2>5 DEF MemoryFits
<1>3. CASE m.ptr[h] \in HeapCells
  <2>1. PICK c \in HeapCells : c = m.ptr[h]
    BY <1>3
  <2>2. /\ ~m.small[h] /\ m.heap[c] # Nothing /\ c # Own /\ c # Nothing
        /\ m.wronged = FALSE
    BY <2>1, <1>3, ErasedAssumption DEF MemoryFits, MemoryType, Leads
  <2>3. d = [m EXCEPT !.heap = [x \in DOMAIN @ |-> IF x = c THEN Nothing ELSE @[x]], !.ptr[h] = Nothing,
                      !.wronged = FALSE]
    BY <2>1, <2>2 DEF Destroyed
  <2>4a. /\ d.storage = m.storage /\ d.ptr = [m.ptr EXCEPT ![h] = Nothing] /\ d.small = m.small
        /\ d.heap = [m.heap EXCEPT ![c] = Nothing]
    BY <2>3, <1>t DEF MemoryType
  <2>4b. MemoryType([m EXCEPT !.heap = [x \in DOMAIN @ |-> IF x = c THEN Nothing ELSE @[x]], !.ptr[h] = Nothing, !.wronged = FALSE])
    BY <1>t, PlacesAre DEF MemoryType
  <2>4. /\ d.storage = m.storage /\ d.ptr = [m.ptr EXCEPT ![h] = Nothing] /\ d.small = m.small
        /\ d.heap = [m.heap EXCEPT ![c] = Nothing] /\ MemoryType(d)
    BY <2>4a, <2>4b, <2>3
  <2>5. \A g \in Handles : g # h => m.ptr[g] # c
    BY <2>1 DEF MemoryFits, CellsOwned
  <2>6. \A g \in Handles : Leads(d, w, g)
    BY <2>1, <2>4, <2>5, <1>3, ErasedAssumption DEF Leads, MemoryFits, MemoryType
  <2>7. CellsOwned(d)
    BY <2>1, <2>4, <2>5, <1>3, ErasedAssumption DEF CellsOwned, MemoryFits, MemoryType
  <2>8. w \in [Handles -> Values \cup {Nothing}]
    BY DEF MemoryFits
  <2> QED BY <2>4, <2>6, <2>7, <2>8 DEF MemoryFits, MemoryType
<1> QED BY <1>1, <1>2, <1>3 DEF MemoryFits, MemoryType, Places

LEMMA BuiltFits ==
    ASSUME NEW m, NEW v, NEW h \in Handles, NEW w \in Values, MemoryFits(m, v),
           m.ptr[h] \in {Nothing, Unborn},
           w \in LargeValues => FreshCell \in HeapCells /\ m.heap[FreshCell] = Nothing
    PROVE  MemoryFits(Built(m, h, w), [v EXCEPT ![h] = w])
<1> DEFINE d == Built(m, h, w)
           x == [v EXCEPT ![h] = w]
<1>t. MemoryType(m)
  BY DEF MemoryFits
<1>1. CASE w \in SmallValues
  <2>1. d = [m EXCEPT !.storage[h] = w, !.ptr[h] = Own, !.small[h] = TRUE]
    BY <1>1 DEF Built
  <2>2a. /\ d.storage = [m.storage EXCEPT ![h] = w] /\ d.ptr = [m.ptr EXCEPT ![h] = Own]
        /\ d.heap = m.heap /\ d.small = [m.small EXCEPT ![h] = TRUE]
    BY <2>1, <1>1, <1>t DEF MemoryType
  <2>2b. MemoryType([m EXCEPT !.storage[h] = w, !.ptr[h] = Own, !.small[h] = TRUE])
    BY <1>1, <1>t, PlacesAre DEF MemoryType
  <2>2. /\ d.storage = [m.storage EXCEPT ![h] = w] /\ d.ptr = [m.ptr EXCEPT ![h] = Own]
        /\ d.heap = m.heap /\ d.small = [m.small EXCEPT ![h] = TRUE] /\ MemoryType(d)
    BY <2>2a, <2>2b, <2>1
  <2>3. \A g \in Handles : Leads(d, x, g)
    BY <2>2, <1>1, ErasedAssumption DEF Leads, MemoryFits, MemoryType
  <2>4. CellsOwned(d)
    BY <2>2, <1>1, ErasedAssumption DEF CellsOwned, MemoryFits, MemoryType
  <2>5. x \in [Handles -> Values \cup {Nothing}]
    BY DEF MemoryFits
  <2> QED BY <2>2, <2>3, <2>4, <2>5 DEF MemoryFits
<1>2. CASE w \notin SmallValues
  <2>0. w \in LargeValues
    BY <1>2 DEF Values
  <2>1. PICK c \in HeapCells : c = FreshCell /\ m.heap[c] = Nothing
    BY <2>0
  <2>2. d = [m EXCEPT !.heap[c] = w, !.ptr[h] = c, !.small[h] = FALSE]
    BY <2>1, <1>2 DEF Built
  <2>4a. /\ d.storage = m.storage /\ d.ptr = [m.ptr EXCEPT ![h] = c]
        /\ d.small = [m.small EXCEPT ![h] = FALSE]
        /\ d.heap = [m.heap EXCEPT ![c] = w]
    BY <2>2, <2>0, <1>t DEF MemoryType
  <2>4b. MemoryType([m EXCEPT !.heap[c] = w, !.ptr[h] = c, !.small[h] = FALSE])
    BY <2>0, <1>t, PlacesAre DEF MemoryType
  <2>4. /\ d.storage = m.storage /\ d.ptr = [m.ptr EXCEPT ![h] = c]
        /\ d.small = [m.small EXCEPT ![h] = FALSE]
        /\ d.heap = [m.heap EXCEPT ![c] = w] /\ MemoryType(d)
    BY <2>4a, <2>4b, <2>2
  <2>5. \A g \in Handles : m.ptr[g] # c
    BY <2>1, ErasedAssumption DEF MemoryFits, Leads, Values
  <2>6. \A g \in Handles : Leads(d, x, g)
    BY <2>0, <2>4, <2>5, ErasedAssumption DEF Leads, MemoryFits, MemoryType
  <2>7. CellsOwned(d)
    BY <2>0, <2>1, <2>4, <2>5, ErasedAssumption DEF CellsOwned, MemoryFits, MemoryType
  <2>8. x \in [Handles -> Values \cup {Nothing}]
    BY DEF MemoryFits
  <2> QED BY <2>4, <2>6, <2>7, <2>8 DEF MemoryFits, MemoryType
<1> QED BY <1>1, <1>2

LEMMA CopyFits ==
    ASSUME NEW m, NEW v, NEW h \in Handles, NEW g \in Handles, MemoryFits(m, v),
           m.ptr[h] \in {Nothing, Unborn}, m.ptr[g] # Unborn,
           FreshCell \in HeapCells /\ m.heap[FreshCell] = Nothing
    PROVE  /\ MemoryFits(CopyOf(m, h, g), [v EXCEPT ![h] = v[g]])
           /\ \A k \in Handles : k # h => CopyOf(m, h, g).ptr[k] = m.ptr[k]
           /\ CopyOf(m, h, g).ptr[h] # Unborn
<1> DEFINE d == CopyOf(m, h, g)
           x == [v EXCEPT ![h] = v[g]]
<1>0. x \in [Handles -> Values \cup {Nothing}]
  BY DEF MemoryFits
<1>t. MemoryType(m)
  BY DEF MemoryFits
<1>1. CASE m.ptr[g] = Nothing
  <2>1. d = [m EXCEPT !.ptr[h] = Nothing, !.small[h] = m.small[g]]
    BY <1>1 DEF CopyOf
  <2>2a. /\ d.storage = m.storage /\ d.ptr = [m.ptr EXCEPT ![h] = Nothing]
        /\ d.heap = m.heap /\ d.small = [m.small EXCEPT ![h] = m.small[g]]
    BY <2>1, <1>1, <1>t DEF MemoryType
  <2>2b. MemoryType([m EXCEPT !.ptr[h] = Nothing, !.small[h] = m.small[g]])
    BY <1>1, <1>t, PlacesAre DEF MemoryType
  <2>2. /\ d.storage = m.storage /\ d.ptr = [m.ptr EXCEPT ![h] = Nothing]
        /\ d.heap = m.heap /\ d.small = [m.small EXCEPT ![h] = m.small[g]] /\ MemoryType(d)
    BY <2>2a, <2>2b, <2>1
  <2>3. \A k \in Handles : Leads(d, x, k)
    BY <2>2, <1>1, ErasedAssumption DEF Leads, MemoryFits, MemoryType
  <2>4. CellsOwned(d)
    BY <2>2, <1>1, ErasedAssumption DEF CellsOwned, MemoryFits, MemoryType
  <2> QED BY <1>0, <2>2, <2>3, <2>4, ErasedAssumption DEF MemoryFits, MemoryType
<1>2. CASE m.ptr[g] = Own
  <2>1. d = [m EXCEPT !.storage[h] = m.storage[g], !.ptr[h] = Own, !.small[h] = TRUE]
    BY <1>2, ErasedAssumption DEF CopyOf, MemoryFits, Leads
  <2>2a. /\ d.storage = [m.storage EXCEPT ![h] = m.storage[g]] /\ d.ptr = [m.ptr EXCEPT ![h] = Own]
        /\ d.heap = m.heap /\ d.small = [m.small EXCEPT ![h] = TRUE]
    BY <2>1, <1>t DEF MemoryType
  <2>2b. MemoryType([m EXCEPT !.storage[h] = m.storage[g], !.ptr[h] = Own, !.small[h] = TRUE])
    BY <1>t, PlacesAre DEF MemoryType
  <2>2. /\ d.storage = [m.storage EXCEPT ![h] = m.storage[g]] /\ d.ptr = [m.ptr EXCEPT ![h] = Own]
        /\ d.heap = m.heap /\ d.small = [m.small EXCEPT ![h] = TRUE] /\ MemoryType(d)
    BY <2>2a, <2>2b, <2>1
  <2>3. \A k \in Handles : Leads(d, x, k)
    BY <2>2, <1>2, ErasedAssumption DEF Leads, MemoryFits, MemoryType
  <2>4. CellsOwned(d)
    BY <2>2, <1>2, ErasedAssumption DEF CellsOwned, MemoryFits, MemoryType
  <2> QED BY <1>0, <2>2, <2>3, <2>4, ErasedAssumption DEF MemoryFits, MemoryType
<1>3. CASE m.ptr[g] \in HeapCells
  <2>1. PICK c \in HeapCells : c = FreshCell /\ m.heap[c] = Nothing
    OBVIOUS
  <2>2. PICK w : w = m.heap[m.ptr[g]] /\ w \in LargeValues
    BY <1>3 DEF MemoryFits, Leads
  <2>3. d = [m EXCEPT !.heap[c] = w, !.ptr[h] = c, !.small[h] = FALSE]
    BY <2>1, <2>2, <1>3, ErasedAssumption DEF CopyOf, MemoryFits, Leads
  <2>4a. /\ d.storage = m.storage /\ d.ptr = [m.ptr EXCEPT ![h] = c]
        /\ d.small = [m.small EXCEPT ![h] = FALSE]
        /\ d.heap = [m.heap EXCEPT ![c] = w]
    BY <2>2, <2>3, <1>t DEF MemoryType
  <2>4b. MemoryType([m EXCEPT !.heap[c] = w, !.ptr[h] = c, !.small[h] = FALSE])
    BY <2>2, <1>t, PlacesAre DEF MemoryType
  <2>4. /\ d.storage = m.storage /\ d.ptr = [m.ptr EXCEPT ![h] = c]
        /\ d.small = [m.small EXCEPT ![h] = FALSE]
        /\ d.heap = [m.heap EXCEPT ![c] = w] /\ MemoryType(d)
    BY <2>4a, <2>4b, <2>3
  <2>5. \A k \in Handles : m.ptr[k] # c
    BY <2>1, ErasedAssumption DEF MemoryFits, Leads, Values
  <2>5a. v[g] = w
    BY <1>3, <2>2 DEF MemoryFits, Leads
  <2>6. \A k \in Handles : Leads(d, x, k)
    BY <2>2, <2>4, <2>5, <2>5a, ErasedAssumption DEF Leads, MemoryFits, MemoryType
  <2>7a. \A j, k \in Handles : d.ptr[j] = d.ptr[k] /\ d.ptr[j] \in HeapCells => j = k
    BY <2>4, <2>5, ErasedAssumption DEF CellsOwned, MemoryFits, MemoryType
  <2>7b. ASSUME NEW y \in HeapCells, d.heap[y] # Nothing PROVE \E k \in Handles : d.ptr[k] = y
    <3>1. CASE y = c
      BY <3>1, <2>4, <1>t DEF MemoryType
    <3>2. CASE y # c
      <4>1. PICK k \in Handles : m.ptr[k] = y
        BY <3>2, <2>4, <2>7b, <1>t DEF CellsOwned, MemoryFits, MemoryType
      <4>2. k # h
        BY <4>1, ErasedAssumption
      <4> QED BY <4>1, <4>2, <2>4, <1>t DEF MemoryType
    <3> QED BY <3>1, <3>2
  <2>7. CellsOwned(d)
    BY <2>7a, <2>7b DEF CellsOwned
  <2>8. MemoryFits(d, x)
    BY <1>0, <2>4, <2>6, <2>7 DEF MemoryFits
  <2>9. d.ptr[h] # Unborn /\ \A k \in Handles : k # h => d.ptr[k] = m.ptr[k]
    BY <2>4, <1>t, ErasedAssumption DEF MemoryType
  <2> QED BY <2>8, <2>9
<1> QED BY <1>1, <1>2, <1>3 DEF MemoryFits, MemoryType, Places

LEMMA MoveFits ==
    ASSUME NEW m, NEW v, NEW h \in Handles, NEW g \in Handles, MemoryFits(m, v),
           h # g, m.ptr[h] \in {Nothing, Unborn}, m.ptr[g] # Unborn
    PROVE  MemoryFits(MoveOf(m, h, g), [v EXCEPT ![h] = v[g], ![g] = Nothing])
<1> DEFINE d == MoveOf(m, h, g)
           x == [v EXCEPT ![h] = v[g], ![g] = Nothing]
<1>t. MemoryType(m)
  BY DEF MemoryFits
<1>0. x \in [Handles -> Values \cup {Nothing}]
  BY DEF MemoryFits
<1>1. CASE m.ptr[g] = Nothing
  <2>1. d = [m EXCEPT !.small[h] = m.small[g], !.ptr[h] = Nothing]
    BY <1>1 DEF MoveOf
  <2>2a. /\ d.storage = m.storage /\ d.ptr = [m.ptr EXCEPT ![h] = Nothing]
        /\ d.heap = m.heap /\ d.small = [m.small EXCEPT ![h] = m.small[g]]
    BY <2>1, <1>t DEF MemoryType
  <2>2b. MemoryType([m EXCEPT !.small[h] = m.small[g], !.ptr[h] = Nothing])
    BY <1>t, PlacesAre DEF MemoryType
  <2>3. \A k \in Handles : Leads(d, x, k)
    BY <2>2a, <1>1, ErasedAssumption DEF Leads, MemoryFits, MemoryType
  <2>4. CellsOwned(d)
    BY <2>2a, <1>1, ErasedAssumption DEF CellsOwned, MemoryFits, MemoryType
  <2> QED BY <1>0, <2>1, <2>2b, <2>3, <2>4 DEF MemoryFits
<1>2. CASE m.ptr[g] = Own
  <2> DEFINE n == [MovedIn([m EXCEPT !.small[h] = m.small[g]], h, g) EXCEPT !.ptr[h] = Own]
  <2>1. m.small[g] /\ m.storage[g] \in SmallValues /\ v[g] = m.storage[g]
    BY <1>2 DEF MemoryFits, Leads
  <2>2. /\ n.storage = [m.storage EXCEPT ![h] = m.storage[g], ![g] = Husk]
        /\ n.ptr = [m.ptr EXCEPT ![h] = Own] /\ n.heap = m.heap
        /\ n.small = [m.small EXCEPT ![h] = TRUE] /\ n.wronged = FALSE
    BY <2>1, <1>t DEF MemoryType, MovedIn
  <2>3. MemoryType(n)
    BY <1>t, PlacesAre, <2>1 DEF MemoryType, MovedIn
  <2>4. d = Destroyed(n, g)
    BY <1>2, <2>1, ErasedAssumption DEF MoveOf
  <2>5. d = [n EXCEPT !.storage[g] = Nothing, !.ptr[g] = Nothing, !.wronged = FALSE]
    <3> HIDE DEF n, d
    <3>1. n.ptr[g] = Own /\ n.small[g] /\ n.storage[g] = Husk
      BY <2>2, <2>1, <1>2, <1>t DEF MemoryType
    <3>2. n.wronged = FALSE
      BY <2>2
    <3> QED BY <3>1, <3>2, <2>4, ErasedAssumption DEF Destroyed
  <2>6. /\ d.storage = [n.storage EXCEPT ![g] = Nothing]
        /\ d.ptr = [n.ptr EXCEPT ![g] = Nothing] /\ d.heap = n.heap
        /\ d.small = n.small /\ d.wronged = FALSE
    <3> HIDE DEF n
    <3> QED BY <2>5, <2>3 DEF MemoryType
  <2>7. MemoryType(d)
    <3>1. MemoryType([n EXCEPT !.storage[g] = Nothing, !.ptr[g] = Nothing, !.wronged = FALSE])
      <4> HIDE DEF n
      <4> QED BY <2>3, PlacesAre DEF MemoryType
    <3> QED BY <3>1, <2>5
  <2>8. /\ d.storage = [m.storage EXCEPT ![h] = m.storage[g], ![g] = Nothing]
        /\ d.ptr = [m.ptr EXCEPT ![h] = Own, ![g] = Nothing] /\ d.heap = m.heap
        /\ d.small = [m.small EXCEPT ![h] = TRUE]
    BY <2>2, <2>6, <1>t DEF MemoryType
  <2> HIDE DEF d
  <2>9. \A k \in Handles : Leads(d, x, k)
    BY <2>1, <2>8, <1>2, ErasedAssumption DEF Leads, MemoryFits, MemoryType
  <2>10. CellsOwned(d)
    BY <2>8, <1>2, ErasedAssumption DEF CellsOwned, MemoryFits, MemoryType
  <2>11. MemoryFits(d, x)
    BY <1>0, <2>7, <2>9, <2>10 DEF MemoryFits
  <2> QED BY <2>11 DEF d
<1>3. CASE m.ptr[g] \in HeapCells
  <2>1. PICK c \in HeapCells : c = m.ptr[g]
    BY <1>3
  <2>2. ~m.small[g] /\ c # Nothing /\ m.heap[c] \in LargeValues /\ v[g] = m.heap[c]
    BY <2>1, ErasedAssumption DEF MemoryFits, Leads
  <2>3. d = [m EXCEPT !.small[h] = m.small[g], !.ptr = [@ EXCEPT ![h] = m.ptr[g], ![g] = Nothing]]
    BY <2>1, <2>2 DEF MoveOf
  <2>4. /\ d.storage = m.storage /\ d.ptr = [m.ptr EXCEPT ![h] = c, ![g] = Nothing]
        /\ d.heap = m.heap /\ d.small = [m.small EXCEPT ![h] = FALSE]
    BY <2>1, <2>2, <2>3, <1>t DEF MemoryType
  <2>5. MemoryType([m EXCEPT !.small[h] = m.small[g], !.ptr = [@ EXCEPT ![h] = m.ptr[g], ![g] = Nothing]])
    BY <1>t, PlacesAre DEF MemoryType
  <2>6. MemoryType(d)
    BY <2>3, <2>5
  <2> HIDE DEF d
  <2>7. \A k \in Handles : k # g => m.ptr[k] # c
    BY <2>1 DEF MemoryFits, CellsOwned
  <2>8. \A k \in Handles : Leads(d, x, k)
    BY <2>2, <2>1, <2>4, <2>7, ErasedAssumption DEF Leads, MemoryFits, MemoryType
  <2>9a. \A j, k \in Handles : d.ptr[j] = d.ptr[k] /\ d.ptr[j] \in HeapCells => j = k
    BY <2>4, <2>7, ErasedAssumption DEF CellsOwned, MemoryFits, MemoryType
  <2>9b. ASSUME NEW y \in HeapCells, d.heap[y] # Nothing PROVE \E k \in Handles : d.ptr[k] = y
    <3>1. PICK k \in Handles : m.ptr[k] = y
      BY <2>4, <2>9b DEF CellsOwned, MemoryFits
    <3>2. k # h
      BY <3>1, ErasedAssumption
    <3>3. CASE k = g
      BY <3>1, <3>3, <2>1, <2>4, <1>t DEF MemoryType
    <3>4. CASE k # g
      BY <3>1, <3>2, <3>4, <2>4, <1>t DEF MemoryType
    <3> QED BY <3>3, <3>4
  <2>9. CellsOwned(d)
    BY <2>9a, <2>9b DEF CellsOwned
  <2>10. MemoryFits(d, x)
    BY <1>0, <2>6, <2>8, <2>9 DEF MemoryFits
  <2> QED BY <2>10 DEF d
<1> QED BY <1>1, <1>2, <1>3, <1>t DEF MemoryType, Places

LEMMA PointersSwapped ==
    ASSUME NEW m, NEW d, NEW h \in Handles, NEW g \in Handles, MemoryType(m), CellsOwned(m),
           d.ptr = [m.ptr EXCEPT ![h] = m.ptr[g], ![g] = m.ptr[h]], d.heap = m.heap
    PROVE  CellsOwned(d)
<1>1. \A j, k \in Handles : d.ptr[j] = d.ptr[k] /\ d.ptr[j] \in HeapCells => j = k
  BY DEF CellsOwned, MemoryType
<1>2. ASSUME NEW y \in HeapCells, d.heap[y] # Nothing PROVE \E k \in Handles : d.ptr[k] = y
  <2>1. PICK k \in Handles : m.ptr[k] = y
    BY <1>2 DEF CellsOwned
  <2>2. d.ptr[IF k = h THEN g ELSE IF k = g THEN h ELSE k] = y
    BY <2>1 DEF MemoryType
  <2> QED BY <2>2
<1> QED BY <1>1, <1>2 DEF CellsOwned

LEMMA HandoverFits ==
    ASSUME NEW m, NEW v, NEW h \in Handles, NEW g \in Handles, MemoryFits(m, v),
           m.ptr[h] = Nothing, m.ptr[g] # Unborn
    PROVE  /\ MemoryFits(Handover(m, h, g), [v EXCEPT ![h] = v[g], ![g] = v[h]])
           /\ Handover(m, h, g).ptr = [m.ptr EXCEPT ![h] = m.ptr[g], ![g] = m.ptr[h]]
<1> DEFINE d == Handover(m, h, g)
           x == [v EXCEPT ![h] = v[g], ![g] = v[h]]
<1>t. MemoryType(m) /\ CellsOwned(m)
  BY DEF MemoryFits
<1>0. x \in [Handles -> Values \cup {Nothing}]
  BY DEF MemoryFits
<1>1. CASE m.ptr[g] = Nothing
  <2>1. d = m
    BY <1>1 DEF Handover
  <2>2. v[h] = Nothing /\ v[g] = Nothing
    BY <1>1 DEF MemoryFits, Leads
  <2>3. x = v
    BY <2>2 DEF MemoryFits
  <2>4. m.ptr = [m.ptr EXCEPT ![h] = m.ptr[g], ![g] = m.ptr[h]]
    BY <1>1, <1>t DEF MemoryType
  <2> QED BY <2>1, <2>3, <2>4
<1>2. CASE m.ptr[g] = Own
  <2>1. m.small[g] /\ m.storage[g] \in SmallValues /\ v[g] = m.storage[g] /\ v[h] = Nothing /\ h # g
    BY <1>2, ErasedAssumption DEF MemoryFits, Leads
  <2>2. d = [MovedIn(m, h, g) EXCEPT !.ptr = [@ EXCEPT ![h] = m.ptr[g], ![g] = Nothing],
                                     !.small = [@ EXCEPT ![h] = m.small[g], ![g] = FALSE]]
    BY <1>2, <2>1, ErasedAssumption DEF Handover
  <2>3. /\ d.storage = [m.storage EXCEPT ![h] = m.storage[g], ![g] = Husk]
        /\ d.ptr = [m.ptr EXCEPT ![h] = Own, ![g] = Nothing] /\ d.heap = m.heap
        /\ d.small = [m.small EXCEPT ![h] = TRUE, ![g] = FALSE]
    BY <1>2, <2>1, <2>2, <1>t DEF MemoryType, MovedIn
  <2>4. MemoryType([MovedIn(m, h, g) EXCEPT !.ptr = [@ EXCEPT ![h] = m.ptr[g], ![g] = Nothing],
                                     !.small = [@ EXCEPT ![h] = m.small[g], ![g] = FALSE]])
    BY <1>t, <2>1, PlacesAre DEF MemoryType, MovedIn
  <2>5. MemoryType(d)
    BY <2>2, <2>4
  <2> HIDE DEF d
  <2>6. d.ptr = [m.ptr EXCEPT ![h] = m.ptr[g], ![g] = m.ptr[h]]
    BY <2>3, <1>2, <1>t DEF MemoryType
  <2>7. CellsOwned(d)
    BY <2>6, <2>3, <1>t, PointersSwapped
  <2>8. \A k \in Handles : Leads(d, x, k)
    BY <2>1, <2>3, <1>2, ErasedAssumption DEF Leads, MemoryFits, MemoryType
  <2>9. MemoryFits(d, x)
    BY <1>0, <2>5, <2>7, <2>8 DEF MemoryFits
  <2> QED BY <2>9, <2>6 DEF d
<1>3. CASE m.ptr[g] \in HeapCells
  <2>1. PICK c \in HeapCells : c = m.ptr[g]
    BY <1>3
  <2>2. /\ ~m.small[g] /\ c # Nothing /\ m.heap[c] \in LargeValues /\ v[g] = m.heap[c]
        /\ v[h] = Nothing /\ h # g /\ m.storage[g] \notin SmallValues
        /\ m.storage[h] \notin SmallValues
    BY <2>1, ErasedAssumption DEF MemoryFits, Leads
  <2>3. d = [m EXCEPT !.ptr = [@ EXCEPT ![h] = m.ptr[g], ![g] = Nothing],
                      !.small = [@ EXCEPT ![h] = m.small[g], ![g] = FALSE]]
    BY <2>1, <2>2 DEF Handover
  <2>4. /\ d.storage = m.storage /\ d.ptr = [m.ptr EXCEPT ![h] = c, ![g] = Nothing]
        /\ d.heap = m.heap /\ d.small = [m.small EXCEPT ![h] = FALSE, ![g] = FALSE]
    <3>1. m.small[g] = FALSE
      BY <2>2, <1>t DEF MemoryType
    <3> QED BY <2>1, <3>1, <2>3, <1>t DEF MemoryType
  <2>5. MemoryType([m EXCEPT !.ptr = [@ EXCEPT ![h] = m.ptr[g], ![g] = Nothing],
                             !.small = [@ EXCEPT ![h] = m.small[g], ![g] = FALSE]])
    BY <1>t, PlacesAre DEF MemoryType
  <2>6. MemoryType(d)
    BY <2>3, <2>5
  <2> HIDE DEF d
  <2>7. d.ptr = [m.ptr EXCEPT ![h] = m.ptr[g], ![g] = m.ptr[h]]
    BY <2>1, <2>4, <1>t DEF MemoryType
  <2>8. CellsOwned(d)
    BY <2>7, <2>4, <1>t, PointersSwapped
  <2>9. \A k \in Handles : Leads(d, x, k)
    BY <2>2, <2>1, <2>4, ErasedAssumption DEF Leads, MemoryFits, MemoryType
  <2>10. MemoryFits(d, x)
    BY <1>0, <2>6, <2>8, <2>9 DEF MemoryFits
  <2> QED BY <2>10, <2>7 DEF d
<1> QED BY <1>1, <1>2, <1>3, <1>t DEF MemoryType, Places

LEMMA SwapMixedFits ==
    ASSUME NEW m, NEW v, NEW h \in Handles, NEW g \in Handles, MemoryFits(m, v),
           m.ptr[h] = Own, m.ptr[g] \in HeapCells
    PROVE  /\ MemoryFits(SwapMixed(m, h, g), [v EXCEPT ![h] = v[g], ![g] = v[h]])
           /\ SwapMixed(m, h, g).ptr = [m.ptr EXCEPT ![h] = m.ptr[g], ![g] = m.ptr[h]]
<1> DEFINE d == SwapMixed(m, h, g)
           x == [v EXCEPT ![h] = v[g], ![g] = v[h]]
<1>t. MemoryType(m) /\ CellsOwned(m)
  BY DEF MemoryFits
<1>0. x \in [Handles -> Values \cup {Nothing}]
  BY DEF MemoryFits
<1>1. PICK c \in HeapCells : c = m.ptr[g]
  OBVIOUS
<1>2. /\ ~m.small[g] /\ m.heap[c] \in LargeValues /\ v[g] = m.heap[c] /\ h # g
      /\ m.small[h] /\ m.storage[h] \in SmallValues /\ v[h] = m.storage[h]
  BY <1>1, ErasedAssumption DEF MemoryFits, Leads
<1>3. /\ d.storage = [m.storage EXCEPT ![g] = m.storage[h], ![h] = Husk]
      /\ d.ptr = [m.ptr EXCEPT ![g] = Own, ![h] = c] /\ d.heap = m.heap
      /\ d.small = [m.small EXCEPT ![g] = TRUE, ![h] = FALSE]
  BY <1>1, <1>2, <1>t DEF SwapMixed, MemoryType, MovedIn
<1>4. MemoryType(d)
  BY <1>t, <1>1, <1>2, PlacesAre DEF SwapMixed, MemoryType, MovedIn
<1> HIDE DEF d
<1>5. d.ptr = [m.ptr EXCEPT ![h] = m.ptr[g], ![g] = m.ptr[h]]
  BY <1>1, <1>2, <1>3, <1>t DEF MemoryType
<1>6. CellsOwned(d)
  BY <1>5, <1>3, <1>t, PointersSwapped
<1>7. \A k \in Handles : Leads(d, x, k)
  BY <1>1, <1>2, <1>3, ErasedAssumption DEF Leads, MemoryFits, MemoryType
<1>8. MemoryFits(d, x)
  BY <1>0, <1>4, <1>6, <1>7 DEF MemoryFits
<1> QED BY <1>8, <1>5 DEF d

SwapDone(d, m, v, h, g) ==
    /\ MemoryFits(d, [v EXCEPT ![h] = v[g], ![g] = v[h]])
    /\ d.ptr = [m.ptr EXCEPT ![h] = m.ptr[g], ![g] = m.ptr[h]]

LEMMA SwappedFits ==
    ASSUME NEW m, NEW v, NEW h \in Handles, NEW g \in Handles, MemoryFits(m, v),
           m.ptr[h] # Unborn, m.ptr[g] # Unborn
    PROVE  SwapDone(Swapped(m, h, g), m, v, h, g)
<1> USE DEF SwapDone
<1> DEFINE d == Swapped(m, h, g)
           x == [v EXCEPT ![h] = v[g], ![g] = v[h]]
<1>t. MemoryType(m) /\ CellsOwned(m)
  BY DEF MemoryFits
<1>0. x \in [Handles -> Values \cup {Nothing}]
  BY DEF MemoryFits
<1>s. /\ x = [v EXCEPT ![g] = v[h], ![h] = v[g]]
      /\ [m.ptr EXCEPT ![h] = m.ptr[g], ![g] = m.ptr[h]] = [m.ptr EXCEPT ![g] = m.ptr[h], ![h] = m.ptr[g]]
  BY <1>t DEF MemoryFits, MemoryType
<1>1. CASE m.ptr[h] = Nothing
  BY <1>1, HandoverFits DEF Swapped
<1>2. CASE m.ptr[h] # Nothing /\ m.ptr[g] = Nothing
  <2>1. d = Handover(m, g, h)
    BY <1>2 DEF Swapped
  <2> QED BY <1>2, <2>1, <1>s, HandoverFits
<1>3. CASE m.ptr[h] = Own /\ m.ptr[g] = Own
  <2>1. /\ m.small[g] /\ m.storage[g] \in SmallValues /\ v[g] = m.storage[g]
        /\ m.small[h] /\ m.storage[h] \in SmallValues /\ v[h] = m.storage[h]
    BY <1>3 DEF MemoryFits, Leads
  <2>2. d = SwapSmall(m, h, g)
    BY <1>3, <2>1, ErasedAssumption DEF Swapped
  <2>3. /\ d.storage = [m.storage EXCEPT ![h] = m.storage[g], ![g] = m.storage[h]]
        /\ d.ptr = m.ptr /\ d.heap = m.heap /\ d.small = m.small
    BY <2>2, <1>t DEF SwapSmall, MemoryType
  <2>4. MemoryType(SwapSmall(m, h, g))
    BY <1>t DEF SwapSmall, MemoryType
  <2>5. MemoryType(d)
    BY <2>2, <2>4
  <2> HIDE DEF d
  <2>6. d.ptr = [m.ptr EXCEPT ![h] = m.ptr[g], ![g] = m.ptr[h]]
    BY <2>3, <1>3, <1>t DEF MemoryType
  <2>7. CellsOwned(d)
    BY <2>3, <1>t DEF CellsOwned
  <2>8. \A k \in Handles : Leads(d, x, k)
    BY <2>1, <2>3, <1>3, ErasedAssumption DEF Leads, MemoryFits, MemoryType
  <2>9. MemoryFits(d, x)
    BY <1>0, <2>5, <2>7, <2>8 DEF MemoryFits
  <2> QED BY <2>9, <2>6 DEF d
<1>4. CASE m.ptr[h] \in HeapCells /\ m.ptr[g] \in HeapCells
  <2>1. ~m.small[g] /\ ~m.small[h]
    BY <1>4 DEF MemoryFits, Leads
  <2>2. d = [m EXCEPT !.ptr = [@ EXCEPT ![h] = m.ptr[g], ![g] = m.ptr[h]]]
    BY <1>4, <2>1, ErasedAssumption DEF Swapped
  <2>3. /\ d.storage = m.storage /\ d.heap = m.heap /\ d.small = m.small
        /\ d.ptr = [m.ptr EXCEPT ![h] = m.ptr[g], ![g] = m.ptr[h]]
    BY <2>2, <1>t DEF MemoryType
  <2>4. MemoryType([m EXCEPT !.ptr = [@ EXCEPT ![h] = m.ptr[g], ![g] = m.ptr[h]]])
    BY <1>t DEF MemoryType
  <2>5. MemoryType(d)
    BY <2>2, <2>4
  <2> HIDE DEF d
  <2>7. CellsOwned(d)
    BY <2>3, <1>t, PointersSwapped
  <2>8. \A k \in Handles : Leads(d, x, k)
    BY <2>1, <2>3, <1>4, ErasedAssumption DEF Leads, MemoryFits, MemoryType
  <2>9. MemoryFits(d, x)
    BY <1>0, <2>5, <2>7, <2>8 DEF MemoryFits
  <2> QED BY <2>9, <2>3 DEF d
<1>5. CASE m.ptr[h] = Own /\ m.ptr[g] \in HeapCells
  <2>1. m.small[h] /\ ~m.small[g]
    BY <1>5 DEF MemoryFits, Leads
  <2>2. d = SwapMixed(m, h, g)
    BY <1>5, <2>1, ErasedAssumption DEF Swapped
  <2> QED BY <1>5, <2>2, SwapMixedFits
<1>6. CASE m.ptr[h] \in HeapCells /\ m.ptr[g] = Own
  <2>1. ~m.small[h] /\ m.small[g]
    BY <1>6 DEF MemoryFits, Leads
  <2>2. d = SwapMixed(m, g, h)
    BY <1>6, <2>1, ErasedAssumption DEF Swapped
  <2> QED BY <1>6, <2>2, <1>s, SwapMixedFits
<1> QED BY <1>1, <1>2, <1>3, <1>4, <1>5, <1>6, <1>t DEF MemoryType, Places

(***************************************************************************)
(* The steps.                                                              *)
(***************************************************************************)
ErasedInv == MemoryFits(Memory, value)

LEMMA Remembered ==
    ASSUME NEW m, NEW v, MemoryFits(m, v), MemoryBecomes(m), value' = v
    PROVE  ErasedInv'
<1>1. m = [ptr |-> m.ptr, small |-> m.small, storage |-> m.storage, heap |-> m.heap, wronged |-> m.wronged]
  BY DEF MemoryFits, MemoryType
<1>2. Memory' = m
  BY <1>1 DEF Memory, MemoryBecomes
<1> QED BY <1>2 DEF ErasedInv, MemoryFits, MemoryType, Leads, CellsOwned

(* A handle that ends, its model destroyed before.                           *)
LEMMA UnbornFits ==
    ASSUME NEW m, NEW v, NEW h \in Handles, MemoryFits(m, v), m.ptr[h] = Nothing
    PROVE  MemoryFits([m EXCEPT !.ptr[h] = Unborn, !.storage[h] = Nothing], v)
<1> DEFINE d == [m EXCEPT !.ptr[h] = Unborn, !.storage[h] = Nothing]
<1>t. MemoryType(m) /\ CellsOwned(m)
  BY DEF MemoryFits
<1>1. /\ d.storage = [m.storage EXCEPT ![h] = Nothing] /\ d.ptr = [m.ptr EXCEPT ![h] = Unborn]
      /\ d.heap = m.heap /\ d.small = m.small
  BY <1>t DEF MemoryType
<1>2. MemoryType(d)
  BY <1>t, PlacesAre DEF MemoryType
<1> HIDE DEF d
<1>3. \A k \in Handles : Leads(d, v, k)
  BY <1>1, ErasedAssumption DEF Leads, MemoryFits, MemoryType
<1>4. CellsOwned(d)
  BY <1>1, <1>t, ErasedAssumption DEF CellsOwned, MemoryType
<1>5. MemoryFits(d, v)
  BY <1>2, <1>3, <1>4 DEF MemoryFits
<1> QED BY <1>5 DEF d

LEMMA FreshCellFree ==
    ASSUME CanAllocate
    PROVE  FreshCell \in HeapCells /\ Memory.heap[FreshCell] = Nothing
BY DEF CanAllocate, FreshCell, Memory

LEMMA ErasedInitFits == ErasedInit => ErasedInv
BY ErasedAssumption, PlacesAre
   DEF ErasedInit, ErasedInv, MemoryFits, MemoryType, Memory, Leads, CellsOwned, Values

LEMMA ErasedStep == ASSUME ErasedInv, [ErasedNext]_erasedVars PROVE ErasedInv'
<1>0. MemoryFits(Memory, value) /\ Memory.ptr = ptr
  BY DEF ErasedInv, Memory
<1>1. ASSUME NEW h \in Handles, NEW w \in Values, Construct(h, w) PROVE ErasedInv'
  <2>1. ptr[h] = Unborn /\ (w \in LargeValues => CanAllocate)
    BY <1>1 DEF Construct, Exists
  <2>2. MemoryFits(Built(Memory, h, w), [value EXCEPT ![h] = w])
    BY <2>1, <1>0, FreshCellFree, BuiltFits
  <2> QED BY <1>1, <2>2, Remembered DEF Construct
<1>2. ASSUME NEW h \in Handles, DefaultConstruct(h) PROVE ErasedInv'
  <2> DEFINE d == [Memory EXCEPT !.ptr[h] = Nothing, !.small[h] = FALSE]
  <2>1. ptr[h] = Unborn /\ MemoryType(Memory) /\ CellsOwned(Memory)
    BY <1>2, <1>0 DEF DefaultConstruct, Exists, MemoryFits
  <2>2. /\ d.ptr = [ptr EXCEPT ![h] = Nothing] /\ d.small = [Memory.small EXCEPT ![h] = FALSE]
        /\ d.storage = Memory.storage /\ d.heap = Memory.heap
    BY <2>1 DEF Memory
  <2>3. MemoryType(d)
    BY <2>1, PlacesAre DEF MemoryType
  <2> HIDE DEF d
  <2>4. \A k \in Handles : Leads(d, value, k)
    BY <2>1, <2>2, <1>0, ErasedAssumption DEF Leads, MemoryFits, MemoryType
  <2>5. CellsOwned(d)
    BY <2>1, <2>2, <1>0, ErasedAssumption DEF CellsOwned, MemoryType
  <2>6. MemoryFits(d, value)
    BY <1>0, <2>3, <2>4, <2>5 DEF MemoryFits
  <2> QED BY <1>2, <2>6, Remembered DEF DefaultConstruct, d
<1>3. ASSUME NEW h \in Handles, NEW g \in Handles, CopyConstruct(h, g) PROVE ErasedInv'
  <2>1. ptr[h] = Unborn /\ ptr[g] # Unborn /\ CanAllocate
    BY <1>3 DEF CopyConstruct, Exists
  <2>2. MemoryFits(CopyOf(Memory, h, g), [value EXCEPT ![h] = value[g]])
    BY <2>1, <1>0, FreshCellFree, CopyFits
  <2> QED BY <1>3, <2>2, Remembered DEF CopyConstruct
<1>4. ASSUME NEW h \in Handles, NEW g \in Handles, MoveConstruct(h, g) PROVE ErasedInv'
  <2>1. ptr[h] = Unborn /\ ptr[g] # Unborn /\ h # g
    BY <1>4 DEF MoveConstruct, Exists
  <2>2. MemoryFits(MoveOf(Memory, h, g), [value EXCEPT ![h] = value[g], ![g] = Nothing])
    BY <2>1, <1>0, MoveFits
  <2> QED BY <1>4, <2>2, Remembered DEF MoveConstruct
<1>5. ASSUME NEW h \in Handles, NEW g \in Handles, NEW t \in Handles, CopyAssign(h, g, t)
      PROVE  ErasedInv'
  <2>1. ptr[h] # Unborn /\ ptr[g] # Unborn /\ ptr[t] = Unborn /\ CanAllocate
    BY <1>5 DEF CopyAssign, Exists
  <2>2. PICK m1, v1 : m1 = CopyOf(Memory, t, g) /\ v1 = [value EXCEPT ![t] = value[g]]
    OBVIOUS
  <2>3. MemoryFits(m1, v1) /\ m1.ptr[h] # Unborn /\ m1.ptr[t] # Unborn
    <3>1. h # t /\ FreshCell \in HeapCells /\ Memory.heap[FreshCell] = Nothing
      BY <2>1, FreshCellFree
    <3>2. /\ MemoryFits(CopyOf(Memory, t, g), [value EXCEPT ![t] = value[g]])
          /\ \A k \in Handles : k # t => CopyOf(Memory, t, g).ptr[k] = Memory.ptr[k]
          /\ CopyOf(Memory, t, g).ptr[t] # Unborn
      BY <2>1, <3>1, <1>0, CopyFits
    <3>3. MemoryFits(m1, v1) /\ m1.ptr[h] = ptr[h] /\ m1.ptr[t] # Unborn
      BY <3>1, <3>2, <2>2, <1>0
    <3> QED BY <3>3, <2>1
  <2>4. PICK m2, v2 : m2 = Swapped(m1, h, t) /\ v2 = [v1 EXCEPT ![h] = v1[t], ![t] = v1[h]]
    OBVIOUS
  <2>5. MemoryFits(m2, v2) /\ m2.ptr[t] # Unborn
    <3>1. SwapDone(Swapped(m1, h, t), m1, v1, h, t)
      BY <2>3, SwappedFits
    <3>2. MemoryFits(m2, v2) /\ m2.ptr = [m1.ptr EXCEPT ![h] = m1.ptr[t], ![t] = m1.ptr[h]]
      BY <3>1, <2>4 DEF SwapDone
    <3> QED BY <3>2, <2>3 DEF MemoryFits, MemoryType
  <2>7. PICK m3, v3 : m3 = Destroyed(m2, t) /\ v3 = [v2 EXCEPT ![t] = Nothing]
    OBVIOUS
  <2>8. MemoryFits(m3, v3) /\ m3.ptr[t] = Nothing
    <3>1. /\ MemoryFits(Destroyed(m2, t), [v2 EXCEPT ![t] = Nothing])
          /\ Destroyed(m2, t).ptr = [m2.ptr EXCEPT ![t] = Nothing]
      BY <2>5, DestroyedFits
    <3>2. [m2.ptr EXCEPT ![t] = Nothing][t] = Nothing
      BY <2>5 DEF MemoryFits, MemoryType
    <3> QED BY <3>1, <3>2, <2>7
  <2>9. MemoryFits([m3 EXCEPT !.ptr[t] = Unborn, !.storage[t] = Nothing], v3)
    BY <2>8, UnbornFits
  <2>10. value[t] = Nothing /\ h # t /\ g # t
    BY <2>1, <1>0 DEF MemoryFits, Leads
  <2>11. v3 = [value EXCEPT ![h] = value[g]]
    BY <2>2, <2>4, <2>7, <2>10, <1>0 DEF MemoryFits
  <2> QED BY <1>5, <2>2, <2>4, <2>7, <2>9, <2>11, Remembered DEF CopyAssign
<1>6. ASSUME NEW h \in Handles, NEW g \in Handles, MoveAssign(h, g) PROVE ErasedInv'
  <2>1. ptr[h] # Unborn /\ ptr[g] # Unborn
    BY <1>6 DEF MoveAssign, Exists
  <2>2. CASE h = g
    BY <1>6, <2>2, <1>0 DEF MoveAssign, ErasedInv, Memory, MemoryFits, MemoryType, Leads, CellsOwned
  <2>3. CASE h # g
    <3>1. PICK m1, v1 : m1 = Destroyed(Memory, h) /\ v1 = [value EXCEPT ![h] = Nothing]
      OBVIOUS
    <3>2. MemoryFits(m1, v1) /\ m1.ptr = [ptr EXCEPT ![h] = Nothing]
      BY <2>1, <3>1, <1>0, DestroyedFits
    <3>3. m1.ptr[h] = Nothing /\ m1.ptr[g] # Unborn
      BY <3>2, <2>1, <1>0, <2>3 DEF MemoryFits, MemoryType
    <3>4. MemoryFits(MoveOf(m1, h, g), [v1 EXCEPT ![h] = v1[g], ![g] = Nothing])
      BY <3>2, <3>3, <2>3, MoveFits
    <3>5. [v1 EXCEPT ![h] = v1[g], ![g] = Nothing] = [value EXCEPT ![h] = value[g], ![g] = Nothing]
      BY <3>1, <2>3, <1>0 DEF MemoryFits
    <3> QED BY <1>6, <2>3, <3>1, <3>4, <3>5, Remembered DEF MoveAssign
  <2> QED BY <2>2, <2>3
<1>7. ASSUME NEW h \in Handles, NEW w \in Values, EmplaceModel(h, w) PROVE ErasedInv'
  <2>1. ptr[h] # Unborn /\ (w \in LargeValues => CanAllocate)
    BY <1>7 DEF EmplaceModel, Exists
  <2>2. PICK m1, v1 : m1 = Destroyed(Memory, h) /\ v1 = [value EXCEPT ![h] = Nothing]
    OBVIOUS
  <2>3. /\ MemoryFits(m1, v1) /\ m1.ptr = [ptr EXCEPT ![h] = Nothing]
        /\ \A c \in HeapCells : Memory.heap[c] = Nothing => m1.heap[c] = Nothing
    <3>1. /\ MemoryFits(Destroyed(Memory, h), [value EXCEPT ![h] = Nothing])
          /\ Destroyed(Memory, h).ptr = [Memory.ptr EXCEPT ![h] = Nothing]
          /\ \A c \in HeapCells : Memory.heap[c] = Nothing => Destroyed(Memory, h).heap[c] = Nothing
      BY <2>1, <1>0, DestroyedFits
    <3> QED BY <3>1, <2>2, <1>0
  <2>4. m1.ptr[h] = Nothing
    BY <2>3, <1>0 DEF MemoryFits, MemoryType
  <2>5. w \in LargeValues => FreshCell \in HeapCells /\ m1.heap[FreshCell] = Nothing
    BY <2>1, <2>3, FreshCellFree
  <2>6. MemoryFits(Built(m1, h, w), [v1 EXCEPT ![h] = w])
    BY <2>3, <2>4, <2>5, BuiltFits
  <2>7. [v1 EXCEPT ![h] = w] = [value EXCEPT ![h] = w]
    BY <2>2, <1>0 DEF MemoryFits
  <2> QED BY <1>7, <2>2, <2>6, <2>7, Remembered DEF EmplaceModel
<1>8. ASSUME NEW h \in Handles, NEW g \in Handles, Swap(h, g) PROVE ErasedInv'
  <2>1. ptr[h] # Unborn /\ ptr[g] # Unborn
    BY <1>8 DEF Swap, Exists
  <2>2. MemoryFits(Swapped(Memory, h, g), [value EXCEPT ![h] = value[g], ![g] = value[h]])
    BY <2>1, <1>0, SwappedFits DEF SwapDone
  <2> QED BY <1>8, <2>2, Remembered DEF Swap
<1>9. ASSUME NEW h \in Handles, Destruct(h) PROVE ErasedInv'
  <2>1. ptr[h] # Unborn
    BY <1>9 DEF Destruct, Exists
  <2>2. PICK m1, v1 : m1 = Destroyed(Memory, h) /\ v1 = [value EXCEPT ![h] = Nothing]
    OBVIOUS
  <2>3. MemoryFits(m1, v1) /\ m1.ptr = [ptr EXCEPT ![h] = Nothing]
    BY <2>1, <2>2, <1>0, DestroyedFits
  <2>4. m1.ptr[h] = Nothing
    BY <2>3, <1>0 DEF MemoryFits, MemoryType
  <2>5. MemoryFits([m1 EXCEPT !.ptr[h] = Unborn, !.storage[h] = Nothing], v1)
    BY <2>3, <2>4, UnbornFits
  <2> QED BY <1>9, <2>2, <2>5, Remembered DEF Destruct
<1>10. CASE UNCHANGED erasedVars
  BY <1>10, <1>0 DEF erasedVars, ErasedInv, Memory, MemoryFits, MemoryType, Leads, CellsOwned
<1> QED BY <1>1, <1>2, <1>3, <1>4, <1>5, <1>6, <1>7, <1>8, <1>9, <1>10 DEF ErasedNext

LEMMA FitMeansFound == ErasedInv => HandlesKeepValues
<1> SUFFICES ASSUME ErasedInv PROVE HandlesKeepValues
  OBVIOUS
<1>0. /\ Memory.ptr = ptr /\ Memory.storage = storage /\ Memory.heap = heap
      /\ Memory.small = is_small /\ Memory.wronged = wronged
      /\ MemoryType(Memory) /\ CellsOwned(Memory) /\ \A h \in Handles : Leads(Memory, value, h)
  BY DEF ErasedInv, MemoryFits, Memory
<1>1. \A h \in Handles : Content(h) = value[h]
  BY <1>0, ErasedAssumption DEF Content, Leads, MemoryType, Places
<1>2. ~wronged
  BY <1>0 DEF MemoryType
<1>3. ASSUME NEW c \in HeapCells
      PROVE  heap[c] # Nothing <=> Cardinality({h \in Handles : ptr[h] = c}) = 1
  <2>1. CASE heap[c] # Nothing
    <3>1. PICK h \in Handles : ptr[h] = c
      BY <1>0, <2>1 DEF CellsOwned
    <3>2. {g \in Handles : ptr[g] = c} = {h}
      BY <3>1, <1>0 DEF CellsOwned
    <3> QED BY <2>1, <3>2, FS_Singleton
  <2>2. CASE heap[c] = Nothing
    <3>1. {g \in Handles : ptr[g] = c} = {}
      BY <2>2, <1>0, ErasedAssumption DEF Leads, Values
    <3> QED BY <2>2, <3>1, FS_EmptySet
  <2> QED BY <2>1, <2>2
<1>4. \A h \in Handles : storage[h] \in SmallValues => ptr[h] = Own
  BY <1>0 DEF Leads, MemoryType, Places
<1> QED BY <1>1, <1>2, <1>3, <1>4 DEF HandlesKeepValues

(* type_erased's special members, destroy and swap: for any handles, models  *)
(* and heap, and any sequence of operations, a handle leads to its model,    *)
(* nothing dead is destroyed, and nothing on the heap is shared or leaked.   *)
THEOREM HandlesAlwaysKeepValues == ErasedSpec => []HandlesKeepValues
<1>1. ErasedInit => ErasedInv
  BY ErasedInitFits
<1>2. ErasedInv /\ [ErasedNext]_erasedVars => ErasedInv'
  BY ErasedStep
<1>3. ErasedInv => HandlesKeepValues
  BY FitMeansFound
<1> QED BY <1>1, <1>2, <1>3, PTL DEF ErasedSpec

(***************************************************************************)
(* The registries.                                                         *)
(***************************************************************************)
LevelPcs == {"idle", "job", "lock", "walk", "find", "create", "have", "register", "check", "site", "line"}
ThreadType == [pc : LevelPcs, todo : Seq(Part), name : ModuleNames \cup {Generic},
               walk : SUBSET ModuleNames, alone : BOOLEAN, stmt : DOMAIN Statements \cup {0},
               since : AllLevels \cup {Absent}]

LevelTypes ==
    /\ genericLevel \in AllLevels /\ settled \in AllLevels \cup {Absent}
    /\ modules \in [ModuleNames -> Nat \cup {Absent}]
    /\ moduleLevel \in Seq(AllLevels)
    /\ sites \in Seq([stmt : DOMAIN Statements, minLevel : AllLevels])
    /\ site \in [DOMAIN Statements -> Nat]
    /\ lt \in [LevelThreads -> ThreadType]
    /\ associated \subseteq ModuleNames \X Nat

(* What a thread is about fits to where it is.                               *)
JobFits(l) ==
    /\ l.pc \in {"job", "lock", "walk"} => l.todo # <<>>
    /\ l.pc \in {"lock", "walk"} => Head(l.todo).op = "all"
    /\ l.pc \in {"find", "create", "have"} =>
         l.name \in ModuleNames /\ (l.todo # <<>> => Head(l.todo).op = "set")
    /\ l.stmt # 0 => l.todo = <<>>

LevelTypesOK == LevelTypes /\ \A t \in LevelThreads : JobFits(lt[t])

LEMMA PartsAre ==
    ASSUME NEW x \in Part
    PROVE  /\ x.op \in {"all", "set", "wild"} => x.level \in AllLevels
           /\ x.op = "set" => x.name \in ModuleNames \cup {Generic}
           /\ x.op = "wild" => x.names \subseteq ModuleNames \cup {Generic}
BY DEF Part

LEMMA NoWorkIs == NoWork \in ThreadType /\ JobFits(NoWork)
<1>1. <<>> \in Seq(Part)
  OBVIOUS
<1>2. NoWork \in ThreadType
  BY <1>1 DEF NoWork, ThreadType, LevelPcs
<1>3. JobFits(NoWork)
  BY DEF NoWork, JobFits
<1> QED BY <1>2, <1>3

LEMMA JobIs ==
    ASSUME LevelTypesOK, NEW t \in LevelThreads, lt[t].todo # <<>>
    PROVE  Job(t) \in Part /\ Tail(lt[t].todo) \in Seq(Part)
BY HeadTailProperties DEF LevelTypesOK, LevelTypes, ThreadType, Job

LEMMA NextJobIs ==
    ASSUME LevelTypesOK, NEW t \in LevelThreads, lt[t].todo # <<>>
    PROVE  NextJob(t, lt[t]) \in ThreadType /\ JobFits(NextJob(t, lt[t]))
<1>1. lt[t] \in ThreadType /\ JobFits(lt[t]) /\ Tail(lt[t].todo) \in Seq(Part)
  BY JobIs DEF LevelTypesOK, LevelTypes
<1> DEFINE l == lt[t]
           rest == Tail(l.todo)
           pc == IF rest = <<>> THEN "idle" ELSE "job"
<1>2. PICK r : r = rest /\ r \in Seq(Part)
  BY <1>1
<1>3. NextJob(t, lt[t]) = [l EXCEPT !.todo = r, !.pc = IF r = <<>> THEN "idle" ELSE "job", !.walk = {}]
  BY <1>2 DEF NextJob
<1>4. [l EXCEPT !.todo = r, !.pc = IF r = <<>> THEN "idle" ELSE "job", !.walk = {}] \in ThreadType
  BY <1>1, <1>2 DEF ThreadType, LevelPcs
<1>5. l.stmt = 0
  BY <1>1 DEF JobFits
<1> HIDE DEF l
<1>6. JobFits([l EXCEPT !.todo = r, !.pc = IF r = <<>> THEN "idle" ELSE "job", !.walk = {}])
  BY <1>1, <1>5, <1>2 DEF ThreadType, JobFits, l
<1> QED BY <1>3, <1>4, <1>6

LEMMA PutInPlace ==
    ASSUME NEW S, NEW q \in Seq(S), NEW i, NEW e \in S
    PROVE  /\ [q EXCEPT ![i] = e] \in Seq(S) /\ Len([q EXCEPT ![i] = e]) = Len(q)
           /\ \A j \in 1 .. Len(q) : [q EXCEPT ![i] = e][j] = IF j = i THEN e ELSE q[j]
<1>1. CASE i \in 1 .. Len(q)
  BY <1>1, ExceptSeq
<1>2. CASE i \notin 1 .. Len(q)
  <2>1. [q EXCEPT ![i] = e] = q
    BY <1>2
  <2> QED BY <2>1, <1>2
<1> QED BY <1>1, <1>2

LEMMA DoesFits ==
    ASSUME LevelTypesOK, NEW t \in LevelThreads, NEW w, w \in ThreadType, JobFits(w), LevelDoes(t, w)
    PROVE  /\ lt' \in [LevelThreads -> ThreadType] /\ \A u \in LevelThreads : JobFits(lt'[u])
           /\ lt'[t] = w /\ \A u \in LevelThreads : u # t => lt'[u] = lt[u]
BY DEF LevelTypesOK, LevelTypes, LevelDoes

LEMMA LevelInitTypes == LevelInit => LevelTypesOK
<1> SUFFICES ASSUME LevelInit PROVE LevelTypesOK
  OBVIOUS
<1>1. GlobalMin \in AllLevels
  BY LevelsAssumption DEF GlobalMin, AllLevels, nolog
<1>2. LevelTypes
  BY <1>1, NoWorkIs, LevelsAssumption DEF LevelInit, LevelTypes
<1>3. \A t \in LevelThreads : JobFits(lt[t])
  BY NoWorkIs DEF LevelInit
<1> QED BY <1>2, <1>3 DEF LevelTypesOK

LEMMA WorkIs ==
    ASSUME LevelTypesOK, NEW t \in LevelThreads
    PROVE  lt[t] \in ThreadType /\ JobFits(lt[t])
BY DEF LevelTypesOK, LevelTypes

LEMMA StepTypes ==
    ASSUME LevelTypesOK, NEW t \in LevelThreads
    PROVE  /\ Configure(t) => LevelTypesOK'
           /\ SetDefault(t) => LevelTypesOK'
           /\ BeginWalk(t) => LevelTypesOK'
           /\ SetNext(t) => LevelTypesOK'
           /\ EndWalk(t) => LevelTypesOK'
           /\ RejectPart(t) => LevelTypesOK'
           /\ StartSet(t) => LevelTypesOK'
           /\ FindModule(t) => LevelTypesOK'
           /\ CreateModule(t) => LevelTypesOK'
           /\ SetModuleLevel(t) => LevelTypesOK'
           /\ RegisterSite(t) => LevelTypesOK'
           /\ CheckModule(t) => LevelTypesOK'
           /\ CheckSite(t) => LevelTypesOK'
           /\ MakeLine(t) => LevelTypesOK'
<1>0. lt[t] \in ThreadType /\ JobFits(lt[t])
  BY WorkIs
<1>t. LevelTypes
  BY DEF LevelTypesOK
<1> USE DEF LevelAt
<1>1. ASSUME Configure(t) PROVE LevelTypesOK'
  <2>1. PICK parts \in Configurations :
         lt' = [u \in LevelThreads |->
                  IF u = t THEN [NoWork EXCEPT !.pc = "job", !.todo = parts, !.alone = (Setters = {})]
                  ELSE [lt[u] EXCEPT !.alone = FALSE, !.since = Absent]]
    BY <1>1 DEF Configure
  <2>2. parts \in Seq(Part) /\ parts # <<>>
    BY LevelsAssumption
  <2>3. PICK a \in BOOLEAN : a = (Setters = {})
    OBVIOUS
  <2>4. /\ [NoWork EXCEPT !.pc = "job", !.todo = parts, !.alone = a] \in ThreadType
        /\ JobFits([NoWork EXCEPT !.pc = "job", !.todo = parts, !.alone = a])
    <3>1. [NoWork EXCEPT !.pc = "job", !.todo = parts, !.alone = a] \in ThreadType
      BY <2>2, NoWorkIs DEF ThreadType, LevelPcs
    <3>2. JobFits([NoWork EXCEPT !.pc = "job", !.todo = parts, !.alone = a])
      BY <2>2 DEF JobFits, NoWork
    <3> QED BY <3>1, <3>2
  <2>5. ASSUME NEW u \in LevelThreads
        PROVE  /\ [lt[u] EXCEPT !.alone = FALSE, !.since = Absent] \in ThreadType
               /\ JobFits([lt[u] EXCEPT !.alone = FALSE, !.since = Absent])
    <3>1. PICK l : l = lt[u] /\ l \in ThreadType /\ JobFits(l)
      BY WorkIs
    <3>2. [l EXCEPT !.alone = FALSE, !.since = Absent] \in ThreadType
      BY <3>1 DEF ThreadType
    <3>3. JobFits([l EXCEPT !.alone = FALSE, !.since = Absent])
      BY <3>1 DEF ThreadType, JobFits
    <3> QED BY <3>1, <3>2, <3>3
  <2>6. lt' \in [LevelThreads -> ThreadType] /\ \A u \in LevelThreads : JobFits(lt'[u])
    BY <2>1, <2>3, <2>4, <2>5
  <2> QED BY <1>1, <1>t, <2>6 DEF Configure, LevelTypesOK, LevelTypes, registryVars, siteVars
<1>2. ASSUME SetDefault(t) PROVE LevelTypesOK'
  <2>1. Job(t).level \in AllLevels /\ Job(t).op = "all" /\ lt[t].todo # <<>>
    BY <1>2, <1>0, JobIs, PartsAre DEF SetDefault, JobFits
  <2>2. [lt[t] EXCEPT !.pc = "lock"] \in ThreadType
    BY <1>0 DEF ThreadType, LevelPcs
  <2>3. JobFits([lt[t] EXCEPT !.pc = "lock"])
    BY <1>0, <1>2, <2>1 DEF ThreadType, JobFits, Job
  <2>4. lt' \in [LevelThreads -> ThreadType] /\ \A u \in LevelThreads : JobFits(lt'[u])
    BY <1>2, <2>2, <2>3, DoesFits DEF SetDefault
  <2> QED BY <1>2, <1>t, <2>1, <2>4 DEF SetDefault, LevelTypesOK, LevelTypes, siteVars
<1>3. ASSUME BeginWalk(t) PROVE LevelTypesOK'
  <2>1. PICK ns : ns = {n \in ModuleNames : modules[n] # Absent} /\ ns \in SUBSET ModuleNames
    OBVIOUS
  <2>2. [lt[t] EXCEPT !.pc = "walk", !.walk = ns] \in ThreadType
    BY <1>0, <2>1 DEF ThreadType, LevelPcs
  <2>3. JobFits([lt[t] EXCEPT !.pc = "walk", !.walk = ns])
    BY <1>0, <1>3 DEF ThreadType, JobFits, BeginWalk
  <2>4. lt' \in [LevelThreads -> ThreadType] /\ \A u \in LevelThreads : JobFits(lt'[u])
    BY <1>3, <2>1, <2>2, <2>3, DoesFits DEF BeginWalk
  <2> QED BY <1>3, <1>t, <2>4 DEF BeginWalk, LevelTypesOK, LevelTypes, siteVars, registryVars
<1>4. ASSUME SetNext(t) PROVE LevelTypesOK'
  <2>1. Job(t).level \in AllLevels
    BY <1>4, <1>0, JobIs, PartsAre DEF SetNext, JobFits, Walking, Job
  <2>2. PICK n \in lt[t].walk : /\ moduleLevel' = [moduleLevel EXCEPT ![modules[n]] = Job(t).level]
                                /\ LevelDoes(t, [lt[t] EXCEPT !.walk = @ \ {n}])
    BY <1>4 DEF SetNext
  <2>3. PICK ns : ns = lt[t].walk \ {n} /\ ns \in SUBSET ModuleNames
    BY <1>0 DEF ThreadType
  <2>4. [lt[t] EXCEPT !.walk = ns] \in ThreadType
    BY <1>0, <2>3 DEF ThreadType
  <2>5. JobFits([lt[t] EXCEPT !.walk = ns])
    BY <1>0 DEF ThreadType, JobFits
  <2>6. lt' \in [LevelThreads -> ThreadType] /\ \A u \in LevelThreads : JobFits(lt'[u])
    BY <2>2, <2>3, <2>4, <2>5, DoesFits
  <2>7. moduleLevel' \in Seq(AllLevels)
    BY <2>1, <2>2, <1>t, PutInPlace DEF LevelTypes
  <2> QED BY <1>4, <1>t, <2>6, <2>7 DEF SetNext, LevelTypesOK, LevelTypes, siteVars
<1>5. ASSUME EndWalk(t) PROVE LevelTypesOK'
  <2>1. lt[t].todo # <<>> /\ Job(t).level \in AllLevels
    BY <1>5, <1>0, JobIs, PartsAre DEF EndWalk, JobFits, Walking, Job
  <2>2. LevelDoes(t, NextJob(t, lt[t])) /\ NextJob(t, lt[t]) \in ThreadType /\ JobFits(NextJob(t, lt[t]))
    BY <1>5, <2>1, NextJobIs DEF EndWalk
  <2>3. lt' \in [LevelThreads -> ThreadType] /\ \A u \in LevelThreads : JobFits(lt'[u])
    BY <2>2, DoesFits
  <2>4. settled' \in AllLevels \cup {Absent}
    BY <1>5, <2>1, <1>t DEF EndWalk, LevelTypes
  <2> QED BY <1>5, <1>t, <2>3, <2>4 DEF EndWalk, LevelTypesOK, LevelTypes, siteVars, registryVars
<1>6. ASSUME RejectPart(t) PROVE LevelTypesOK'
  <2>3. lt' \in [LevelThreads -> ThreadType] /\ \A u \in LevelThreads : JobFits(lt'[u])
    BY <1>6, NoWorkIs, DoesFits DEF RejectPart
  <2> QED BY <1>6, <1>t, <2>3 DEF RejectPart, LevelTypesOK, LevelTypes, siteVars, registryVars
<1>7. ASSUME StartSet(t) PROVE LevelTypesOK'
  <2>1. Job(t).level \in AllLevels /\ Job(t).name \in ModuleNames \cup {Generic} /\ lt[t].todo # <<>>
        /\ Job(t).op = "set"
    BY <1>7, <1>0, JobIs, PartsAre DEF StartSet, JobFits
  <2>2. CASE Job(t).name = Generic
    <3>2. LevelDoes(t, NextJob(t, lt[t])) /\ NextJob(t, lt[t]) \in ThreadType /\ JobFits(NextJob(t, lt[t]))
      BY <1>7, <2>1, <2>2, NextJobIs DEF StartSet
    <3>3. lt' \in [LevelThreads -> ThreadType] /\ \A u \in LevelThreads : JobFits(lt'[u])
      BY <3>2, DoesFits
    <3> QED BY <1>7, <1>t, <2>1, <2>2, <3>3 DEF StartSet, LevelTypesOK, LevelTypes, siteVars
  <2>3. CASE Job(t).name # Generic
    <3>1. PICK n : n = Job(t).name /\ n \in ModuleNames
      BY <2>1, <2>3
    <3>2. [lt[t] EXCEPT !.pc = "find", !.name = n] \in ThreadType
      BY <1>0, <3>1 DEF ThreadType, LevelPcs
    <3>4. JobFits([lt[t] EXCEPT !.pc = "find", !.name = n])
      BY <1>0, <3>1, <2>1 DEF ThreadType, JobFits, Job
    <3>3. lt' \in [LevelThreads -> ThreadType] /\ \A u \in LevelThreads : JobFits(lt'[u])
      BY <1>7, <2>3, <3>1, <3>2, <3>4, DoesFits DEF StartSet
    <3> QED BY <1>7, <1>t, <2>3, <3>3 DEF StartSet, LevelTypesOK, LevelTypes, siteVars
  <2> QED BY <2>2, <2>3
<1>8. ASSUME FindModule(t) PROVE LevelTypesOK'
  <2> DEFINE n == lt[t].name
  <2>1. n \in ModuleNames /\ modules[n] \in Nat \cup {Absent}
    BY <1>8, <1>0, <1>t DEF FindModule, JobFits, LevelTypes
  <2>2. PICK pc \in {"have", "create"} : pc = IF modules[n] # Absent THEN "have" ELSE "create"
    OBVIOUS
  <2>3. [lt[t] EXCEPT !.pc = pc] \in ThreadType
    BY <1>0, <2>2 DEF ThreadType, LevelPcs
  <2>4. JobFits([lt[t] EXCEPT !.pc = pc])
    BY <1>0, <1>8 DEF ThreadType, JobFits, FindModule
  <2>5. lt' \in [LevelThreads -> ThreadType] /\ \A u \in LevelThreads : JobFits(lt'[u])
    BY <1>8, <2>2, <2>3, <2>4, DoesFits DEF FindModule
  <2>6. associated' \subseteq ModuleNames \X Nat
    BY <1>8, <2>1, <1>t DEF FindModule, LevelTypes
  <2> QED BY <1>8, <1>t, <2>5, <2>6 DEF FindModule, LevelTypesOK, LevelTypes, siteVars, registryVars
<1>9. ASSUME CreateModule(t) PROVE LevelTypesOK'
  <2>1. PICK n : n = lt[t].name /\ n \in ModuleNames /\ modules[n] \in Nat \cup {Absent}
    BY <1>9, <1>0, <1>t DEF CreateModule, JobFits, LevelTypes
  <2>2. PICK m \in Nat : m = IF modules[n] = Absent THEN Len(moduleLevel) + 1 ELSE modules[n]
    BY <2>1, <1>t DEF LevelTypes
  <2>3. [lt[t] EXCEPT !.pc = "have"] \in ThreadType
    BY <1>0 DEF ThreadType, LevelPcs
  <2>4. JobFits([lt[t] EXCEPT !.pc = "have"])
    BY <1>0, <1>9 DEF ThreadType, JobFits, CreateModule
  <2>5. lt' \in [LevelThreads -> ThreadType] /\ \A u \in LevelThreads : JobFits(lt'[u])
    BY <1>9, <2>3, <2>4, DoesFits DEF CreateModule
  <2>6. /\ associated' = associated \cup {<<n, m>>} /\ modules' = [modules EXCEPT ![n] = m]
        /\ moduleLevel' = IF modules[n] = Absent THEN Append(moduleLevel, genericLevel) ELSE moduleLevel
    BY <1>9, <2>1, <2>2 DEF CreateModule
  <2>7. moduleLevel' \in Seq(AllLevels)
    BY <2>6, <1>t DEF LevelTypes
  <2>8. modules' \in [ModuleNames -> Nat \cup {Absent}] /\ associated' \subseteq ModuleNames \X Nat
    BY <2>6, <2>1, <1>t DEF LevelTypes
  <2> QED BY <1>9, <1>t, <2>5, <2>7, <2>8 DEF CreateModule, LevelTypesOK, LevelTypes, siteVars
<1>10. ASSUME SetModuleLevel(t) PROVE LevelTypesOK'
  <2>1. lt[t].todo # <<>> /\ Job(t).level \in AllLevels
    BY <1>10, <1>0, JobIs, PartsAre DEF SetModuleLevel, JobFits, Job
  <2>2. LevelDoes(t, NextJob(t, lt[t])) /\ NextJob(t, lt[t]) \in ThreadType /\ JobFits(NextJob(t, lt[t]))
    BY <1>10, <2>1, NextJobIs DEF SetModuleLevel
  <2>3. lt' \in [LevelThreads -> ThreadType] /\ \A u \in LevelThreads : JobFits(lt'[u])
    BY <2>2, DoesFits
  <2>4. moduleLevel' \in Seq(AllLevels)
    BY <1>10, <2>1, <1>t, PutInPlace DEF SetModuleLevel, LevelTypes
  <2> QED BY <1>10, <1>t, <2>3, <2>4 DEF SetModuleLevel, LevelTypesOK, LevelTypes, siteVars
<1>11. ASSUME RegisterSite(t) PROVE LevelTypesOK'
  <2>1. PICK s : s = lt[t].stmt /\ s \in DOMAIN Statements
    BY <1>11, <1>0 DEF RegisterSite, ThreadType
  <2>2. /\ sites' = Append(sites, [stmt |-> s, minLevel |-> Statements[s].level])
        /\ site' = [site EXCEPT ![s] = Len(sites) + 1]
    BY <1>11, <2>1 DEF RegisterSite
  <2>3. [lt[t] EXCEPT !.pc = "check"] \in ThreadType
    BY <1>0 DEF ThreadType, LevelPcs
  <2>4. JobFits([lt[t] EXCEPT !.pc = "check"])
    BY <1>0 DEF ThreadType, JobFits
  <2>5. lt' \in [LevelThreads -> ThreadType] /\ \A u \in LevelThreads : JobFits(lt'[u])
    BY <1>11, <2>3, <2>4, DoesFits DEF RegisterSite
  <2>6. /\ sites' \in Seq([stmt : DOMAIN Statements, minLevel : AllLevels])
        /\ site' \in [DOMAIN Statements -> Nat]
    BY <2>1, <2>2, <1>t, LevelsAssumption DEF LevelTypes
  <2> QED BY <1>11, <1>t, <2>5, <2>6 DEF RegisterSite, LevelTypesOK, LevelTypes, registryVars
<1>12. ASSUME NEW pc \in {"site", "line"}, LevelDoes(t, [lt[t] EXCEPT !.pc = pc]) \/ LevelDoes(t, NoWork),
              UNCHANGED <<registryVars, siteVars, levelCalls, associated, settled>>
       PROVE  LevelTypesOK'
  <2>1. [lt[t] EXCEPT !.pc = pc] \in ThreadType
    BY <1>0 DEF ThreadType, LevelPcs
  <2>2. JobFits([lt[t] EXCEPT !.pc = pc])
    BY <1>0 DEF ThreadType, JobFits
  <2>3. lt' \in [LevelThreads -> ThreadType] /\ \A u \in LevelThreads : JobFits(lt'[u])
    BY <1>12, <2>1, <2>2, NoWorkIs, DoesFits
  <2> QED BY <1>12, <1>t, <2>3 DEF LevelTypesOK, LevelTypes, siteVars, registryVars
<1>13. CheckModule(t) => LevelTypesOK'
  BY <1>12 DEF CheckModule
<1>14. CheckSite(t) => LevelTypesOK'
  BY <1>12 DEF CheckSite
<1>15. MakeLine(t) => LevelTypesOK'
  BY <1>12 DEF MakeLine
<1> QED BY <1>1, <1>2, <1>3, <1>4, <1>5, <1>6, <1>7, <1>8, <1>9, <1>10, <1>11, <1>13, <1>14, <1>15

LEMMA ExpandTypes ==
    ASSUME LevelTypesOK, NEW t \in LevelThreads, ExpandPattern(t)
    PROVE  LevelTypesOK'
<1>0. lt[t] \in ThreadType /\ JobFits(lt[t]) /\ LevelTypes /\ lt[t].todo # <<>>
  BY WorkIs DEF LevelTypesOK, ExpandPattern, JobFits, LevelAt
<1>1. Job(t).names \subseteq ModuleNames \cup {Generic} /\ Job(t).level \in AllLevels
      /\ Tail(lt[t].todo) \in Seq(Part)
  BY <1>0, JobIs, PartsAre DEF ExpandPattern
<1> DEFINE ns == {n \in Job(t).names : n = Generic \/ modules[n] # Absent}
<1>2. Cardinality(ns) \in Nat
  <2>1. IsFiniteSet(ModuleNames \cup {Generic})
    BY LevelsAssumption, FS_AddElement
  <2>2. ns \in SUBSET (ModuleNames \cup {Generic})
    BY <1>1
  <2>3. IsFiniteSet(ns)
    BY ONLY <2>1, <2>2, FS_Subset
  <2> QED BY ONLY <2>3, FS_CardinalityType
<1>3. PICK k \in Nat : k = Cardinality(ns)
  BY <1>2
<1>4. PICK order \in [1 .. k -> ns] :
         LET sets == [i \in DOMAIN order |-> [op |-> "set", name |-> order[i], level |-> Job(t).level]]
             todo == sets \o Tail(lt[t].todo) IN
            LevelDoes(t, [lt[t] EXCEPT !.todo = todo, !.pc = IF todo = <<>> THEN "idle" ELSE "job"])
  BY <1>3 DEF ExpandPattern
<1>5. PICK sets : sets = [i \in DOMAIN order |-> [op |-> "set", name |-> order[i], level |-> Job(t).level]]
  OBVIOUS
<1>6. sets \in Seq(Part)
  <2>1. \A i \in 1 .. k : [op |-> "set", name |-> order[i], level |-> Job(t).level] \in Part
    BY <1>1 DEF Part
  <2> QED BY <1>5, <2>1
<1>7. PICK todo : todo = sets \o Tail(lt[t].todo) /\ todo \in Seq(Part)
  BY <1>1, <1>6, ConcatProperties
<1>8. PICK pc \in {"idle", "job"} : pc = IF todo = <<>> THEN "idle" ELSE "job"
  OBVIOUS
<1>9. LevelDoes(t, [lt[t] EXCEPT !.todo = todo, !.pc = pc])
  BY <1>4, <1>5, <1>7, <1>8
<1>10. [lt[t] EXCEPT !.todo = todo, !.pc = pc] \in ThreadType
  BY <1>0, <1>7 DEF ThreadType, LevelPcs
<1>11. JobFits([lt[t] EXCEPT !.todo = todo, !.pc = pc])
  BY <1>0, <1>8 DEF ThreadType, JobFits
<1>12. lt' \in [LevelThreads -> ThreadType] /\ \A u \in LevelThreads : JobFits(lt'[u])
  BY <1>9, <1>10, <1>11, DoesFits
<1> QED BY <1>0, <1>12 DEF ExpandPattern, LevelTypesOK, LevelTypes, siteVars, registryVars

LEMMA ReachTypes ==
    ASSUME LevelTypesOK, NEW t \in LevelThreads, NEW s \in DOMAIN Statements, Reach(t, s)
    PROVE  LevelTypesOK'
<1>t. LevelTypes
  BY DEF LevelTypesOK
<1>1. PICK n : n = Statements[s].module /\ n \in ModuleNames \cup {Generic}
  BY LevelsAssumption
<1>2. PICK pc \in {"check", "register", "find"} :
        pc = IF site[s] # 0 THEN "check" ELSE IF n = Generic THEN "register" ELSE "find"
  OBVIOUS
<1>3. LevelDoes(t, [NoWork EXCEPT !.stmt = s, !.name = n, !.since = settled, !.pc = pc])
  BY <1>1, <1>2 DEF Reach
<1>4. [NoWork EXCEPT !.stmt = s, !.name = n, !.since = settled, !.pc = pc] \in ThreadType
  BY <1>1, <1>t, NoWorkIs DEF ThreadType, LevelPcs, LevelTypes
<1>5. JobFits([NoWork EXCEPT !.stmt = s, !.name = n, !.since = settled, !.pc = pc])
  BY <1>1, <1>2 DEF NoWork, JobFits
<1>6. lt' \in [LevelThreads -> ThreadType] /\ \A u \in LevelThreads : JobFits(lt'[u])
  BY <1>3, <1>4, <1>5, DoesFits
<1> QED BY <1>t, <1>6 DEF Reach, LevelTypesOK, LevelTypes, siteVars, registryVars

LEMMA SiteLevelTypes ==
    ASSUME LevelTypesOK, NEW matching, NEW level \in AllLevels, SetSiteLevels(matching, level)
    PROVE  LevelTypesOK'
<1>t. LevelTypes
  BY DEF LevelTypesOK
<1>1. sites' \in Seq([stmt : DOMAIN Statements, minLevel : AllLevels])
  <2>1. ASSUME NEW i \in 1 .. Len(sites)
        PROVE  (IF i \in matching THEN [sites[i] EXCEPT !.minLevel = level] ELSE sites[i])
                 \in [stmt : DOMAIN Statements, minLevel : AllLevels]
    <3>1. PICK x \in [stmt : DOMAIN Statements, minLevel : AllLevels] : x = sites[i]
      BY <1>t, ElementOfSeq DEF LevelTypes
    <3>2. [x EXCEPT !.minLevel = level] \in [stmt : DOMAIN Statements, minLevel : AllLevels]
      OBVIOUS
    <3> QED BY <3>1, <3>2
  <2>2. sites' = [i \in 1 .. Len(sites) |->
                    IF i \in matching THEN [sites[i] EXCEPT !.minLevel = level] ELSE sites[i]]
    BY <1>t DEF LevelTypes, SetSiteLevels
  <2>3. Len(sites) \in Nat
    BY <1>t DEF LevelTypes
  <2> QED BY <2>1, <2>2, <2>3
<1> QED BY <1>t, <1>1 DEF SetSiteLevels, LevelTypesOK, LevelTypes, registryVars

(* Every step is one of these.                                               *)
SettingStep(t) == \/ Configure(t) \/ SetDefault(t) \/ BeginWalk(t) \/ SetNext(t) \/ EndWalk(t)
                  \/ ExpandPattern(t) \/ RejectPart(t) \/ StartSet(t) \/ SetModuleLevel(t)

LEMMA LevelCases ==
    ASSUME LevelNext
    PROVE  \/ \E t \in LevelThreads : \/ SettingStep(t) \/ FindModule(t) \/ CreateModule(t)
                                      \/ (\E s \in DOMAIN Statements : Reach(t, s))
                                      \/ RegisterSite(t) \/ CheckModule(t) \/ CheckSite(t) \/ MakeLine(t)
           \/ \E matching, level : level \in AllLevels /\ SetSiteLevels(matching, level)
<1>1. CASE \E t \in LevelThreads : \/ SettingStep(t) \/ FindModule(t) \/ CreateModule(t)
                                   \/ (\E s \in DOMAIN Statements : Reach(t, s))
                                   \/ RegisterSite(t) \/ CheckModule(t) \/ CheckSite(t) \/ MakeLine(t)
  BY <1>1
<1>2. ASSUME NEW level \in AllLevels, NEW s \in DOMAIN Statements, SetSiteLevel(s, level)
      PROVE  \E matching : SetSiteLevels(matching, level)
  BY <1>2 DEF SetSiteLevel
<1>3. ASSUME NEW level \in AllLevels, NEW files, SetFileLevel(files, level)
      PROVE  \E matching : SetSiteLevels(matching, level)
  BY <1>3 DEF SetFileLevel
<1>4. ASSUME NEW level \in AllLevels, SetAllSitesLevel(level)
      PROVE  \E matching : SetSiteLevels(matching, level)
  BY <1>4 DEF SetAllSitesLevel
<1> QED BY <1>1, <1>2, <1>3, <1>4 DEF LevelNext, SettingStep

LEMMA LevelTypesKept == ASSUME LevelTypesOK, [LevelNext]_levelVars PROVE LevelTypesOK'
<1>1. ASSUME NEW t \in LevelThreads, SettingStep(t) PROVE LevelTypesOK'
  BY <1>1, StepTypes, ExpandTypes DEF SettingStep
<1>2. ASSUME NEW t \in LevelThreads, FindModule(t) \/ CreateModule(t) \/ RegisterSite(t) \/ CheckModule(t)
                                      \/ CheckSite(t) \/ MakeLine(t)
      PROVE  LevelTypesOK'
  BY <1>2, StepTypes
<1>3. CASE UNCHANGED levelVars
  BY <1>3 DEF levelVars, LevelTypesOK, LevelTypes
<1> QED BY <1>1, <1>2, <1>3, ReachTypes, SiteLevelTypes, LevelCases

(***************************************************************************)
(* The modules are numbered, one number for one name, and who was told a   *)
(* number was told the right one.                                          *)
(***************************************************************************)
Numbered ==
    /\ \A n \in ModuleNames : modules[n] # Absent => modules[n] \in 1 .. Len(moduleLevel)
    /\ \A i \in 1 .. Len(moduleLevel) : \E n \in ModuleNames : modules[n] = i
    /\ \A a, b \in ModuleNames : modules[a] = modules[b] /\ a # b => modules[a] = Absent
    /\ \A a \in associated : modules[a[1]] = a[2]

LEMMA NumberedKept ==
    ASSUME LevelTypesOK, Numbered, [LevelNext]_levelVars
    PROVE  Numbered'
<1>t. LevelTypes
  BY DEF LevelTypesOK
<1>0. ASSUME Len(moduleLevel') = Len(moduleLevel), UNCHANGED <<modules, associated>> PROVE Numbered'
  BY <1>0 DEF Numbered
<1>1. ASSUME NEW t \in LevelThreads, SettingStep(t) PROVE Numbered'
  <2>1. UNCHANGED <<modules, associated>>
    BY <1>1 DEF SettingStep, Configure, SetDefault, BeginWalk, SetNext, EndWalk, ExpandPattern,
                RejectPart, StartSet, SetModuleLevel, registryVars
  <2>2. CASE UNCHANGED moduleLevel
    BY <2>1, <2>2, <1>0
  <2>3. CASE SetNext(t)
    <3>1. lt[t].todo # <<>> /\ Job(t).level \in AllLevels
      BY <2>3, WorkIs, JobIs, PartsAre DEF SetNext, JobFits, Walking, Job
    <3>2. PICK i : moduleLevel' = [moduleLevel EXCEPT ![i] = Job(t).level]
      BY <2>3 DEF SetNext
    <3>3. Len(moduleLevel') = Len(moduleLevel)
      BY <3>1, <3>2, <1>t, PutInPlace DEF LevelTypes
    <3> QED BY <3>3, <2>1, <1>0
  <2>4. CASE SetModuleLevel(t)
    <3>1. lt[t].todo # <<>> /\ Job(t).level \in AllLevels
      BY <2>4, WorkIs, JobIs, PartsAre DEF SetModuleLevel, JobFits, Job, LevelAt
    <3>2. PICK i : moduleLevel' = [moduleLevel EXCEPT ![i] = Job(t).level]
      BY <2>4 DEF SetModuleLevel
    <3>3. Len(moduleLevel') = Len(moduleLevel)
      BY <3>1, <3>2, <1>t, PutInPlace DEF LevelTypes
    <3> QED BY <3>3, <2>1, <1>0
  <2>5. SettingStep(t) => UNCHANGED moduleLevel \/ SetNext(t) \/ SetModuleLevel(t)
    BY DEF SettingStep, Configure, SetDefault, BeginWalk, EndWalk, ExpandPattern,
           RejectPart, StartSet, registryVars
  <2> QED BY <1>1, <2>2, <2>3, <2>4, <2>5
<1>2. ASSUME NEW t \in LevelThreads, FindModule(t) PROVE Numbered'
  BY <1>2, WorkIs DEF Numbered, FindModule, JobFits, LevelAt, registryVars
<1>3. ASSUME NEW t \in LevelThreads, CreateModule(t) PROVE Numbered'
  <2>1. PICK n : n = lt[t].name /\ n \in ModuleNames
    BY <1>3, WorkIs DEF CreateModule, JobFits, LevelAt
  <2>2. CASE modules[n] # Absent
    <3>1. UNCHANGED <<modules, moduleLevel>> /\ associated' = associated \cup {<<n, modules[n]>>}
      BY <1>3, <2>1, <2>2, <1>t DEF CreateModule, LevelTypes
    <3> QED BY <3>1 DEF Numbered
  <2>3. CASE modules[n] = Absent
    <3>1. PICK m \in Nat : m = Len(moduleLevel) + 1
      BY <1>t DEF LevelTypes
    <3>2. /\ modules' = [modules EXCEPT ![n] = m] /\ moduleLevel' = Append(moduleLevel, genericLevel)
          /\ associated' = associated \cup {<<n, m>>}
      BY <1>3, <2>1, <2>3, <3>1 DEF CreateModule
    <3>3. Len(moduleLevel') = m /\ Len(moduleLevel) = m - 1
      BY <3>1, <3>2, <1>t DEF LevelTypes
    <3>4. \A k \in ModuleNames : modules'[k] = IF k = n THEN m ELSE modules[k]
      BY <3>2, <1>t DEF LevelTypes
    <3>5. m # Absent
      BY <3>1, LevelsAssumption
    <3>6. \A k \in ModuleNames : modules'[k] # Absent => modules'[k] \in 1 .. Len(moduleLevel')
      BY <3>1, <3>3, <3>4 DEF Numbered
    <3>7. \A i \in 1 .. Len(moduleLevel') : \E k \in ModuleNames : modules'[k] = i
      <4>1. ASSUME NEW i \in 1 .. m PROVE \E k \in ModuleNames : modules'[k] = i
        <5>1. CASE i = m
          BY <5>1, <3>4, <2>1
        <5>2. CASE i # m
          <6>1. i \in 1 .. Len(moduleLevel)
            BY <5>2, <3>1, <3>3
          <6>2. PICK k \in ModuleNames : modules[k] = i
            BY <6>1 DEF Numbered
          <6>3. k # n
            BY <6>1, <6>2, <2>3, LevelsAssumption
          <6> QED BY <6>2, <6>3, <3>4
        <5> QED BY <5>1, <5>2
      <4> QED BY <4>1, <3>3
    <3>8. \A a, b \in ModuleNames : modules'[a] = modules'[b] /\ a # b => modules'[a] = Absent
      BY <3>1, <3>3, <3>4, <3>5 DEF Numbered
    <3>9. ASSUME NEW a \in associated' PROVE modules'[a[1]] = a[2]
      <4>1. CASE a \in associated
        <5>1. a[1] \in ModuleNames /\ a[2] \in Nat /\ modules[a[1]] = a[2]
          BY <4>1, <1>t DEF LevelTypes, Numbered
        <5>2. a[1] # n
          BY <5>1, <2>3, LevelsAssumption
        <5> QED BY <5>1, <5>2, <3>4
      <4>2. CASE a = <<n, m>>
        BY <4>2, <3>4, <2>1
      <4> QED BY <4>1, <4>2, <3>2
    <3> QED BY <3>6, <3>7, <3>8, <3>9 DEF Numbered
  <2> QED BY <2>2, <2>3
<1>4. ASSUME UNCHANGED <<registryVars, associated>> PROVE Numbered'
  BY <1>4 DEF Numbered, registryVars
<1>5. ASSUME NEW t \in LevelThreads,
             (\E s \in DOMAIN Statements : Reach(t, s)) \/ RegisterSite(t) \/ CheckModule(t) \/ CheckSite(t)
                \/ MakeLine(t)
      PROVE  UNCHANGED <<registryVars, associated>>
  BY <1>5 DEF Reach, RegisterSite, CheckModule, CheckSite, MakeLine
<1>6. ASSUME NEW matching, NEW level, SetSiteLevels(matching, level)
      PROVE  UNCHANGED <<registryVars, associated>>
  BY <1>6 DEF SetSiteLevels
<1>7. CASE UNCHANGED levelVars
  BY <1>4, <1>7 DEF levelVars, registryVars
<1> QED BY <1>1, <1>2, <1>3, <1>4, <1>5, <1>6, <1>7, LevelCases

(***************************************************************************)
(* A setter that nobody disturbed is the only one, and has reached the     *)
(* modules it passed; a level that counts as settled is everywhere.        *)
(***************************************************************************)
Disturbs(t) == lt[t].todo # <<>>
Reached(t) ==
    /\ lt[t].pc \in {"lock", "walk"} => genericLevel = Job(t).level
    /\ lt[t].pc = "walk" =>
         /\ \A n \in lt[t].walk : modules[n] # Absent
         /\ \A n \in ModuleNames : modules[n] # Absent /\ n \notin lt[t].walk =>
              moduleLevel[modules[n]] = Job(t).level
Everywhere ==
    settled # Absent => genericLevel = settled /\ \A i \in 1 .. Len(moduleLevel) : moduleLevel[i] = settled
SetByOne ==
    /\ \A t \in LevelThreads : lt[t].alone /\ Disturbs(t) =>
         /\ \A u \in LevelThreads : u # t => ~Disturbs(u)
         /\ Reached(t)
    /\ settled # Absent => \A u \in LevelThreads : ~Disturbs(u)
    /\ Everywhere

(* A step of a thread that changes no level and leaves what threads are to   *)
(* do as it was.                                                             *)
LEMMA QuietStep ==
    ASSUME LevelTypesOK, SetByOne, UNCHANGED <<registryVars, settled>>,
           \A u \in LevelThreads : lt'[u].todo # <<>> =>
               /\ lt'[u].todo = lt[u].todo /\ lt'[u].alone = lt[u].alone
               /\ lt'[u].pc = "lock" => lt[u].pc = "lock"
               /\ lt'[u].pc = "walk" => lt[u].pc = "walk" /\ lt'[u].walk = lt[u].walk
    PROVE  SetByOne'
BY DEF SetByOne, Disturbs, Reached, Everywhere, Job, registryVars

LEMMA SetByOneInit == LevelInit => SetByOne /\ Numbered
BY LevelsAssumption DEF LevelInit, SetByOne, Numbered, Disturbs, Reached, Everywhere, NoWork

(* A step of the only setter that leaves nothing settled.                    *)
LEMMA SetterStep ==
    ASSUME LevelTypesOK, SetByOne, NEW t \in LevelThreads, Disturbs(t), UNCHANGED settled,
           \A u \in LevelThreads : u # t => lt'[u] = lt[u],
           lt'[t].alone => lt[t].alone,
           lt'[t].alone /\ Disturbs(t)' => Reached(t)'
    PROVE  SetByOne'
<1>1. settled = Absent
  BY DEF SetByOne
<1>2. ASSUME NEW u \in LevelThreads, lt'[u].alone, Disturbs(u)'
      PROVE  (\A w \in LevelThreads : w # u => ~Disturbs(w)') /\ Reached(u)'
  <2>1. CASE u = t
    BY <2>1, <1>2 DEF SetByOne, Disturbs
  <2>2. CASE u # t
    BY <2>2, <1>2 DEF SetByOne, Disturbs
  <2> QED BY <2>1, <2>2
<1> QED BY <1>1, <1>2 DEF SetByOne, Everywhere

LEMMA SetByOneSteps ==
    ASSUME LevelTypesOK, SetByOne, Numbered, NEW t \in LevelThreads, SettingStep(t)
    PROVE  SetByOne'
<1>0. lt[t] \in ThreadType /\ JobFits(lt[t])
  BY WorkIs
<1>t. LevelTypes
  BY DEF LevelTypesOK
<1> USE DEF LevelAt
<1>1. CASE Configure(t)
  <2>1. PICK parts \in Configurations :
         lt' = [u \in LevelThreads |->
                  IF u = t THEN [NoWork EXCEPT !.pc = "job", !.todo = parts, !.alone = (Setters = {})]
                  ELSE [lt[u] EXCEPT !.alone = FALSE, !.since = Absent]]
    BY <1>1 DEF Configure
  <2>2. settled' = Absent
    BY <1>1 DEF Configure
  <2>3. /\ lt'[t].pc = "job" /\ (lt'[t].alone => Setters = {})
        /\ \A u \in LevelThreads : u # t => ~lt'[u].alone /\ lt'[u].todo = lt[u].todo
    <3>1. lt'[t] = [NoWork EXCEPT !.pc = "job", !.todo = parts, !.alone = (Setters = {})]
      BY <2>1
    <3>2. lt'[t].pc = "job" /\ lt'[t].alone = (Setters = {})
      BY <3>1 DEF NoWork
    <3>3. ASSUME NEW u \in LevelThreads, u # t PROVE ~lt'[u].alone /\ lt'[u].todo = lt[u].todo
      <4>1. lt'[u] = [lt[u] EXCEPT !.alone = FALSE, !.since = Absent] /\ lt[u] \in ThreadType
        BY <2>1, <3>3, WorkIs
      <4> QED BY <4>1 DEF ThreadType
    <3> QED BY <3>2, <3>3
  <2> QED BY <2>2, <2>3 DEF SetByOne, Everywhere, Disturbs, Reached, Setters
<1>2. CASE SetDefault(t)
  <2>1. lt'[t] = [lt[t] EXCEPT !.pc = "lock"] /\ \A u \in LevelThreads : u # t => lt'[u] = lt[u]
    BY <1>2, <1>t DEF SetDefault, LevelDoes, LevelTypes
  <2>2. lt'[t].pc = "lock" /\ lt'[t].todo = lt[t].todo /\ lt'[t].alone = lt[t].alone
    BY <2>1, <1>0 DEF ThreadType
  <2>3. Disturbs(t) /\ UNCHANGED settled /\ Reached(t)'
    BY <1>2, <2>2, <1>0 DEF SetDefault, JobFits, Disturbs, Reached, Job
  <2> QED BY <2>1, <2>2, <2>3, SetterStep
<1>3. CASE BeginWalk(t)
  <2>1. lt'[t] = [lt[t] EXCEPT !.pc = "walk", !.walk = {n \in ModuleNames : modules[n] # Absent}]
        /\ \A u \in LevelThreads : u # t => lt'[u] = lt[u]
    BY <1>3, <1>t DEF BeginWalk, LevelDoes, LevelTypes
  <2>2. lt'[t].pc = "walk" /\ lt'[t].todo = lt[t].todo /\ lt'[t].alone = lt[t].alone
        /\ lt'[t].walk = {n \in ModuleNames : modules[n] # Absent}
    BY <2>1, <1>0 DEF ThreadType
  <2>3. Disturbs(t) /\ UNCHANGED <<settled, registryVars>>
    BY <1>3, <1>0 DEF BeginWalk, JobFits, Disturbs
  <2>4. lt[t].alone => Reached(t)
    BY <2>3 DEF SetByOne
  <2>5. lt[t].alone => Reached(t)'
    BY <2>2, <2>3, <2>4, <1>3 DEF Reached, Job, registryVars, BeginWalk
  <2> QED BY <2>1, <2>2, <2>3, <2>5, SetterStep
<1>4. CASE SetNext(t)
  <2>1. PICK n \in lt[t].walk : /\ moduleLevel' = [moduleLevel EXCEPT ![modules[n]] = Job(t).level]
                                /\ LevelDoes(t, [lt[t] EXCEPT !.walk = @ \ {n}])
    BY <1>4 DEF SetNext
  <2>2. lt'[t] = [lt[t] EXCEPT !.walk = @ \ {n}] /\ \A u \in LevelThreads : u # t => lt'[u] = lt[u]
    BY <2>1, <1>t DEF LevelDoes, LevelTypes
  <2>3. lt'[t].pc = "walk" /\ lt'[t].todo = lt[t].todo /\ lt'[t].alone = lt[t].alone
        /\ lt'[t].walk = lt[t].walk \ {n}
    BY <2>2, <1>0, <1>4 DEF ThreadType, SetNext, Walking
  <2>4. Disturbs(t) /\ UNCHANGED <<settled, genericLevel, modules>> /\ lt[t].pc = "walk"
    BY <1>4, <1>0 DEF SetNext, JobFits, Disturbs, Walking
  <2>5. ASSUME lt[t].alone PROVE Reached(t)'
    <3>1. Reached(t) /\ modules[n] # Absent /\ n \in ModuleNames
      BY <2>4, <2>5, <1>0 DEF SetByOne, Reached, ThreadType
    <3>2. Job(t)' = Job(t) /\ Job(t).level \in AllLevels
      BY <2>3, <2>4, <1>0, JobIs, PartsAre DEF Job, Disturbs, JobFits
    <3>3. ASSUME NEW k \in ModuleNames, modules[k] # Absent, k \notin lt'[t].walk
          PROVE  moduleLevel'[modules[k]] = Job(t).level
      <4>1. modules[k] \in 1 .. Len(moduleLevel)
        BY <3>3 DEF Numbered
      <4>2. moduleLevel'[modules[k]] = IF modules[k] = modules[n] THEN Job(t).level ELSE moduleLevel[modules[k]]
        BY <2>1, <3>2, <4>1, <1>t, PutInPlace DEF LevelTypes
      <4>3. CASE k = n
        BY <4>2, <4>3
      <4>4. CASE k # n
        BY <4>2, <4>4, <3>1, <3>3, <2>3, <2>4 DEF Reached
      <4> QED BY <4>3, <4>4
    <3> QED BY <2>3, <2>4, <3>1, <3>2, <3>3 DEF Reached
  <2> QED BY <2>2, <2>3, <2>4, <2>5, SetterStep
<1>5. CASE EndWalk(t)
  <2>1. lt'[t] = NextJob(t, lt[t]) /\ \A u \in LevelThreads : u # t => lt'[u] = lt[u]
    BY <1>5, <1>t DEF EndWalk, LevelDoes, LevelTypes
  <2>2. PICK rest : rest = Tail(lt[t].todo)
    OBVIOUS
  <2>3. /\ lt'[t].todo = rest /\ lt'[t].alone = lt[t].alone /\ lt'[t].pc \notin {"lock", "walk"}
    BY <2>1, <2>2, <1>0 DEF ThreadType, NextJob
  <2>4. Disturbs(t) /\ UNCHANGED registryVars /\ lt[t].pc = "walk" /\ lt[t].walk = {}
    BY <1>5, <1>0 DEF EndWalk, JobFits, Disturbs, Walking
  <2>5. CASE UNCHANGED settled
    BY <2>1, <2>3, <2>4, <2>5, SetterStep DEF Reached
  <2>6. CASE lt[t].alone /\ Len(lt[t].todo) = 1 /\ settled' = Job(t).level
    <3>1. rest = <<>>
      BY <2>6, <2>2, <1>0 DEF ThreadType
    <3>2. (\A u \in LevelThreads : u # t => ~Disturbs(u)) /\ Reached(t)
      BY <2>4, <2>6 DEF SetByOne
    <3>3. \A u \in LevelThreads : ~Disturbs(u)'
      BY <3>1, <3>2, <2>1, <2>3 DEF Disturbs
    <3>4. genericLevel = Job(t).level
      BY <3>2, <2>4 DEF Reached
    <3>5. ASSUME NEW i \in 1 .. Len(moduleLevel) PROVE moduleLevel[i] = Job(t).level
      <4>1. PICK n \in ModuleNames : modules[n] = i
        BY DEF Numbered
      <4>2. modules[n] # Absent
        BY <4>1, LevelsAssumption
      <4> QED BY <4>1, <4>2, <3>2, <2>4 DEF Reached
    <3>6. Everywhere'
      BY <2>4, <2>6, <3>4, <3>5 DEF Everywhere, registryVars
    <3> QED BY <3>3, <3>6 DEF SetByOne
  <2> QED BY <1>5, <2>5, <2>6 DEF EndWalk
<1>6. CASE ExpandPattern(t)
  <2>1. PICK todo : LevelDoes(t, [lt[t] EXCEPT !.todo = todo, !.pc = IF todo = <<>> THEN "idle" ELSE "job"])
    BY <1>6 DEF ExpandPattern
  <2>2. /\ lt'[t] = [lt[t] EXCEPT !.todo = todo, !.pc = IF todo = <<>> THEN "idle" ELSE "job"]
        /\ \A u \in LevelThreads : u # t => lt'[u] = lt[u]
    BY <2>1, <1>t DEF LevelDoes, LevelTypes
  <2>3. lt'[t].alone = lt[t].alone /\ lt'[t].pc \notin {"lock", "walk"}
    BY <2>2, <1>0 DEF ThreadType
  <2>4. Disturbs(t) /\ UNCHANGED settled
    BY <1>6, <1>0 DEF ExpandPattern, JobFits, Disturbs
  <2> QED BY <2>2, <2>3, <2>4, SetterStep DEF Reached
<1>7. CASE RejectPart(t)
  <2>1. lt'[t] = NoWork /\ \A u \in LevelThreads : u # t => lt'[u] = lt[u]
    BY <1>7, <1>t DEF RejectPart, LevelDoes, LevelTypes
  <2>2. lt'[t].todo = <<>> /\ UNCHANGED <<settled, registryVars>>
    BY <2>1, <1>7 DEF NoWork, RejectPart
  <2>3. Disturbs(t)
    BY <1>7, <1>0 DEF RejectPart, JobFits, Disturbs
  <2>4. ~Disturbs(t)'
    BY <2>2 DEF Disturbs
  <2>5. settled = Absent
    BY <2>3 DEF SetByOne
  <2>6. ASSUME NEW u \in LevelThreads, lt'[u].alone, Disturbs(u)'
        PROVE  (\A w \in LevelThreads : w # u => ~Disturbs(w)') /\ Reached(u)'
    <3>1. u # t
      BY <2>4, <2>6
    <3>2. lt[u].alone /\ Disturbs(u)
      BY <3>1, <2>1, <2>6 DEF Disturbs
    <3>3. FALSE
      BY <3>1, <3>2, <2>3 DEF SetByOne
    <3> QED BY <3>3
  <2> QED BY <2>2, <2>5, <2>6 DEF SetByOne, Everywhere
<1>8. CASE StartSet(t)
  <2>1. Disturbs(t) /\ UNCHANGED settled
    BY <1>8, <1>0 DEF StartSet, JobFits, Disturbs
  <2>2. CASE Job(t).name = Generic
    <3>1. lt'[t] = NextJob(t, lt[t]) /\ \A u \in LevelThreads : u # t => lt'[u] = lt[u]
      BY <1>8, <1>t, <2>2 DEF StartSet, LevelDoes, LevelTypes
    <3>2. lt'[t].alone = lt[t].alone /\ lt'[t].pc \notin {"lock", "walk"}
      BY <3>1, <1>0 DEF ThreadType, NextJob
    <3> QED BY <2>1, <3>1, <3>2, SetterStep DEF Reached
  <2>3. CASE Job(t).name # Generic
    <3>1. /\ lt'[t] = [lt[t] EXCEPT !.pc = "find", !.name = Job(t).name]
          /\ \A u \in LevelThreads : u # t => lt'[u] = lt[u]
      BY <1>8, <1>t, <2>3 DEF StartSet, LevelDoes, LevelTypes
    <3>2. lt'[t].alone = lt[t].alone /\ lt'[t].pc \notin {"lock", "walk"}
      BY <3>1, <1>0 DEF ThreadType
    <3> QED BY <2>1, <3>1, <3>2, SetterStep DEF Reached
  <2> QED BY <2>2, <2>3
<1>9. CASE SetModuleLevel(t)
  <2>1. Disturbs(t) /\ UNCHANGED settled
    BY <1>9 DEF SetModuleLevel, Disturbs
  <2>2. lt'[t] = NextJob(t, lt[t]) /\ \A u \in LevelThreads : u # t => lt'[u] = lt[u]
    BY <1>9, <1>t DEF SetModuleLevel, LevelDoes, LevelTypes
  <2>3. lt'[t].alone = lt[t].alone /\ lt'[t].pc \notin {"lock", "walk"}
    BY <2>2, <1>0 DEF ThreadType, NextJob
  <2> QED BY <2>1, <2>2, <2>3, SetterStep DEF Reached
<1> QED BY <1>1, <1>2, <1>3, <1>4, <1>5, <1>6, <1>7, <1>8, <1>9 DEF SettingStep

LEMMA SetByOneKept ==
    ASSUME LevelTypesOK, SetByOne, Numbered, [LevelNext]_levelVars
    PROVE  SetByOne'
<1>t. LevelTypes
  BY DEF LevelTypesOK
<1>1. ASSUME NEW t \in LevelThreads, SettingStep(t) PROVE SetByOne'
  BY <1>1, SetByOneSteps
<1>2. ASSUME NEW t \in LevelThreads, NEW w, LevelDoes(t, w), UNCHANGED <<registryVars, settled>>,
             w.todo = <<>> \/ (/\ w.todo = lt[t].todo /\ w.alone = lt[t].alone
                               /\ w.pc \notin {"lock", "walk"})
      PROVE  SetByOne'
  <2>1. lt'[t] = w /\ \A u \in LevelThreads : u # t => lt'[u] = lt[u]
    BY <1>2, <1>t DEF LevelDoes, LevelTypes
  <2> QED BY <2>1, <1>2, QuietStep
<1>3. ASSUME NEW t \in LevelThreads, FindModule(t) PROVE SetByOne'
  <2>1. PICK pc \in {"have", "create"} : LevelDoes(t, [lt[t] EXCEPT !.pc = pc])
    BY <1>3 DEF FindModule
  <2>2. /\ [lt[t] EXCEPT !.pc = pc].todo = lt[t].todo /\ [lt[t] EXCEPT !.pc = pc].alone = lt[t].alone
        /\ [lt[t] EXCEPT !.pc = pc].pc \notin {"lock", "walk"}
    BY WorkIs DEF ThreadType
  <2> QED BY <2>1, <2>2, <1>2, <1>3 DEF FindModule
<1>4. ASSUME NEW t \in LevelThreads, NEW s, Reach(t, s) PROVE SetByOne'
  <2>0. PICK n, pc : LevelDoes(t, [NoWork EXCEPT !.stmt = s, !.name = n, !.since = settled, !.pc = pc])
    BY <1>4 DEF Reach
  <2>1. PICK w : LevelDoes(t, w) /\ w.todo = <<>>
    <3>1. [NoWork EXCEPT !.stmt = s, !.name = n, !.since = settled, !.pc = pc].todo = <<>>
      BY DEF NoWork
    <3> QED BY <2>0, <3>1
  <2> QED BY <2>1, <1>2, <1>4 DEF Reach
<1>5. ASSUME NEW t \in LevelThreads, NEW pc \in {"check", "site", "line"},
             LevelDoes(t, [lt[t] EXCEPT !.pc = pc]) \/ LevelDoes(t, NoWork),
             UNCHANGED <<registryVars, settled>>
      PROVE  SetByOne'
  <2>1. /\ [lt[t] EXCEPT !.pc = pc].todo = lt[t].todo /\ [lt[t] EXCEPT !.pc = pc].alone = lt[t].alone
        /\ [lt[t] EXCEPT !.pc = pc].pc \notin {"lock", "walk"}
    BY WorkIs DEF ThreadType
  <2>2. NoWork.todo = <<>>
    BY DEF NoWork
  <2> QED BY <1>2, <1>5, <2>1, <2>2
<1>6. ASSUME NEW t \in LevelThreads, RegisterSite(t) \/ CheckModule(t) \/ CheckSite(t) \/ MakeLine(t)
      PROVE  SetByOne'
  BY <1>5, <1>6 DEF RegisterSite, CheckModule, CheckSite, MakeLine
<1>7. ASSUME NEW t \in LevelThreads, CreateModule(t) PROVE SetByOne'
  <2>1. lt'[t] = [lt[t] EXCEPT !.pc = "have"] /\ \A u \in LevelThreads : u # t => lt'[u] = lt[u]
    BY <1>7, <1>t DEF CreateModule, LevelDoes, LevelTypes
  <2>2. lt'[t].pc = "have" /\ lt'[t].todo = lt[t].todo /\ lt'[t].alone = lt[t].alone
    BY <2>1, WorkIs DEF ThreadType
  <2>3. UNCHANGED <<genericLevel, settled>> /\ \A u \in LevelThreads : lt[u].pc # "walk"
    BY <1>7 DEF CreateModule, Walking
  <2>4. \A u \in LevelThreads : Disturbs(u)' = Disturbs(u) /\ lt'[u].alone = lt[u].alone
    BY <2>1, <2>2 DEF Disturbs
  <2>5. ASSUME NEW u \in LevelThreads, lt'[u].alone, Disturbs(u)'
        PROVE  (\A w \in LevelThreads : w # u => ~Disturbs(w)') /\ Reached(u)'
    BY <2>5, <2>1, <2>2, <2>3, <2>4 DEF SetByOne, Reached, Job
  <2>6. moduleLevel' = moduleLevel \/ moduleLevel' = Append(moduleLevel, genericLevel)
    BY <1>7 DEF CreateModule
  <2>7. Everywhere'
    <3>1. CASE moduleLevel' = moduleLevel
      BY <3>1, <2>3 DEF SetByOne, Everywhere
    <3>2. CASE moduleLevel' = Append(moduleLevel, genericLevel)
      <4>1. \A i \in 1 .. Len(moduleLevel') : \/ i \in 1 .. Len(moduleLevel) /\ moduleLevel'[i] = moduleLevel[i]
                                              \/ moduleLevel'[i] = genericLevel
        BY <3>2, <1>t, AppendProperties DEF LevelTypes
      <4> QED BY <4>1, <2>3 DEF SetByOne, Everywhere
    <3> QED BY <3>1, <3>2, <2>6
  <2> QED BY <2>3, <2>4, <2>5, <2>7 DEF SetByOne
<1>8. ASSUME UNCHANGED <<registryVars, lt, settled>> PROVE SetByOne'
  BY <1>8, QuietStep
<1>9. CASE UNCHANGED levelVars
  BY <1>8, <1>9 DEF levelVars, registryVars
<1>10. ASSUME NEW matching, NEW level, SetSiteLevels(matching, level) PROVE SetByOne'
  BY <1>8, <1>10 DEF SetSiteLevels
<1> QED BY <1>1, <1>3, <1>4, <1>6, <1>7, <1>9, <1>10, LevelCases

(***************************************************************************)
(* Every statement has the site it was given, and only one thread at a     *)
(* time is about to give it one.                                           *)
(***************************************************************************)
Making(t) == lt[t].stmt # 0 /\ lt[t].pc \in {"find", "create", "have", "register"}
Given == {s \in DOMAIN site : site[s] # 0}
Sited ==
    /\ \A s \in DOMAIN site : site[s] # 0 => site[s] \in 1 .. Len(sites) /\ sites[site[s]].stmt = s
    /\ Len(sites) = Cardinality(Given)
    /\ \A t \in LevelThreads : Making(t) =>
         /\ site[lt[t].stmt] = 0
         /\ \A u \in LevelThreads : u # t /\ Making(u) => lt[u].stmt # lt[t].stmt

LEMMA SitedInit == LevelInit => Sited
<1> SUFFICES ASSUME LevelInit PROVE Sited
  OBVIOUS
<1>1. Given = {} /\ Len(sites) = 0
  BY DEF LevelInit, Given
<1> QED BY <1>1, FS_EmptySet DEF LevelInit, Sited, Making, NoWork

LEMMA MakingStays ==
    ASSUME LevelTypesOK, Sited, UNCHANGED <<sites, site>>,
           \A u \in LevelThreads : Making(u)' => Making(u) /\ lt'[u].stmt = lt[u].stmt
    PROVE  Sited'
BY DEF Sited, Given

LEMMA SitedKept ==
    ASSUME LevelTypesOK, Sited, [LevelNext]_levelVars
    PROVE  Sited'
<1>t. LevelTypes
  BY DEF LevelTypesOK
<1>0. ASSUME NEW t \in LevelThreads, NEW w, LevelDoes(t, w), UNCHANGED siteVars,
             w.stmt = 0 \/ w.pc \notin {"find", "create", "have", "register"}
               \/ (Making(t) /\ w.stmt = lt[t].stmt)
      PROVE  Sited'
  <2>1. lt'[t] = w /\ \A u \in LevelThreads : u # t => lt'[u] = lt[u]
    BY <1>0, <1>t DEF LevelDoes, LevelTypes
  <2> QED BY <2>1, <1>0, MakingStays DEF Making, siteVars
<1>s. ASSUME NEW t \in LevelThreads, lt[t].todo # <<>> PROVE NextJob(t, lt[t]).stmt = 0 /\ lt[t].stmt = 0
  <2>1. lt[t].stmt = 0 /\ lt[t] \in ThreadType
    BY <1>s, WorkIs DEF JobFits
  <2> QED BY <2>1 DEF NextJob, ThreadType
<1>1. ASSUME NEW t \in LevelThreads, SettingStep(t), ~Configure(t) PROVE Sited'
  <2>1. lt[t].todo # <<>> /\ lt[t] \in ThreadType /\ UNCHANGED siteVars
    BY <1>1, WorkIs DEF SettingStep, SetDefault, BeginWalk, SetNext, EndWalk, ExpandPattern,
                RejectPart, StartSet, SetModuleLevel, JobFits, LevelAt, Walking
  <2>2. PICK w : LevelDoes(t, w) /\ w.stmt = 0
    <3>1. CASE SetDefault(t)
      BY <3>1, <2>1, <1>s DEF SetDefault, ThreadType
    <3>2. CASE BeginWalk(t)
      <4>1. PICK ns : LevelDoes(t, [lt[t] EXCEPT !.pc = "walk", !.walk = ns])
        BY <3>2 DEF BeginWalk
      <4>2. [lt[t] EXCEPT !.pc = "walk", !.walk = ns].stmt = 0
        BY <2>1, <1>s DEF ThreadType
      <4> QED BY <4>1, <4>2
    <3>3. CASE SetNext(t)
      BY <3>3, <2>1, <1>s DEF SetNext, ThreadType
    <3>4. CASE EndWalk(t)
      BY <3>4, <2>1, <1>s DEF EndWalk
    <3>5. CASE ExpandPattern(t)
      <4>1. PICK todo : LevelDoes(t, [lt[t] EXCEPT !.todo = todo, !.pc = IF todo = <<>> THEN "idle" ELSE "job"])
        BY <3>5 DEF ExpandPattern
      <4>2. [lt[t] EXCEPT !.todo = todo, !.pc = IF todo = <<>> THEN "idle" ELSE "job"].stmt = 0
        BY <2>1, <1>s DEF ThreadType
      <4> QED BY <4>1, <4>2
    <3>6. CASE RejectPart(t)
      BY <3>6 DEF RejectPart, NoWork
    <3>7. CASE StartSet(t)
      <4>1. [lt[t] EXCEPT !.pc = "find", !.name = Job(t).name].stmt = 0
        BY <2>1, <1>s DEF ThreadType
      <4> QED BY <4>1, <3>7, <2>1, <1>s DEF StartSet
    <3>8. CASE SetModuleLevel(t)
      BY <3>8, <2>1, <1>s DEF SetModuleLevel
    <3> QED BY <1>1, <3>1, <3>2, <3>3, <3>4, <3>5, <3>6, <3>7, <3>8 DEF SettingStep
  <2> QED BY <2>1, <2>2, <1>0
<1>2. ASSUME NEW t \in LevelThreads, Configure(t) PROVE Sited'
  <2>1. PICK parts \in Configurations :
         lt' = [u \in LevelThreads |->
                  IF u = t THEN [NoWork EXCEPT !.pc = "job", !.todo = parts, !.alone = (Setters = {})]
                  ELSE [lt[u] EXCEPT !.alone = FALSE, !.since = Absent]]
    BY <1>2 DEF Configure
  <2>2. lt'[t].pc = "job"
    <3>1. lt'[t] = [NoWork EXCEPT !.pc = "job", !.todo = parts, !.alone = (Setters = {})]
      BY <2>1
    <3> QED BY <3>1 DEF NoWork
  <2>3. ASSUME NEW u \in LevelThreads, u # t PROVE lt'[u].pc = lt[u].pc /\ lt'[u].stmt = lt[u].stmt
    <3>1. lt'[u] = [lt[u] EXCEPT !.alone = FALSE, !.since = Absent] /\ lt[u] \in ThreadType
      BY <2>1, <2>3, WorkIs
    <3> QED BY <3>1 DEF ThreadType
  <2>4. UNCHANGED <<sites, site>>
    BY <1>2 DEF Configure, siteVars
  <2> QED BY <2>2, <2>3, <2>4, MakingStays DEF Making
<1>3. ASSUME NEW t \in LevelThreads, NEW pc, LevelDoes(t, [lt[t] EXCEPT !.pc = pc]), UNCHANGED siteVars,
             lt[t].pc \in {"find", "create", "have", "register"} \/ pc \in {"check", "site", "line"}
      PROVE  Sited'
  <2>1. [lt[t] EXCEPT !.pc = pc].stmt = lt[t].stmt /\ [lt[t] EXCEPT !.pc = pc].pc = pc
    BY WorkIs DEF ThreadType
  <2>2. [lt[t] EXCEPT !.pc = pc].stmt = 0 \/ pc \notin {"find", "create", "have", "register"}
               \/ (Making(t) /\ [lt[t] EXCEPT !.pc = pc].stmt = lt[t].stmt)
    BY <1>3, <2>1 DEF Making
  <2> QED BY <1>0, <1>3, <2>1, <2>2
<1>4. ASSUME NEW t \in LevelThreads, FindModule(t) \/ CreateModule(t) PROVE Sited'
  BY <1>3, <1>4 DEF FindModule, CreateModule, LevelAt
<1>5. ASSUME NEW t \in LevelThreads, CheckModule(t) \/ CheckSite(t) \/ MakeLine(t) PROVE Sited'
  <2>1. CASE LevelDoes(t, NoWork)
    BY <2>1, <1>0, <1>5 DEF CheckModule, CheckSite, MakeLine, NoWork
  <2>2. CASE ~LevelDoes(t, NoWork)
    BY <2>2, <1>3, <1>5 DEF CheckModule, CheckSite, MakeLine
  <2> QED BY <2>1, <2>2
<1>6. ASSUME NEW t \in LevelThreads, NEW s \in DOMAIN Statements, Reach(t, s) PROVE Sited'
  <2>0. PICK w : /\ LevelDoes(t, w)
                 /\ \E n, pc : /\ w = [pc |-> pc, todo |-> <<>>, name |-> n, walk |-> {}, alone |-> TRUE,
                                        stmt |-> s, since |-> settled]
                               /\ site[s] # 0 => pc = "check"
    <3>1. PICK n, pc : /\ LevelDoes(t, [NoWork EXCEPT !.stmt = s, !.name = n, !.since = settled, !.pc = pc])
                       /\ site[s] # 0 => pc = "check"
      BY <1>6 DEF Reach
    <3>2. PICK w : w = [NoWork EXCEPT !.stmt = s, !.name = n, !.since = settled, !.pc = pc]
      OBVIOUS
    <3>3. w = [pc |-> pc, todo |-> <<>>, name |-> n, walk |-> {}, alone |-> TRUE, stmt |-> s, since |-> settled]
      BY <3>2 DEF NoWork
    <3>4. LevelDoes(t, w)
      BY <3>1, <3>2, Zenon
    <3> QED BY <3>1, <3>3, <3>4
  <2>1. LevelDoes(t, w) /\ w.stmt = s /\ (site[s] # 0 => w.pc = "check")
    BY <2>0
  <2>2. \A u \in LevelThreads : Making(u) => lt[u].stmt # s
    BY <1>6 DEF Reach, Sited
  <2>3. lt'[t] = w /\ \A u \in LevelThreads : u # t => lt'[u] = lt[u]
    BY <2>1, <1>t DEF LevelDoes, LevelTypes
  <2>4. UNCHANGED <<sites, site>>
    BY <1>6 DEF Reach, siteVars
  <2>5. ASSUME NEW v \in LevelThreads, Making(v)'
        PROVE  /\ site[lt'[v].stmt] = 0
               /\ \A u \in LevelThreads : u # v /\ Making(u)' => lt'[u].stmt # lt'[v].stmt
    <3>1. CASE v = t
      <4>1. lt'[v].stmt = s /\ site[s] = 0
        BY <3>1, <2>5, <2>3, <2>1 DEF Making
      <4>2. \A u \in LevelThreads : u # v /\ Making(u)' => Making(u) /\ lt'[u].stmt = lt[u].stmt
        BY <3>1, <2>3 DEF Making
      <4> QED BY <4>1, <4>2, <2>2
    <3>2. CASE v # t
      <4>1. Making(v) /\ lt'[v].stmt = lt[v].stmt
        BY <3>2, <2>5, <2>3 DEF Making
      <4>2. lt'[t].stmt = s
        BY <2>1, <2>3
      <4>3. \A u \in LevelThreads : u # t /\ Making(u)' => Making(u) /\ lt'[u].stmt = lt[u].stmt
        BY <2>3 DEF Making
      <4> QED BY <4>1, <4>2, <4>3, <2>2 DEF Sited
    <3> QED BY <3>1, <3>2
  <2> QED BY <2>4, <2>5 DEF Sited, Given
<1>7. ASSUME NEW t \in LevelThreads, RegisterSite(t) PROVE Sited'
  <2>1. PICK s \in DOMAIN Statements : s = lt[t].stmt /\ s # 0
    BY <1>7, WorkIs DEF RegisterSite, ThreadType
  <2>2. /\ sites' = Append(sites, [stmt |-> s, minLevel |-> Statements[s].level])
        /\ site' = [site EXCEPT ![s] = Len(sites) + 1]
        /\ LevelDoes(t, [lt[t] EXCEPT !.pc = "check"]) /\ Making(t)
    BY <1>7, <2>1 DEF RegisterSite, Making, LevelAt
  <2>3. PICK n \in Nat : n = Len(sites)
    BY <1>t DEF LevelTypes
  <2>4. /\ Len(sites') = n + 1 /\ sites'[n + 1].stmt = s
        /\ \A i \in 1 .. n : sites'[i] = sites[i]
    BY <2>2, <2>3, <1>t, AppendProperties, LevelsAssumption DEF LevelTypes
  <2>5. /\ DOMAIN site' = DOMAIN Statements /\ DOMAIN site = DOMAIN Statements
        /\ \A r \in DOMAIN Statements : site'[r] = IF r = s THEN n + 1 ELSE site[r]
    BY <2>2, <2>3, <1>t DEF LevelTypes
  <2>6. site[s] = 0
    BY <2>1, <2>2 DEF Sited
  <2>7. \A r \in DOMAIN site' : site'[r] # 0 => site'[r] \in 1 .. Len(sites') /\ sites'[site'[r]].stmt = r
    BY <2>3, <2>4, <2>5 DEF Sited
  <2>8. Len(sites') = Cardinality(Given')
    <3>1. Given' = Given \cup {s} /\ s \notin Given
      BY <2>3, <2>5, <2>6 DEF Given
    <3>2. Given \in SUBSET (DOMAIN Statements)
      BY <2>5 DEF Given
    <3>3. IsFiniteSet(Given)
      BY <3>2, LevelsAssumption, FS_Subset
    <3>4. Cardinality(Given \cup {s}) = Cardinality(Given) + 1
      BY ONLY <3>1, <3>3, FS_AddElement
    <3> QED BY <3>1, <3>4, <2>3, <2>4 DEF Sited
  <2>9. lt'[t].pc = "check" /\ \A u \in LevelThreads : u # t => lt'[u] = lt[u]
    <3>1. [lt[t] EXCEPT !.pc = "check"].pc = "check"
      BY WorkIs DEF ThreadType
    <3> QED BY <3>1, <2>2, <1>t DEF LevelDoes, LevelTypes
  <2>10. \A u \in LevelThreads : Making(u)' => u # t /\ Making(u) /\ lt'[u].stmt = lt[u].stmt
    BY <2>9 DEF Making
  <2>11. ASSUME NEW v \in LevelThreads, Making(v)'
         PROVE  /\ site'[lt'[v].stmt] = 0
                /\ \A u \in LevelThreads : u # v /\ Making(u)' => lt'[u].stmt # lt'[v].stmt
    <3>1. v # t /\ Making(v) /\ lt'[v].stmt = lt[v].stmt
      BY <2>10, <2>11
    <3>2. lt[v].stmt # s /\ site[lt[v].stmt] = 0 /\ lt[v].stmt \in DOMAIN Statements
      BY <3>1, <2>1, <2>2, WorkIs DEF Sited, Making, ThreadType
    <3>3. \A u \in LevelThreads : u # v /\ Making(u)' => lt'[u].stmt # lt'[v].stmt
      BY <3>1, <2>10 DEF Sited
    <3> QED BY <3>1, <3>2, <3>3, <2>5
  <2> QED BY <2>7, <2>8, <2>11 DEF Sited
<1>8. ASSUME NEW matching, NEW level \in AllLevels, SetSiteLevels(matching, level) PROVE Sited'
  <2>1. Len(sites) \in Nat /\ DOMAIN sites = 1 .. Len(sites)
    BY <1>t DEF LevelTypes
  <2>2. sites' = [i \in 1 .. Len(sites) |->
                    IF i \in matching THEN [sites[i] EXCEPT !.minLevel = level] ELSE sites[i]]
    BY <1>8, <2>1 DEF SetSiteLevels
  <2>3. Len(sites') = Len(sites)
    BY <2>1, <2>2
  <2>4. ASSUME NEW i \in 1 .. Len(sites) PROVE sites'[i].stmt = sites[i].stmt
    <3>1. PICK x \in [stmt : DOMAIN Statements, minLevel : AllLevels] : x = sites[i]
      BY <1>t, ElementOfSeq DEF LevelTypes
    <3>2. [x EXCEPT !.minLevel = level].stmt = x.stmt
      OBVIOUS
    <3> QED BY <3>1, <3>2, <2>2
  <2>5. UNCHANGED <<site, lt>>
    BY <1>8 DEF SetSiteLevels
  <2> QED BY <2>3, <2>4, <2>5 DEF Sited, Given, Making
<1>9. CASE UNCHANGED levelVars
  BY <1>9, MakingStays DEF levelVars, Making
<1> QED BY <1>1, <1>2, <1>4, <1>5, <1>6, <1>7, <1>8, <1>9, LevelCases

LevelInv == LevelTypesOK /\ Numbered /\ SetByOne /\ Sited

(* set_all_modules_level, get_module, register_site: for any threads, names, *)
(* statements and configurations, a level set for all modules is that of     *)
(* every module, a name has one module, and a statement one site.            *)
THEOREM LevelsAlwaysAgree == LevelSpec => []LevelsAgree
<1>1. LevelInit => LevelInv
  BY LevelInitTypes, SetByOneInit, SitedInit DEF LevelInv
<1>2. LevelInv /\ [LevelNext]_levelVars => LevelInv'
  BY LevelTypesKept, NumberedKept, SetByOneKept, SitedKept DEF LevelInv
<1>3. LevelInv => LevelsAgree
  <2> SUFFICES ASSUME LevelInv PROVE LevelsAgree
    OBVIOUS
  <2>1. DOMAIN moduleLevel = 1 .. Len(moduleLevel)
    BY DEF LevelInv, LevelTypesOK, LevelTypes
  <2> QED BY <2>1 DEF LevelInv, LevelsAgree, Numbered, SetByOne, Everywhere, Sited, Given
<1> QED BY <1>1, <1>2, <1>3, PTL DEF LevelSpec

-----------------------------------------------------------------------------
(***************************************************************************)
(* Sums.  A total of natural numbers is one; where the function changes at *)
(* one argument, the total changes by as much.                             *)
(***************************************************************************)
PairsOf(f, S) == UNION {{x} \X (1 .. f[x]) : x \in S}

LEMMA PairsAre ==
    ASSUME NEW f, NEW S, NEW y
    PROVE  y \in PairsOf(f, S) <=> \E x \in S : \E k \in 1 .. f[x] : y = <<x, k>>
BY DEF PairsOf

LEMMA PairsFinite ==
    ASSUME NEW S, IsFiniteSet(S), NEW f \in [S -> Nat]
    PROVE  IsFiniteSet(PairsOf(f, S))
<1>1. ASSUME NEW x \in S PROVE IsFiniteSet({x} \X (1 .. f[x]))
  <2>1. f[x] \in Nat
    BY <1>1
  <2>2. IsFiniteSet(1 .. f[x])
    BY ONLY <2>1, FS_Interval
  <2>3. IsFiniteSet({x})
    BY FS_Singleton
  <2> QED BY <2>2, <2>3, FS_Product
<1>2. IsFiniteSet({{x} \X (1 .. f[x]) : x \in S})
  <2> DEFINE row == [x \in S |-> {x} \X (1 .. f[x])]
             rows == {{x} \X (1 .. f[x]) : x \in S}
  <2>1. row \in Surjection(S, rows)
    BY DEF Surjection
  <2>2. IsFiniteSet(rows)
    BY <2>1, FS_Surjection
  <2> QED BY <2>2
<1> QED BY <1>1, <1>2, FS_UNION DEF PairsOf

(* Taking one argument out.                                                *)
LEMMA TotalWithout ==
    ASSUME NEW S, IsFiniteSet(S), NEW f \in [S -> Nat], NEW x \in S
    PROVE  /\ Cardinality(PairsOf(f, S \ {x})) \in Nat
           /\ Total(f) = Cardinality(PairsOf(f, S \ {x})) + f[x]
<1> DEFINE Rest == PairsOf(f, S \ {x})
           Row == {x} \X (1 .. f[x])
<1>1. IsFiniteSet(Rest) /\ Cardinality(Rest) \in Nat
  <2>1. IsFiniteSet(Rest)
    <3>1. IsFiniteSet(S \ {x})
      BY FS_Difference
    <3>2. [z \in S \ {x} |-> f[z]] \in [S \ {x} -> Nat]
      OBVIOUS
    <3>3. PairsOf([z \in S \ {x} |-> f[z]], S \ {x}) = Rest
      BY DEF PairsOf
    <3> QED BY <3>1, <3>2, <3>3, PairsFinite
  <2> QED BY <2>1, FS_CardinalityType
<1>2. IsFiniteSet(Row) /\ Cardinality(Row) = f[x]
  <2>1. IsFiniteSet({x}) /\ Cardinality({x}) = 1
    BY FS_Singleton
  <2>2. IsFiniteSet(1 .. f[x]) /\ Cardinality(1 .. f[x]) = f[x]
    BY FS_Interval
  <2>3. IsFiniteSet(Row) /\ Cardinality(Row) = Cardinality({x}) * Cardinality(1 .. f[x])
    BY <2>1, <2>2, FS_Product
  <2>4. f[x] \in Nat
    OBVIOUS
  <2> QED BY <2>1, <2>2, <2>3, <2>4
<1>3. PairsOf(f, S) = Rest \cup Row
  BY DEF PairsOf
<1>4. Rest \cap Row = {}
  BY DEF PairsOf
<1>5. Cardinality(Rest \cup Row) = Cardinality(Rest) + Cardinality(Row) - Cardinality(Rest \cap Row)
  BY <1>1, <1>2, FS_Union
<1>6. Cardinality(Rest \cap Row) = 0
  BY <1>4, FS_EmptySet
<1>7. Total(f) = Cardinality(PairsOf(f, S))
  BY DEF Total, PairsOf
<1>8. f[x] \in Nat
  OBVIOUS
<1> HIDE DEF Rest, Row
<1>9. Total(f) = Cardinality(Rest) + f[x]
  BY <1>1, <1>2, <1>3, <1>5, <1>6, <1>7, <1>8
<1> QED BY <1>1, <1>9 DEF Rest

LEMMA TotalType ==
    ASSUME NEW S, IsFiniteSet(S), NEW f \in [S -> Nat]
    PROVE  Total(f) \in Nat
<1>1. IsFiniteSet(PairsOf(f, S)) /\ Total(f) = Cardinality(PairsOf(f, S))
  BY PairsFinite DEF Total, PairsOf
<1> QED BY <1>1, FS_CardinalityType

LEMMA TotalAtLeast ==
    ASSUME NEW S, IsFiniteSet(S), NEW f \in [S -> Nat], NEW x \in S
    PROVE  Total(f) >= f[x]
<1>1. f[x] \in Nat
  OBVIOUS
<1>2. PICK rest \in Nat : Total(f) = rest + f[x]
  BY TotalWithout
<1> QED BY <1>1, <1>2

LEMMA TotalChanges ==
    ASSUME NEW S, IsFiniteSet(S), NEW f \in [S -> Nat], NEW g \in [S -> Nat], NEW x \in S,
           \A y \in S : y # x => g[y] = f[y]
    PROVE  Total(g) = Total(f) - f[x] + g[x]
<1>1. PairsOf(f, S \ {x}) = PairsOf(g, S \ {x})
  BY DEF PairsOf
<1>2. f[x] \in Nat /\ g[x] \in Nat
  OBVIOUS
<1> QED BY <1>1, <1>2, TotalWithout

LEMMA TotalOfNone ==
    ASSUME NEW S, NEW f \in [S -> {0}]
    PROVE  Total(f) = 0
<1>1. \A x \in S : 1 .. f[x] = {}
  OBVIOUS
<1>2. UNION {{x} \X (1 .. f[x]) : x \in DOMAIN f} = {}
  BY <1>1
<1> QED BY <1>2, FS_EmptySet DEF Total

-----------------------------------------------------------------------------
(***************************************************************************)
(* The permits.                                                            *)
(***************************************************************************)
CallPcs == {"idle", "spin", "asleep", "adjust", "leave", "more", "take"}
CallType == [pc : CallPcs, max : Nat, timeout : {"none", "some", "zero"}, seen : Int, permits : Nat]
PostType == [pc : {"idle", "signal", "post"}, count : Nat]

(* How many permits a call has where it is, and that it asks for some.      *)
CallFits(c) ==
    /\ c.pc \in {"idle", "spin", "asleep", "adjust", "leave"} => c.permits = 0
    /\ c.pc = "more" => c.permits = 1
    /\ c.pc \in {"spin", "asleep", "adjust", "leave", "more"} => c.max >= 1

BlockingTypes ==
    /\ size \in Nat /\ m_count \in Int /\ m_sema \in Nat
    /\ epc \in [Enqueuers -> PostType]
    /\ wait \in [Waiters -> CallType]

BlockingInv ==
    /\ BlockingTypes
    /\ \A w \in Waiters : CallFits(wait[w])
    /\ PermitsBacked

CountsIn(e, pc) == [x \in Enqueuers |-> IF e[x].pc = pc THEN e[x].count ELSE 0]
PermitsIn(c) == [w \in Waiters |-> c[w].permits]
Behind(c) == {w \in Waiters : c[w].pc \in {"asleep", "adjust", "leave"}}

OnTheWay(y) == IF y.pc \in {"asleep", "adjust", "leave"} THEN 1 ELSE 0
Owed(n) == IF n < 0 THEN -n ELSE 0

LEMMA OwedIs ==
    ASSUME NEW n \in Int
    PROVE  /\ Owed(n) \in Nat /\ (n >= 0 => Owed(n) = 0) /\ (n < 0 => Owed(n) = -n)
BY DEF Owed

LEMMA Sums ==
    /\ InCall("signal") = Total(CountsIn(epc, "signal"))
    /\ InCall("post") = Total(CountsIn(epc, "post"))
    /\ Permits = Total(PermitsIn(wait)) /\ Registered = Behind(wait)
BY DEF InCall, CountsIn, Permits, PermitsIn, Registered, Behind

LEMMA SumsNext ==
    /\ InCall("signal")' = Total(CountsIn(epc', "signal"))
    /\ InCall("post")' = Total(CountsIn(epc', "post"))
    /\ Permits' = Total(PermitsIn(wait')) /\ Registered' = Behind(wait')
BY DEF InCall, CountsIn, Permits, PermitsIn, Registered, Behind, Total

LEMMA SumTypes ==
    ASSUME BlockingTypes
    PROVE  /\ InCall("signal") \in Nat /\ InCall("post") \in Nat /\ Permits \in Nat
           /\ IsFiniteSet(Registered) /\ Cardinality(Registered) \in Nat
<1>1. CountsIn(epc, "signal") \in [Enqueuers -> Nat] /\ CountsIn(epc, "post") \in [Enqueuers -> Nat]
  BY DEF CountsIn, BlockingTypes, PostType
<1>2. PermitsIn(wait) \in [Waiters -> Nat]
  BY DEF PermitsIn, BlockingTypes, CallType
<1>3. Behind(wait) \subseteq Waiters
  BY DEF Behind
<1> QED BY <1>1, <1>2, <1>3, Sums, TotalType, BlockingAssumption, FS_Subset, FS_CardinalityType

(* What an enqueuer's step does to the sums.                                *)
LEMMA EnqueuerSums ==
    ASSUME BlockingTypes, NEW e \in Enqueuers, NEW x \in PostType,
           epc' = [epc EXCEPT ![e] = x], wait' = wait
    PROVE  LET in(y, pc) == IF y.pc = pc THEN y.count ELSE 0 IN
           /\ InCall("signal")' = InCall("signal") - in(epc[e], "signal") + in(x, "signal")
           /\ InCall("post")' = InCall("post") - in(epc[e], "post") + in(x, "post")
           /\ Permits' = Permits /\ Registered' = Registered
<1> DEFINE in(y, pc) == IF y.pc = pc THEN y.count ELSE 0
<1>1. ASSUME NEW pc \in {"signal", "post"}
      PROVE  Total(CountsIn(epc', pc)) = Total(CountsIn(epc, pc)) - in(epc[e], pc) + in(x, pc)
  <2>1. CountsIn(epc, pc) \in [Enqueuers -> Nat] /\ CountsIn(epc', pc) \in [Enqueuers -> Nat]
    BY DEF CountsIn, BlockingTypes, PostType
  <2>2. \A y \in Enqueuers : y # e => CountsIn(epc', pc)[y] = CountsIn(epc, pc)[y]
    BY DEF CountsIn
  <2>3. CountsIn(epc, pc)[e] = in(epc[e], pc) /\ CountsIn(epc', pc)[e] = in(x, pc)
    BY DEF CountsIn, BlockingTypes
  <2>4. Total(CountsIn(epc', pc)) = Total(CountsIn(epc, pc)) - CountsIn(epc, pc)[e] + CountsIn(epc', pc)[e]
    <3> HIDE DEF in
    <3>1. IsFiniteSet(Enqueuers)
      BY BlockingAssumption
    <3> QED BY ONLY <2>1, <2>2, <3>1, e \in Enqueuers, TotalChanges
  <2> QED BY <2>3, <2>4
<1>2. Permits' = Permits /\ Registered' = Registered
  BY DEF Permits, Registered, Total
<1> QED BY <1>1, <1>2, Sums, SumsNext

(* What a waiter's step does to them.                                       *)
LEMMA WaiterSums ==
    ASSUME BlockingTypes, NEW w \in Waiters, NEW c \in CallType, Call(w, c), epc' = epc
    PROVE  LET on(y) == IF y.pc \in {"asleep", "adjust", "leave"} THEN 1 ELSE 0 IN
           /\ InCall("signal")' = InCall("signal") /\ InCall("post")' = InCall("post")
           /\ Permits' = Permits - wait[w].permits + c.permits
           /\ Cardinality(Registered)' = Cardinality(Registered) - on(wait[w]) + on(c)
<1> DEFINE on(y) == IF y.pc \in {"asleep", "adjust", "leave"} THEN 1 ELSE 0
<1>0. wait'[w] = c /\ \A v \in Waiters : v # w => wait'[v] = wait[v]
  BY DEF Call, BlockingTypes
<1>1. InCall("signal")' = InCall("signal") /\ InCall("post")' = InCall("post")
  BY DEF InCall, Total
<1>2. Permits' = Permits - wait[w].permits + c.permits
  <2>1. PermitsIn(wait) \in [Waiters -> Nat] /\ PermitsIn(wait') \in [Waiters -> Nat]
    BY <1>0 DEF PermitsIn, BlockingTypes, CallType
  <2>2. \A v \in Waiters : v # w => PermitsIn(wait')[v] = PermitsIn(wait)[v]
    BY <1>0 DEF PermitsIn
  <2>3. PermitsIn(wait)[w] = wait[w].permits /\ PermitsIn(wait')[w] = c.permits
    BY <1>0 DEF PermitsIn
  <2>4. Total(PermitsIn(wait')) = Total(PermitsIn(wait)) - PermitsIn(wait)[w] + PermitsIn(wait')[w]
    BY <2>1, <2>2, TotalChanges, BlockingAssumption
  <2> QED BY <2>3, <2>4, Sums, SumsNext
<1>3. Cardinality(Registered)' = Cardinality(Registered) - on(wait[w]) + on(c)
  <2>1. IsFiniteSet(Registered) /\ Cardinality(Registered) \in Nat
    BY SumTypes
  <2>2. CASE on(wait[w]) = on(c)
    <3>1. Registered' = Registered
      BY <2>2, <1>0 DEF Registered
    <3> QED BY <3>1, <2>1, <2>2
  <2>3. CASE on(wait[w]) = 0 /\ on(c) = 1
    <3>1. w \notin Registered /\ Registered' = Registered \cup {w}
      BY <2>3, <1>0 DEF Registered
    <3>2. Cardinality(Registered \cup {w}) = Cardinality(Registered) + 1
      BY <2>1, <3>1, FS_AddElement
    <3> QED BY <3>1, <3>2, <2>1, <2>3
  <2>4. CASE on(wait[w]) = 1 /\ on(c) = 0
    <3>1. w \in Registered /\ Registered' = Registered \ {w}
      BY <2>4, <1>0 DEF Registered
    <3>2. Cardinality(Registered \ {w}) = Cardinality(Registered) - 1
      BY <2>1, <3>1, FS_RemoveElement
    <3> QED BY <3>1, <3>2, <2>1, <2>4
  <2> QED BY <2>2, <2>3, <2>4
<1> QED BY <1>1, <1>2, <1>3

LEMMA BlockingInitFits == BlockingInit => BlockingInv
<1> SUFFICES ASSUME BlockingInit PROVE BlockingInv
  OBVIOUS
<1>1. NoCall \in CallType /\ CallFits(NoCall) /\ NoCall.pc = "idle" /\ NoCall.permits = 0
  BY DEF NoCall, CallType, CallFits, CallPcs
<1>2. BlockingTypes /\ \A w \in Waiters : CallFits(wait[w])
  BY <1>1 DEF BlockingInit, BlockingTypes, PostType
<1>3. CountsIn(epc, "signal") \in [Enqueuers -> {0}] /\ CountsIn(epc, "post") \in [Enqueuers -> {0}]
  BY DEF BlockingInit, CountsIn
<1>4. PermitsIn(wait) \in [Waiters -> {0}] /\ Registered = {}
  BY <1>1 DEF BlockingInit, PermitsIn, Registered
<1>5. InCall("signal") = 0 /\ InCall("post") = 0 /\ Permits = 0 /\ Cardinality(Registered) = 0
  BY <1>3, <1>4, Sums, TotalOfNone, FS_EmptySet
<1> QED BY <1>2, <1>5 DEF BlockingInit, BlockingInv, PermitsBacked

LEMMA EnqueuersKeepPermits ==
    ASSUME BlockingInv, NEW e \in Enqueuers, EnqueueItems(e) \/ Signal(e) \/ Post(e)
    PROVE  BlockingInv'
<1> DEFINE in(y, pc) == IF y.pc = pc THEN y.count ELSE 0
<1>t. BlockingTypes /\ epc[e] \in PostType /\ epc[e].count \in Nat
  BY DEF BlockingInv, BlockingTypes, PostType
<1>s. /\ InCall("signal") \in Nat /\ InCall("post") \in Nat /\ Permits \in Nat
      /\ Cardinality(Registered) \in Nat
  BY <1>t, SumTypes
<1>0. ASSUME NEW x \in PostType, epc' = [epc EXCEPT ![e] = x], UNCHANGED wait,
             size' \in Nat, m_count' \in Int, m_sema' \in Nat,
             size' - in(x, "signal") - m_count' = size - in(epc[e], "signal") - m_count,
             m_sema' + in(x, "post") + (IF m_count' < 0 THEN -m_count' ELSE 0)
               = m_sema + in(epc[e], "post") + (IF m_count < 0 THEN -m_count ELSE 0)
      PROVE  BlockingInv'
  <2>1. /\ InCall("signal")' = InCall("signal") - in(epc[e], "signal") + in(x, "signal")
        /\ InCall("post")' = InCall("post") - in(epc[e], "post") + in(x, "post")
        /\ Permits' = Permits /\ Registered' = Registered
    BY <1>0, <1>t, EnqueuerSums
  <2>2. BlockingTypes' /\ \A w \in Waiters : CallFits(wait[w])'
    BY <1>0, <1>t DEF BlockingTypes, BlockingInv
  <2>3. in(x, "signal") \in Nat /\ in(x, "post") \in Nat /\ in(epc[e], "signal") \in Nat /\ in(epc[e], "post") \in Nat
    BY <1>t DEF PostType
  <2>4. size \in Nat /\ m_count \in Int /\ m_sema \in Nat
    BY <1>t DEF BlockingTypes
  <2>5. Cardinality(Registered)' = Cardinality(Registered)
    BY <2>1
  <2>6. /\ size = Permits + InCall("signal") + m_count + Cardinality(Registered)
        /\ m_sema + InCall("post") = Cardinality(Registered) - (IF m_count < 0 THEN -m_count ELSE 0)
    BY DEF BlockingInv, PermitsBacked
  <2>7. PermitsBacked'
    <3> HIDE DEF in
    <3>1. size' = Permits' + InCall("signal")' + m_count' + Cardinality(Registered)'
      BY <1>0, <1>s, <2>1, <2>3, <2>4, <2>5, <2>6
    <3>2. PICK owed \in Int : owed = Owed(m_count)
      BY <2>4, OwedIs
    <3>3. PICK owing \in Int : owing = Owed(m_count')
      BY <1>0, OwedIs
    <3>4. m_sema' + in(x, "post") + owing = m_sema + in(epc[e], "post") + owed
      BY <1>0, <3>2, <3>3 DEF Owed
    <3>5. m_sema + InCall("post") = Cardinality(Registered) - owed
      BY <2>6, <3>2 DEF Owed
    <3>6. m_sema' + InCall("post")' = Cardinality(Registered)' - owing
      BY <1>0, <1>s, <2>1, <2>3, <2>4, <2>5, <3>4, <3>5
    <3> QED BY <3>1, <3>3, <3>6 DEF PermitsBacked, Owed
  <2> QED BY <2>2, <2>7 DEF BlockingInv
<1>1. CASE EnqueueItems(e)
  <2>1. PICK n \in 1 .. MaxTake : /\ size' = size + n
                                 /\ epc' = [epc EXCEPT ![e] = [pc |-> "signal", count |-> n]]
    BY <1>1 DEF EnqueueItems
  <2>2. epc[e].pc = "idle" /\ UNCHANGED <<m_count, m_sema, wait>>
    BY <1>1 DEF EnqueueItems
  <2>3. n \in Nat /\ [pc |-> "signal", count |-> n] \in PostType
    BY BlockingAssumption DEF PostType
  <2>4. /\ in([pc |-> "signal", count |-> n], "signal") = n /\ in([pc |-> "signal", count |-> n], "post") = 0
        /\ in(epc[e], "signal") = 0 /\ in(epc[e], "post") = 0
    BY <2>2
  <2>5. size \in Nat /\ m_count \in Int /\ m_sema \in Nat
    BY <1>t DEF BlockingTypes
  <2> HIDE DEF in
  <2>6. size' - n - m_count' = size - 0 - m_count /\ size' \in Nat
    BY <2>1, <2>2, <2>3, <2>5
  <2> QED BY <2>1, <2>2, <2>3, <2>4, <2>5, <2>6, <1>0
<1>2. CASE Signal(e)
  <2> DEFINE n == Least(-m_count, epc[e].count)
             x == IF n > 0 THEN [pc |-> "post", count |-> n] ELSE [pc |-> "idle", count |-> 0]
  <2>1. epc[e].pc = "signal" /\ m_count' = m_count + epc[e].count /\ UNCHANGED <<size, m_sema, wait>>
    BY <1>2 DEF Signal
  <2>2. epc' = [epc EXCEPT ![e] = x]
    BY <1>2 DEF Signal, ToRelease
  <2>3. n \in Int /\ m_count \in Int
    BY <1>t DEF BlockingTypes, Least
  <2>4. x \in PostType /\ in(x, "signal") = 0 /\ in(x, "post") = (IF n > 0 THEN n ELSE 0)
    BY <2>3 DEF PostType
  <2>5. in(epc[e], "signal") = epc[e].count /\ in(epc[e], "post") = 0
    BY <2>1
  <2>6. (IF n > 0 THEN n ELSE 0) + (IF m_count' < 0 THEN -m_count' ELSE 0)
          = (IF m_count < 0 THEN -m_count ELSE 0)
    BY <2>1, <2>3, <1>t DEF Least
  <2>7. size \in Nat /\ m_sema \in Nat
    BY <1>t DEF BlockingTypes
  <2> HIDE DEF x, n
  <2>8. size' \in Nat /\ m_count' \in Int /\ m_sema' \in Nat
    BY <2>1, <2>3, <2>7, <1>t
  <2>9. size' - in(x, "signal") - m_count' = size - in(epc[e], "signal") - m_count
    BY <2>1, <2>3, <2>4, <2>5, <2>7, <1>t
  <2>10. m_sema' + in(x, "post") + (IF m_count' < 0 THEN -m_count' ELSE 0)
           = m_sema + in(epc[e], "post") + (IF m_count < 0 THEN -m_count ELSE 0)
    BY <2>1, <2>3, <2>4, <2>5, <2>6, <2>7, <2>8
  <2> QED BY <2>1, <2>2, <2>4, <2>8, <2>9, <2>10, <1>0
<1>3. CASE Post(e)
  <2>1. /\ epc[e].pc = "post" /\ m_sema' = m_sema + epc[e].count
        /\ epc' = [epc EXCEPT ![e] = [pc |-> "idle", count |-> 0]] /\ UNCHANGED <<size, m_count, wait>>
    BY <1>3 DEF Post
  <2>2. [pc |-> "idle", count |-> 0] \in PostType
    BY DEF PostType
  <2>3. /\ in([pc |-> "idle", count |-> 0], "signal") = 0 /\ in([pc |-> "idle", count |-> 0], "post") = 0
        /\ in(epc[e], "signal") = 0 /\ in(epc[e], "post") = epc[e].count
    BY <2>1
  <2>4. size \in Nat /\ m_count \in Int /\ m_sema \in Nat
    BY <1>t DEF BlockingTypes
  <2> HIDE DEF in
  <2>5. /\ size' - 0 - m_count' = size - 0 - m_count /\ m_sema' \in Nat
        /\ m_sema' + 0 + (IF m_count' < 0 THEN -m_count' ELSE 0)
             = m_sema + epc[e].count + (IF m_count < 0 THEN -m_count ELSE 0)
    BY <2>1, <2>4, <1>t
  <2> QED BY <2>1, <2>2, <2>3, <2>4, <2>5, <1>0
<1> QED BY <1>1, <1>2, <1>3

LEMMA WaiterKeepsPermits ==
    ASSUME BlockingInv, NEW w \in Waiters, NEW c \in CallType, CallFits(c), Call(w, c), UNCHANGED epc,
           size' \in Nat, m_count' \in Int, m_sema' \in Nat,
           size' - c.permits - m_count' - OnTheWay(c)
             = size - wait[w].permits - m_count - OnTheWay(wait[w]),
           m_sema' - OnTheWay(c) + Owed(m_count') = m_sema - OnTheWay(wait[w]) + Owed(m_count)
    PROVE  BlockingInv'
<1>t. BlockingTypes /\ wait[w] \in CallType /\ wait[w].permits \in Nat /\ c.permits \in Nat
  BY DEF BlockingInv, BlockingTypes, CallType
<1>s. /\ InCall("signal") \in Nat /\ InCall("post") \in Nat /\ Permits \in Nat
      /\ Cardinality(Registered) \in Nat
  BY <1>t, SumTypes
<1>1. /\ InCall("signal")' = InCall("signal") /\ InCall("post")' = InCall("post")
      /\ Permits' = Permits - wait[w].permits + c.permits
      /\ Cardinality(Registered)' = Cardinality(Registered) - OnTheWay(wait[w]) + OnTheWay(c)
  BY <1>t, WaiterSums DEF OnTheWay
<1>2. BlockingTypes' /\ \A v \in Waiters : CallFits(wait[v])'
  BY <1>t DEF BlockingTypes, BlockingInv, Call, CallFits
<1>3. OnTheWay(c) \in Nat /\ OnTheWay(wait[w]) \in Nat /\ Owed(m_count) \in Int /\ Owed(m_count') \in Int
  BY <1>t DEF OnTheWay, Owed, BlockingTypes
<1>4. size \in Nat /\ m_count \in Int /\ m_sema \in Nat
  BY <1>t DEF BlockingTypes
<1>5. /\ size = Permits + InCall("signal") + m_count + Cardinality(Registered)
      /\ m_sema + InCall("post") = Cardinality(Registered) - Owed(m_count)
  BY DEF BlockingInv, PermitsBacked, Owed
<1>6. size' = Permits' + InCall("signal")' + m_count' + Cardinality(Registered)'
  <2>1. size' = (Permits - wait[w].permits + c.permits) + InCall("signal") + m_count'
                  + (Cardinality(Registered) - OnTheWay(wait[w]) + OnTheWay(c))
    <3>1. PICK a \in Int, a1 \in Int, p \in Int, i \in Int, k \in Int, k1 \in Int, r \in Int :
            /\ a = size /\ a1 = size' /\ p = Permits /\ i = InCall("signal") /\ k = m_count /\ k1 = m_count'
            /\ r = Cardinality(Registered)
      BY <1>s, <1>4
    <3>2. PICK o \in Int, o1 \in Int, x \in Int, y \in Int :
            /\ o = wait[w].permits /\ o1 = c.permits /\ x = OnTheWay(wait[w]) /\ y = OnTheWay(c)
      BY <1>t, <1>3
    <3>3. a = p + i + k + r /\ a1 - o1 - k1 - y = a - o - k - x
      BY <3>1, <3>2, <1>5
    <3>4. a1 = (p - o + o1) + i + k1 + (r - x + y)
      BY ONLY <3>3, a \in Int, a1 \in Int, p \in Int, i \in Int, k \in Int, k1 \in Int, r \in Int,
              o \in Int, o1 \in Int, x \in Int, y \in Int
    <3> QED BY <3>1, <3>2, <3>4
  <2> QED BY <2>1, <1>1
<1>7. m_sema' + InCall("post")' = Cardinality(Registered)' - Owed(m_count')
  <2>1. m_sema' + InCall("post") = (Cardinality(Registered) - OnTheWay(wait[w]) + OnTheWay(c)) - Owed(m_count')
    <3>0. PICK a \in Int, b \in Int, s \in Int, s1 \in Int :
            a = InCall("post") /\ b = Cardinality(Registered) /\ s = m_sema /\ s1 = m_sema'
      BY <1>s, <1>3, <1>4
    <3>1. PICK o \in Int, n \in Int, x \in Int, y \in Int :
            o = Owed(m_count) /\ n = Owed(m_count') /\ x = OnTheWay(wait[w]) /\ y = OnTheWay(c)
      BY <1>s, <1>3, <1>4
    <3>2. s1 - y + n = s - x + o /\ s + a = b - o
      BY <3>0, <3>1, <1>5
    <3>3. s1 + a = (b - x + y) - n
      BY ONLY <3>2, a \in Int, b \in Int, o \in Int, n \in Int, x \in Int, y \in Int, s \in Int, s1 \in Int
    <3> QED BY <3>0, <3>1, <3>3
  <2> QED BY <2>1, <1>1
<1>8. PermitsBacked'
  BY <1>6, <1>7 DEF PermitsBacked, Owed
<1> QED BY <1>2, <1>8 DEF BlockingInv

LEMMA MoreIs ==
    ASSUME NEW max \in Nat, m_count \in Int
    PROVE  /\ TryWaitMany(max) \in Nat /\ TryWaitMany(max) <= max
           /\ TryWaitMany(max) # 0 => m_count - TryWaitMany(max) >= 0
BY DEF TryWaitMany, Least

LEMMA CallMade ==
    ASSUME NEW old \in CallType, NEW pc \in CallPcs, NEW seen \in Int, NEW n \in Nat, NEW c,
           c = [pc |-> pc, max |-> old.max, timeout |-> old.timeout, seen |-> seen, permits |-> n]
    PROVE  c \in CallType /\ c.pc = pc /\ c.permits = n /\ c.max = old.max
<1>1. old.max \in Nat /\ old.timeout \in {"none", "some", "zero"}
  BY DEF CallType
<1>2. c \in CallType
  BY <1>1 DEF CallType
<1> QED BY <1>2

LEMMA NoCallIs == NoCall \in CallType /\ CallFits(NoCall) /\ OnTheWay(NoCall) = 0 /\ NoCall.permits = 0
BY DEF NoCall, CallType, CallFits, CallPcs, OnTheWay

LEMMA WaitersKeepPermits ==
    ASSUME BlockingInv, NEW w \in Waiters, TryDequeue(w) \/ WaitDequeue(w) \/ WaitSteps(w)
    PROVE  BlockingInv'
<1>t. /\ size \in Nat /\ m_count \in Int /\ m_sema \in Nat
      /\ wait[w] \in CallType /\ wait[w].permits \in Nat /\ wait[w].max \in Nat /\ wait[w].seen \in Int
  BY DEF BlockingInv, BlockingTypes, CallType
<1>f. CallFits(wait[w])
  BY DEF BlockingInv
<1>o. Owed(m_count) \in Nat /\ OnTheWay(wait[w]) \in Nat
  BY <1>t DEF Owed, OnTheWay
<1>1. CASE TryDequeue(w)
  <2>1. PICK max, n, c :
          /\ max \in 1 .. MaxTake /\ n = TryWaitMany(max) /\ m_count' = m_count - n /\ Call(w, c)
          /\ c = IF n = 0 THEN NoCall ELSE [NoCall EXCEPT !.pc = "take", !.permits = n]
    BY <1>1 DEF TryDequeue
  <2>2. n \in Nat /\ (n # 0 => m_count - n >= 0)
    BY <2>1, <1>t, MoreIs, BlockingAssumption
  <2>3. c = [pc |-> IF n = 0 THEN "idle" ELSE "take", max |-> 0, timeout |-> "none", seen |-> 0, permits |-> n]
    BY <2>1, <2>2 DEF NoCall
  <2>4. c \in CallType /\ CallFits(c) /\ c.permits = n /\ OnTheWay(c) = 0
    BY <2>2, <2>3 DEF CallType, CallPcs, CallFits, OnTheWay
  <2>5. wait[w].permits = 0 /\ OnTheWay(wait[w]) = 0 /\ UNCHANGED <<size, m_sema, epc>>
    BY <1>1, <1>f DEF TryDequeue, CallFits, OnTheWay
  <2>6. m_count' \in Int /\ Owed(m_count') = Owed(m_count)
    BY <2>1, <2>2, <1>t DEF Owed
  <2>7. size' - n - m_count' - 0 = size - 0 - m_count - 0
    BY <2>1, <2>2, <2>5, <1>t
  <2>8. m_sema' - 0 + Owed(m_count') = m_sema - 0 + Owed(m_count)
    BY <2>5, <2>6
  <2> QED BY <2>1, <2>4, <2>5, <2>6, <2>7, <2>8, <1>t, WaiterKeepsPermits
<1>2. CASE WaitDequeue(w)
  <2>1. PICK max, timeout, c :
          /\ max \in 1 .. MaxTake /\ timeout \in {"none", "some", "zero"}
          /\ Call(w, c) /\ c = [NoCall EXCEPT !.pc = "spin", !.max = max, !.timeout = timeout]
    BY <1>2 DEF WaitDequeue
  <2>2. c = [pc |-> "spin", max |-> max, timeout |-> timeout, seen |-> 0, permits |-> 0]
    BY <2>1 DEF NoCall
  <2>3. max \in Nat /\ max >= 1
    BY <2>1, BlockingAssumption
  <2>4. c \in CallType /\ CallFits(c) /\ c.permits = 0 /\ OnTheWay(c) = 0
    <3>1. timeout \in {"none", "some", "zero"}
      BY <2>1
    <3> QED BY <3>1, <2>2, <2>3 DEF CallType, CallPcs, CallFits, OnTheWay
  <2>5. wait[w].permits = 0 /\ OnTheWay(wait[w]) = 0 /\ UNCHANGED <<size, m_count, m_sema, epc>>
    BY <1>2, <1>f DEF WaitDequeue, CallFits, OnTheWay
  <2> QED BY <2>1, <2>4, <2>5, <1>t, WaiterKeepsPermits

<1>c. ASSUME NEW pc \in CallPcs, NEW seen \in Int, NEW n \in Nat, NEW c,
             c = [pc |-> pc, max |-> wait[w].max, timeout |-> wait[w].timeout, seen |-> seen, permits |-> n]
      PROVE  c \in CallType /\ c.pc = pc /\ c.permits = n /\ c.max = wait[w].max
  BY <1>c, <1>t, CallMade
<1>3. CASE SpinOnce(w)
  <2>1. PICK n, c : /\ n = TryWaitMany(wait[w].max) /\ n > 0 /\ m_count' = m_count - n
                    /\ Call(w, c) /\ c = [wait[w] EXCEPT !.pc = "take", !.permits = n]
    BY <1>3 DEF SpinOnce, Granted
  <2>2. n \in Nat /\ m_count - n >= 0
    BY <2>1, <1>t, MoreIs
  <2>3. c \in CallType /\ c.pc = "take" /\ c.permits = n
    <3>1. c = [pc |-> "take", max |-> wait[w].max, timeout |-> wait[w].timeout,
             seen |-> wait[w].seen, permits |-> n]
      BY <2>1, <2>2, <1>t DEF CallType
    <3> QED BY <3>1, <2>1, <2>2, <1>c, <1>t DEF CallPcs
  <2>4. CallFits(c) /\ OnTheWay(c) = 0
    BY <2>3 DEF CallFits, OnTheWay
  <2>5. wait[w].permits = 0 /\ OnTheWay(wait[w]) = 0 /\ UNCHANGED <<size, m_sema, epc>>
    BY <1>3, <1>f DEF SpinOnce, CallFits, OnTheWay
  <2>6. Owed(m_count') = 0 /\ Owed(m_count) = 0
    BY <2>1, <2>2, <1>t DEF Owed
  <2>7. /\ size' - n - m_count' - 0 = size - 0 - m_count - 0
        /\ m_sema' - 0 + Owed(m_count') = m_sema - 0 + Owed(m_count)
    BY <2>1, <2>2, <2>5, <2>6, <1>t
  <2>8. size' \in Nat /\ m_sema' \in Nat /\ m_count' \in Int
    BY <2>1, <2>2, <2>5, <1>t
  <2> QED BY <2>1, <2>3, <2>4, <2>5, <2>7, <2>8, WaiterKeepsPermits
<1>4. CASE Register(w)
  <2>1. PICK pc, c : /\ pc \in {"asleep", "adjust"} /\ Call(w, c) /\ m_count' = m_count - 1
                     /\ c = IF m_count > 0 THEN [wait[w] EXCEPT !.pc = "more", !.permits = 1]
                            ELSE [wait[w] EXCEPT !.pc = pc]
    BY <1>4 DEF Register
  <2>2. wait[w].permits = 0 /\ wait[w].max >= 1 /\ OnTheWay(wait[w]) = 0 /\ UNCHANGED <<size, m_sema, epc>>
    BY <1>4, <1>f DEF Register, CallFits, OnTheWay
  <2>3. CASE m_count > 0
    <3>1. c \in CallType /\ c.pc = "more" /\ c.permits = 1 /\ c.max = wait[w].max
      <4>1. c = [pc |-> "more", max |-> wait[w].max, timeout |-> wait[w].timeout,
             seen |-> wait[w].seen, permits |-> 1]
        BY <2>1, <2>3, <1>t DEF CallType
      <4> QED BY <4>1, <2>1, <2>3, <1>c, <1>t DEF CallPcs
    <3>2. CallFits(c) /\ OnTheWay(c) = 0
      BY <3>1, <2>2 DEF CallFits, OnTheWay
    <3>3. Owed(m_count') = 0 /\ Owed(m_count) = 0
      BY <2>1, <2>3, <1>t DEF Owed
    <3>4. /\ size' - 1 - m_count' - 0 = size - 0 - m_count - 0
          /\ m_sema' - 0 + Owed(m_count') = m_sema - 0 + Owed(m_count)
      BY <2>1, <2>2, <3>3, <1>t
    <3>5. size' \in Nat /\ m_sema' \in Nat /\ m_count' \in Int
      BY <2>1, <2>2, <1>t
    <3> QED BY <2>1, <2>2, <3>1, <3>2, <3>4, <3>5, WaiterKeepsPermits
  <2>4. CASE ~(m_count > 0)
    <3>1. c \in CallType /\ c.pc = pc /\ c.permits = 0 /\ c.max = wait[w].max
      <4>1. c = [pc |-> pc, max |-> wait[w].max, timeout |-> wait[w].timeout,
             seen |-> wait[w].seen, permits |-> 0]
        BY <2>1, <2>2, <2>4, <1>t DEF CallType
      <4> QED BY <4>1, <2>1, <2>2, <2>4, <1>c, <1>t DEF CallPcs
    <3>2. CallFits(c) /\ OnTheWay(c) = 1
      BY <3>1, <2>1, <2>2 DEF CallFits, OnTheWay
    <3>3. Owed(m_count') = Owed(m_count) + 1
      BY <2>1, <2>4, <1>t DEF Owed
    <3>4. /\ size' - 0 - m_count' - 1 = size - 0 - m_count - 0
          /\ m_sema' - 1 + Owed(m_count') = m_sema - 0 + Owed(m_count)
      BY <2>1, <2>2, <3>3, <1>t, <1>o
    <3>5. size' \in Nat /\ m_sema' \in Nat /\ m_count' \in Int
      BY <2>1, <2>2, <1>t
    <3> QED BY <2>1, <2>2, <3>1, <3>2, <3>4, <3>5, WaiterKeepsPermits
  <2> QED BY <2>3, <2>4
<1>5. CASE Woken(w) \/ SignalledMeanwhile(w)
  <2>1. PICK c : Call(w, c) /\ c = [wait[w] EXCEPT !.pc = "more", !.permits = 1]
    BY <1>5 DEF Woken, SignalledMeanwhile
  <2>2. c \in CallType /\ c.pc = "more" /\ c.permits = 1 /\ c.max = wait[w].max
    <3>1. c = [pc |-> "more", max |-> wait[w].max, timeout |-> wait[w].timeout,
             seen |-> wait[w].seen, permits |-> 1]
      BY <2>1, <1>t DEF CallType
    <3> QED BY <3>1, <2>1, <1>c, <1>t DEF CallPcs
  <2>3. /\ wait[w].permits = 0 /\ wait[w].max >= 1 /\ OnTheWay(wait[w]) = 1
        /\ UNCHANGED <<size, m_count, epc>> /\ m_sema > 0 /\ m_sema' = m_sema - 1
    BY <1>5, <1>f DEF Woken, SignalledMeanwhile, CallFits, OnTheWay
  <2>4. CallFits(c) /\ OnTheWay(c) = 0
    BY <2>2, <2>3 DEF CallFits, OnTheWay
  <2>5. m_sema - 1 \in Nat
    BY <2>3, <1>t
  <2>6. /\ size' - 1 - m_count' - 0 = size - 0 - m_count - 1
        /\ m_sema' - 0 + Owed(m_count') = m_sema - 1 + Owed(m_count)
    BY <2>3, <1>t, <1>o
  <2>7. size' \in Nat /\ m_sema' \in Nat /\ m_count' \in Int
    BY <2>3, <2>5, <1>t
  <2> QED BY <2>1, <2>2, <2>3, <2>4, <2>6, <2>7, WaiterKeepsPermits
<1>6. CASE TimesOut(w) \/ Adjust(w) \/ LookAgain(w)
  <2>1. PICK pc, seen, c :
          /\ pc \in {"adjust", "leave"} /\ seen \in Int
          /\ Call(w, c) /\ (c = [wait[w] EXCEPT !.pc = pc] \/ c = [wait[w] EXCEPT !.pc = pc, !.seen = seen])
    BY <1>6, <1>t DEF TimesOut, Adjust, LookAgain
  <2>2. /\ wait[w].permits = 0 /\ wait[w].max >= 1 /\ OnTheWay(wait[w]) = 1
        /\ UNCHANGED <<size, m_count, m_sema, epc>>
    BY <1>6, <1>f DEF TimesOut, Adjust, LookAgain, CallFits, OnTheWay
  <2>3. c \in CallType /\ c.pc = pc /\ c.permits = 0 /\ c.max = wait[w].max
    <3>1. PICK sight \in Int :
            c = [pc |-> pc, max |-> wait[w].max, timeout |-> wait[w].timeout, seen |-> sight, permits |-> 0]
      BY <2>1, <2>2, <1>t DEF CallType
    <3> QED BY <2>1, <3>1, <1>c DEF CallPcs
  <2>4. CallFits(c) /\ OnTheWay(c) = 1
    BY <2>1, <2>2, <2>3 DEF CallFits, OnTheWay
  <2>5. /\ size' - 0 - m_count' - 1 = size - 0 - m_count - 1
        /\ m_sema' - 1 + Owed(m_count') = m_sema - 1 + Owed(m_count)
    BY <2>2, <1>t, <1>o
  <2>6. size' \in Nat /\ m_sema' \in Nat /\ m_count' \in Int
    BY <2>2, <1>t
  <2> QED BY <2>1, <2>2, <2>3, <2>4, <2>5, <2>6, WaiterKeepsPermits
<1>7. CASE Leave(w)
  <2>1. /\ wait[w].permits = 0 /\ OnTheWay(wait[w]) = 1 /\ UNCHANGED <<size, m_sema, epc>>
        /\ m_count < 0 /\ m_count' = m_count + 1 /\ Call(w, NoCall)
    BY <1>7, <1>f DEF Leave, CallFits, OnTheWay
  <2>2. Owed(m_count') = Owed(m_count) - 1
    BY <2>1, <1>t DEF Owed
  <2>4. /\ size' - 0 - m_count' - 0 = size - 0 - m_count - 1
        /\ m_sema' - 0 + Owed(m_count') = m_sema - 1 + Owed(m_count)
    BY <2>1, <2>2, <1>t, <1>o
  <2>5. size' \in Nat /\ m_sema' \in Nat /\ m_count' \in Int
    BY <2>1, <1>t
  <2> QED BY <2>1, <2>4, <2>5, NoCallIs, WaiterKeepsPermits
<1>8. CASE TakeMore(w)
  <2>1. PICK n, c : /\ n = TryWaitMany(wait[w].max - 1) /\ m_count' = m_count - n
                    /\ Call(w, c) /\ c = [wait[w] EXCEPT !.pc = "take", !.permits = n + 1]
    BY <1>8 DEF TakeMore, Granted
  <2>2. wait[w].permits = 1 /\ wait[w].max >= 1 /\ OnTheWay(wait[w]) = 0 /\ UNCHANGED <<size, m_sema, epc>>
    BY <1>8, <1>f DEF TakeMore, CallFits, OnTheWay
  <2>3. n \in Nat /\ (n # 0 => m_count - n >= 0)
    <3>1. wait[w].max - 1 \in Nat
      BY <2>2, <1>t
    <3> QED BY <2>1, <3>1, <1>t, MoreIs
  <2>4. c \in CallType /\ c.pc = "take" /\ c.permits = n + 1
    <3>1. c = [pc |-> "take", max |-> wait[w].max, timeout |-> wait[w].timeout,
             seen |-> wait[w].seen, permits |-> n + 1]
      BY <2>1, <2>3, <1>t DEF CallType
    <3>2. n + 1 \in Nat /\ wait[w].seen \in Int
      BY <2>3, <1>t
    <3> QED BY <3>1, <3>2, <1>c DEF CallPcs
  <2>5. CallFits(c) /\ OnTheWay(c) = 0
    BY <2>4 DEF CallFits, OnTheWay
  <2>6. Owed(m_count') = Owed(m_count)
    BY <2>1, <2>3, <1>t DEF Owed
  <2>7. /\ size' - (n + 1) - m_count' - 0 = size - 1 - m_count - 0
        /\ m_sema' - 0 + Owed(m_count') = m_sema - 0 + Owed(m_count)
    BY <2>1, <2>2, <2>3, <2>6, <1>t, <1>o
  <2>8. size' \in Nat /\ m_sema' \in Nat /\ m_count' \in Int
    BY <2>1, <2>2, <2>3, <1>t
  <2> QED BY <2>1, <2>2, <2>4, <2>5, <2>7, <2>8, WaiterKeepsPermits
<1>9. CASE TakeItems(w)
  <2>1. PICK n, c :
          /\ n \in 1 .. Least(size, wait[w].permits)
          /\ size' = size - n /\ Call(w, c)
          /\ c = IF n = wait[w].permits THEN NoCall ELSE [wait[w] EXCEPT !.permits = @ - n]
    BY <1>9 DEF TakeItems
  <2>2. n \in Nat /\ n <= size /\ n <= wait[w].permits
    BY <2>1, <1>t DEF Least
  <2>3. wait[w].pc = "take" /\ OnTheWay(wait[w]) = 0 /\ UNCHANGED <<m_count, m_sema, epc>>
    BY <1>9 DEF TakeItems, OnTheWay
  <2>4. c \in CallType /\ CallFits(c) /\ OnTheWay(c) = 0 /\ c.permits = wait[w].permits - n
    <3>1. CASE n = wait[w].permits
      BY <3>1, <2>1, <1>t, NoCallIs
    <3>2. CASE n # wait[w].permits
      <4>1. wait[w].permits - n \in Nat
        BY <2>2, <1>t
      <4>2. c = [wait[w] EXCEPT !.permits = wait[w].permits - n]
        BY <2>1, <3>2
      <4>3. c \in CallType /\ c.pc = "take" /\ c.permits = wait[w].permits - n
        <5>1. c = [pc |-> "take", max |-> wait[w].max, timeout |-> wait[w].timeout,
             seen |-> wait[w].seen, permits |-> wait[w].permits - n]
          BY <4>1, <4>2, <2>3, <1>t DEF CallType
        <5> QED BY <5>1, <4>1, <4>2, <2>3, <1>c, <1>t DEF CallPcs
      <4> QED BY <4>3 DEF CallFits, OnTheWay
    <3> QED BY <3>1, <3>2
  <2>5. size' \in Nat
    BY <2>1, <2>2, <2>3, <1>t
  <2>6. /\ size' - (wait[w].permits - n) - m_count' - 0 = size - wait[w].permits - m_count - 0
        /\ m_sema' - 0 + Owed(m_count') = m_sema - 0 + Owed(m_count)
    BY <2>1, <2>2, <2>3, <1>t, <1>o
  <2>7. m_sema' \in Nat /\ m_count' \in Int
    BY <2>3, <1>t
  <2> QED BY <2>1, <2>3, <2>4, <2>5, <2>6, <2>7, WaiterKeepsPermits
<1> QED BY <1>1, <1>2, <1>3, <1>4, <1>5, <1>6, <1>7, <1>8, <1>9 DEF WaitSteps

(* LightweightSemaphore: for any number of enqueuers and consumers, with     *)
(* time limits or none, every element has one permit and every thread that   *)
(* waits is counted or about to be woken.                                    *)
THEOREM PermitsAlwaysBacked == BlockingSpec => []PermitsBacked
<1>1. BlockingInit => BlockingInv
  BY BlockingInitFits
<1>2. BlockingInv /\ [BlockingNext]_blockingVars => BlockingInv'
  <2> SUFFICES ASSUME BlockingInv, [BlockingNext]_blockingVars PROVE BlockingInv'
    OBVIOUS
  <2>1. CASE UNCHANGED blockingVars
    BY <2>1 DEF blockingVars, BlockingInv, BlockingTypes, PermitsBacked, Permits, InCall, Registered, Total
  <2>2. CASE BlockingNext
    BY <2>2, EnqueuersKeepPermits, WaitersKeepPermits DEF BlockingNext
  <2> QED BY <2>1, <2>2
<1>3. BlockingInv => PermitsBacked
  BY DEF BlockingInv
<1> QED BY <1>1, <1>2, <1>3, PTL DEF BlockingSpec
=============================================================================
