------------------------------- MODULE Erased -------------------------------
(***************************************************************************)
(* The value that hides a sink's or a filter's type: type_erased<Concept>. *)
(*                                                                         *)
(* A small model lies in the handle's own storage, a large one on the      *)
(* heap.  Moving a small model makes another in the new place and leaves a *)
(* husk, which some paths destroy and others build over.                   *)
(***************************************************************************)
EXTENDS Integers, FiniteSets

CONSTANTS Handles, SmallValues, LargeValues, HeapCells,
          Nothing,   \* a null ptr_, an empty cell
          Own,       \* ptr_ into the handle's own storage
          Husk,      \* a moved-from model
          Unborn     \* a handle that does not exist

(* No model is a pointer, or a mark in the place of one.                     *)
ASSUME ErasedAssumption ==
  /\ Nothing \notin HeapCells /\ Own \notin HeapCells \cup {Nothing}
  /\ Unborn \notin HeapCells \cup {Nothing, Own}
  /\ Husk # Nothing /\ {Nothing, Husk} \cap (SmallValues \cup LargeValues) = {}
  /\ SmallValues \cap LargeValues = {}

VARIABLES ptr,       \* ptr_ of each handle
          is_small,  \* is_small_
          storage,   \* storage_: a value, Husk or Nothing
          heap,      \* what each heap cell holds
          value,     \* the value a user of the handle should find, or Nothing
          wronged    \* something not alive was destroyed

erasedVars == <<ptr, is_small, storage, heap, value, wronged>>

Values == SmallValues \cup LargeValues
Exists(h) == ptr[h] # Unborn
Content(h) ==
  IF ptr[h] \in {Nothing, Unborn} THEN Nothing ELSE IF ptr[h] = Own THEN storage[h] ELSE heap[ptr[h]]
FreshCell == CHOOSE c \in HeapCells : heap[c] = Nothing
CanAllocate == \E c \in HeapCells : heap[c] = Nothing

(* The memory, as one record, so that operations can be composed.          *)
Memory == [ptr |-> ptr, small |-> is_small, storage |-> storage, heap |-> heap, wronged |-> wronged]
MemoryBecomes(m) ==
  /\ ptr' = m.ptr /\ is_small' = m.small /\ storage' = m.storage /\ heap' = m.heap /\ wronged' = m.wronged

(* destroy(): ~ConceptT() in place, or delete.                             *)
Destroyed(m, h) ==
  IF m.ptr[h] = Nothing THEN m
  ELSE IF m.small[h]
    THEN [m EXCEPT !.storage[h] = Nothing, !.ptr[h] = Nothing, !.wronged = @ \/ m.storage[h] = Nothing]
    ELSE LET c == m.ptr[h]
         IN [m EXCEPT !.heap = [x \in DOMAIN @ |-> IF x = c THEN Nothing ELSE @[x]], !.ptr[h] = Nothing,
                      !.wronged = @ \/ c = Own \/ \A x \in HeapCells : x = c => m.heap[x] = Nothing]

Built(m, h, v) ==
  IF v \in SmallValues THEN [m EXCEPT !.storage[h] = v, !.ptr[h] = Own, !.small[h] = TRUE]
  ELSE [m EXCEPT !.heap[FreshCell] = v, !.ptr[h] = FreshCell, !.small[h] = FALSE]

(* move_in_place: the source becomes a husk.                               *)
MovedIn(m, to, from) == [m EXCEPT !.storage = [@ EXCEPT ![to] = m.storage[from], ![from] = IF to = from THEN @ ELSE Husk]]

CopyOf(m, h, g) ==
  IF m.ptr[g] = Nothing THEN [m EXCEPT !.ptr[h] = Nothing, !.small[h] = m.small[g]]
  ELSE IF m.small[g] THEN [m EXCEPT !.storage[h] = m.storage[g], !.ptr[h] = Own, !.small[h] = TRUE]
  ELSE [m EXCEPT !.heap[FreshCell] = m.heap[m.ptr[g]], !.ptr[h] = FreshCell, !.small[h] = FALSE]

(* The move constructor, and the move assignment after its destroy().      *)
MoveOf(m, h, g) ==
  LET marked == [m EXCEPT !.small[h] = m.small[g]]
  IN IF m.ptr[g] = Nothing THEN [marked EXCEPT !.ptr[h] = Nothing]
     ELSE IF m.small[g] THEN Destroyed([MovedIn(marked, h, g) EXCEPT !.ptr[h] = Own], g)
     ELSE [marked EXCEPT !.ptr = [@ EXCEPT ![h] = m.ptr[g], ![g] = Nothing]]

(* swap with an empty handle: the husk of a small model is not destroyed.  *)
Handover(m, h, g) ==
  IF m.ptr[g] = Nothing THEN m
  ELSE LET moved == IF m.small[g] THEN MovedIn(m, h, g) ELSE m
       IN [moved EXCEPT !.ptr = [@ EXCEPT ![h] = m.ptr[g], ![g] = Nothing],
                        !.small = [@ EXCEPT ![h] = m.small[g], ![g] = FALSE]]

(* Both small: by way of a buffer on the stack.  Mixed: the small model    *)
(* moves into the large one's storage, and the heap pointer comes back.    *)
SwapSmall(m, h, g) == [m EXCEPT !.storage = [@ EXCEPT ![h] = IF h = g THEN @ ELSE m.storage[g], ![g] = m.storage[h]]]
SwapMixedHalf(m, s, l) ==  \* (mutant) is_small_ stays behind
  [MovedIn(m, l, s) EXCEPT !.ptr = [@ EXCEPT ![l] = Own, ![s] = m.ptr[l]]]
SwapMixed(m, s, l) ==
  [MovedIn(m, l, s) EXCEPT !.ptr = [@ EXCEPT ![l] = Own, ![s] = m.ptr[l]],
                           !.small = [@ EXCEPT ![l] = TRUE, ![s] = FALSE]]
Swapped(m, h, g) ==
  IF m.ptr[h] = Nothing THEN Handover(m, h, g)
  ELSE IF m.ptr[g] = Nothing THEN Handover(m, g, h)
  ELSE IF m.small[h] /\ m.small[g] THEN SwapSmall(m, h, g)
  ELSE IF ~m.small[h] /\ ~m.small[g] THEN [m EXCEPT !.ptr = [@ EXCEPT ![h] = m.ptr[g], ![g] = m.ptr[h]]]
  ELSE IF m.small[h] THEN SwapMixed(m, h, g) ELSE SwapMixed(m, g, h)

-----------------------------------------------------------------------------
ErasedInit ==
  /\ ptr = [h \in Handles |-> Unborn] /\ is_small = [h \in Handles |-> FALSE]
  /\ storage = [h \in Handles |-> Nothing] /\ heap = [c \in HeapCells |-> Nothing]
  /\ value = [h \in Handles |-> Nothing] /\ wronged = FALSE

Construct(h, v) ==
  /\ ~Exists(h) /\ (v \in LargeValues => CanAllocate)
  /\ MemoryBecomes(Built(Memory, h, v))
  /\ value' = [value EXCEPT ![h] = v]

DefaultConstruct(h) ==
  /\ ~Exists(h)
  /\ MemoryBecomes([Memory EXCEPT !.ptr[h] = Nothing, !.small[h] = FALSE])
  /\ UNCHANGED value

CopyConstruct(h, g) ==
  /\ ~Exists(h) /\ Exists(g) /\ CanAllocate
  /\ MemoryBecomes(CopyOf(Memory, h, g))
  /\ value' = [value EXCEPT ![h] = value[g]]

MoveConstruct(h, g) ==
  /\ ~Exists(h) /\ Exists(g)
  /\ MemoryBecomes(MoveOf(Memory, h, g))
  /\ value' = [value EXCEPT ![h] = value[g], ![g] = Nothing]

(* A copy in a temporary handle t, a swap with it, and its destruction.    *)
CopyAssign(h, g, t) ==
  /\ Exists(h) /\ Exists(g) /\ ~Exists(t) /\ CanAllocate
  /\ LET m == Destroyed(Swapped(CopyOf(Memory, t, g), h, t), t)
     IN MemoryBecomes([m EXCEPT !.ptr[t] = Unborn, !.storage[t] = Nothing])
  /\ value' = [value EXCEPT ![h] = value[g]]

MoveAssign(h, g) ==
  /\ Exists(h) /\ Exists(g)
  /\ IF h = g THEN UNCHANGED <<ptr, is_small, storage, heap, wronged>>
     ELSE MemoryBecomes(MoveOf(Destroyed(Memory, h), h, g))
  /\ value' = IF h = g THEN value ELSE [value EXCEPT ![h] = value[g], ![g] = Nothing]

EmplaceModel(h, v) ==
  /\ Exists(h) /\ (v \in LargeValues => CanAllocate)
  /\ MemoryBecomes(Built(Destroyed(Memory, h), h, v))
  /\ value' = [value EXCEPT ![h] = v]

Swap(h, g) ==
  /\ Exists(h) /\ Exists(g)
  /\ MemoryBecomes(Swapped(Memory, h, g))
  /\ value' = [value EXCEPT ![h] = value[g], ![g] = value[h]]

Destruct(h) ==
  /\ Exists(h)
  /\ LET m == Destroyed(Memory, h) IN MemoryBecomes([m EXCEPT !.ptr[h] = Unborn, !.storage[h] = Nothing])
  /\ value' = [value EXCEPT ![h] = Nothing]

ErasedNext ==
  \E h \in Handles :
    \/ DefaultConstruct(h) \/ Destruct(h)
    \/ \E v \in Values : Construct(h, v) \/ EmplaceModel(h, v)
    \/ \E g \in Handles :
         \/ CopyConstruct(h, g) \/ MoveConstruct(h, g) \/ MoveAssign(h, g) \/ Swap(h, g)
         \/ \E t \in Handles : CopyAssign(h, g, t)

ErasedSpec == ErasedInit /\ [][ErasedNext]_erasedVars

-----------------------------------------------------------------------------
(* A sink or filter is found where its handle says, through any sequence of  *)
(* copies, moves, swaps and assignments of small and large ones: nothing     *)
(* dead is destroyed, every model on the heap has one handle, and none is    *)
(* leaked (type_erased's special members, destroy, swap).                    *)
HandlesKeepValues ==
  /\ \A h \in Handles : Content(h) = value[h]
  /\ ~wronged
  /\ \A c \in HeapCells : heap[c] # Nothing <=> Cardinality({h \in Handles : ptr[h] = c}) = 1
  /\ \A h \in Handles : storage[h] \in SmallValues => ptr[h] = Own
=============================================================================
