----------------------------- MODULE QueueProofs -----------------------------
(* Proofs about the queue: how it shares out its blocks and its sub-queues,  *)
(* and that a dequeue passes none over.                                      *)
EXTENDS QueueProperties, FiniteSetTheorems, SequenceTheorems, WellFoundedInduction, TLAPS

(***************************************************************************)
(* The free list: where a node is.  A thread has it: in hand, on its way   *)
(* into the list before the flag is taken back or after, or out of it.     *)
(***************************************************************************)
Adding(t, n) == loc[t].node = n /\ loc[t].pc \in {"load", "link", "refs"}
Pushing(t, n) == loc[t].node = n /\ loc[t].pc \in {"push", "unref"}
Taking(t, n) == loc[t].head = n /\ loc[t].pc = "own"
Has(t, n) == n \in hold[t] \/ Adding(t, n) \/ Pushing(t, n) \/ Taking(t, n)
Looking(n) == {t \in FreeThreads : \/ loc[t].head = n /\ loc[t].pc \in {"next", "pop", "own"}
                                   \/ loc[t].node = n /\ loc[t].pc = "drop"}
InList(n) == n \in Listed \/ \E t \in FreeThreads : Pushing(t, n) \/ Taking(t, n)

(* The counter of a node counts those who look at it, and the list; the flag *)
(* says that it belongs to nobody, until the last who looks adds it.         *)
NodeFits(n) ==
    /\ \A t, u \in FreeThreads : Has(t, n) /\ Has(u, n) => t = u
    /\ \A t \in FreeThreads : n \in hold[t] => ~Adding(t, n) /\ ~Pushing(t, n) /\ ~Taking(t, n)
    /\ n \in unmade \/ n \in Listed => \A t \in FreeThreads : ~Has(t, n)
    /\ ~(n \in unmade /\ n \in Listed)
    /\ ~freeListRefs[n].should <=> (n \in unmade \/ InList(n) \/ \E t \in FreeThreads : n \in hold[t])
    /\ freeListRefs[n].count = Cardinality(Looking(n)) + (IF InList(n) THEN 1 ELSE 0)
    /\ (\E t \in FreeThreads : Adding(t, n)) => freeListRefs[n].count = 0
    /\ freeListRefs[n].should /\ freeListRefs[n].count = 0 => \E t \in FreeThreads : Adding(t, n)

FreePcs == {"idle", "load", "link", "refs", "push", "unref", "look", "ref", "next", "pop", "own", "drop"}
NodeOrNull == Nodes \cup {Null}
RefType == [count : Nat, should : BOOLEAN]
LocType == [pc : FreePcs, node : NodeOrNull, head : NodeOrNull, seen : RefType, next : NodeOrNull,
            getting : BOOLEAN]

(* What a thread's locals say; a node's next is only written while nobody    *)
(* looks at the node.                                                        *)
ThreadFits(t) ==
    /\ loc[t].pc \in {"load", "link", "refs", "push", "unref", "drop"} => loc[t].node \in Nodes
    /\ loc[t].pc \in {"ref", "next", "pop", "own"} => loc[t].head \in Nodes
    /\ loc[t].pc = "pop" => freeListNext[loc[t].head] = loc[t].next
    /\ loc[t].pc \in {"refs", "push"} => freeListNext[loc[t].node] = loc[t].next

FreeListTypes ==
    /\ freeListHead \in NodeOrNull
    /\ freeListRefs \in [Nodes -> RefType]
    /\ freeListNext \in [Nodes -> NodeOrNull]
    /\ loc \in [FreeThreads -> LocType]
    /\ hold \in [FreeThreads -> SUBSET Nodes]
    /\ unmade \subseteq Nodes

(* The list ends, and no node is behind itself.                              *)
ListEnds ==
    /\ \A n \in Listed : n \notin From(freeListNext[n])
    /\ Listed # {} => \E n \in Listed : freeListNext[n] = Null

FreeListInv ==
    /\ FreeListTypes
    /\ ListEnds
    /\ \A t \in FreeThreads : ThreadFits(t)
    /\ \A n \in Nodes : NodeFits(n)

-----------------------------------------------------------------------------
(***************************************************************************)
(* The list that starts at h where the next of each node is nx.            *)
(***************************************************************************)
ClosedIn(nx, S) == \A n \in S : nx[n] \in S \cup {Null}
FromIn(nx, h) == {n \in Nodes : \A S \in SUBSET Nodes : ClosedIn(nx, S) /\ h \in S \cup {Null} => n \in S}
EndsIn(nx, h) ==
    /\ \A n \in FromIn(nx, h) : n \notin FromIn(nx, nx[n])
    /\ FromIn(nx, h) # {} => \E n \in FromIn(nx, h) : nx[n] = Null

LEMMA FromIsIn ==
    /\ Listed = FromIn(freeListNext, freeListHead)
    /\ ListEnds <=> EndsIn(freeListNext, freeListHead)
BY DEF Listed, From, Closed, FromIn, ClosedIn, ListEnds, EndsIn

LEMMA FromIsInNext ==
    /\ Listed' = FromIn(freeListNext', freeListHead')
    /\ ListEnds' <=> EndsIn(freeListNext', freeListHead')
BY DEF Listed, From, Closed, FromIn, ClosedIn, ListEnds, EndsIn

LEMMA FromNull ==
    ASSUME NEW nx PROVE FromIn(nx, Null) = {}
<1>1. {} \in SUBSET Nodes /\ ClosedIn(nx, {}) /\ Null \in {} \cup {Null}
  BY DEF ClosedIn
<1> QED BY <1>1 DEF FromIn

LEMMA FromLeast ==
    ASSUME NEW nx, NEW h, NEW S \in SUBSET Nodes, ClosedIn(nx, S), h \in S \cup {Null}
    PROVE  FromIn(nx, h) \subseteq S
BY DEF FromIn

LEMMA FromClosed ==
    ASSUME NEW nx \in [Nodes -> NodeOrNull], NEW h \in NodeOrNull
    PROVE  /\ FromIn(nx, h) \in SUBSET Nodes /\ ClosedIn(nx, FromIn(nx, h))
           /\ h \in FromIn(nx, h) \cup {Null}
<1>1. FromIn(nx, h) \in SUBSET Nodes /\ h \in FromIn(nx, h) \cup {Null}
  BY DEF FromIn, NodeOrNull
<1>2. ASSUME NEW n \in FromIn(nx, h) PROVE nx[n] \in FromIn(nx, h) \cup {Null}
  <2>1. n \in Nodes /\ nx[n] \in NodeOrNull
    BY <1>1
  <2>2. ASSUME NEW S \in SUBSET Nodes, ClosedIn(nx, S), h \in S \cup {Null} PROVE nx[n] \in S \cup {Null}
    BY <2>2, <1>2 DEF FromIn, ClosedIn
  <2> QED BY <2>1, <2>2 DEF FromIn, NodeOrNull
<1> QED BY <1>1, <1>2 DEF ClosedIn

LEMMA FromUnfolds ==
    ASSUME NEW nx \in [Nodes -> NodeOrNull], NEW h \in Nodes
    PROVE  FromIn(nx, h) = {h} \cup FromIn(nx, nx[h])
<1>1. nx[h] \in NodeOrNull /\ h \in NodeOrNull /\ h # Null
  BY FreeListAssumption DEF NodeOrNull
<1>2. FromIn(nx, h) \subseteq {h} \cup FromIn(nx, nx[h])
  <2>1. {h} \cup FromIn(nx, nx[h]) \in SUBSET Nodes /\ ClosedIn(nx, {h} \cup FromIn(nx, nx[h]))
    BY <1>1, FromClosed DEF ClosedIn
  <2> QED BY <2>1, FromLeast
<1>3. h \in FromIn(nx, h) /\ ClosedIn(nx, FromIn(nx, h)) /\ FromIn(nx, h) \in SUBSET Nodes
  BY <1>1, FromClosed
<1>4. nx[h] \in FromIn(nx, h) \cup {Null}
  BY <1>3 DEF ClosedIn
<1>5. FromIn(nx, nx[h]) \subseteq FromIn(nx, h)
  BY <1>3, <1>4, FromLeast
<1> QED BY <1>2, <1>3, <1>5

(* Only the nodes on the list matter.                                       *)
LEMMA FromSame ==
    ASSUME NEW nx \in [Nodes -> NodeOrNull], NEW ny \in [Nodes -> NodeOrNull], NEW h \in NodeOrNull,
           NEW C \in SUBSET Nodes, ClosedIn(nx, C), h \in C \cup {Null}, \A n \in C : ny[n] = nx[n]
    PROVE  FromIn(ny, h) = FromIn(nx, h)
<1>1. ClosedIn(ny, C)
  BY DEF ClosedIn
<1>2. FromIn(nx, h) \subseteq C /\ FromIn(ny, h) \subseteq C
  BY <1>1, FromLeast
<1>3. FromIn(nx, h) \in SUBSET Nodes /\ ClosedIn(nx, FromIn(nx, h)) /\ h \in FromIn(nx, h) \cup {Null}
  BY FromClosed
<1>4. FromIn(ny, h) \in SUBSET Nodes /\ ClosedIn(ny, FromIn(ny, h)) /\ h \in FromIn(ny, h) \cup {Null}
  BY FromClosed
<1>5. ClosedIn(ny, FromIn(nx, h)) /\ ClosedIn(nx, FromIn(ny, h))
  BY <1>2, <1>3, <1>4 DEF ClosedIn
<1>6. FromIn(ny, h) \subseteq FromIn(nx, h)
  BY <1>3, <1>5, FromLeast
<1>7. FromIn(nx, h) \subseteq FromIn(ny, h)
  BY <1>4, <1>5, FromLeast
<1> QED BY <1>6, <1>7

LEMMA ListSame ==
    ASSUME NEW nx \in [Nodes -> NodeOrNull], NEW ny \in [Nodes -> NodeOrNull], NEW h \in NodeOrNull,
           EndsIn(nx, h), \A n \in FromIn(nx, h) : ny[n] = nx[n]
    PROVE  FromIn(ny, h) = FromIn(nx, h) /\ EndsIn(ny, h)
<1>1. FromIn(nx, h) \in SUBSET Nodes /\ ClosedIn(nx, FromIn(nx, h)) /\ h \in FromIn(nx, h) \cup {Null}
  BY FromClosed
<1>2. FromIn(ny, h) = FromIn(nx, h)
  BY <1>1, FromSame
<1>3. ASSUME NEW n \in FromIn(nx, h) PROVE n \notin FromIn(ny, ny[n])
  <2>1. ny[n] = nx[n] /\ nx[n] \in FromIn(nx, h) \cup {Null} /\ nx[n] \in NodeOrNull
    BY <1>1 DEF ClosedIn
  <2>2. FromIn(ny, nx[n]) = FromIn(nx, nx[n])
    BY <2>1, <1>1, FromSame
  <2> QED BY <2>1, <2>2 DEF EndsIn
<1> QED BY <1>2, <1>3 DEF EndsIn

LEMMA ListPushed ==
    ASSUME NEW nx \in [Nodes -> NodeOrNull], NEW h \in NodeOrNull, NEW n \in Nodes,
           EndsIn(nx, h), n \notin FromIn(nx, h), nx[n] = h
    PROVE  FromIn(nx, n) = {n} \cup FromIn(nx, h) /\ EndsIn(nx, n)
<1>1. FromIn(nx, n) = {n} \cup FromIn(nx, h)
  BY FromUnfolds
<1>2. h # Null => h \in FromIn(nx, h)
  BY FromClosed
<1> QED BY <1>1, <1>2 DEF EndsIn

LEMMA ListPopped ==
    ASSUME NEW nx \in [Nodes -> NodeOrNull], NEW h \in Nodes, EndsIn(nx, h)
    PROVE  /\ FromIn(nx, nx[h]) = FromIn(nx, h) \ {h} /\ h \in FromIn(nx, h)
           /\ EndsIn(nx, nx[h])
<1>1. FromIn(nx, h) = {h} \cup FromIn(nx, nx[h])
  BY FromUnfolds
<1>2. h \notin FromIn(nx, nx[h])
  BY <1>1 DEF EndsIn
<1>3. nx[h] = Null => FromIn(nx, nx[h]) = {}
  BY FromNull
<1> QED BY <1>1, <1>2, <1>3 DEF EndsIn


-----------------------------------------------------------------------------
(***************************************************************************)
(* What does not change.                                                   *)
(***************************************************************************)
AddPcs == {"load", "link", "refs"}
PushPcs == {"push", "unref"}
LookPcs == {"next", "pop", "own"}

(* Thread t, when its locals become l, is to node n what it was.            *)
SameTo(t, l, n) ==
    /\ (l.node = n /\ l.pc \in AddPcs) <=> (loc[t].node = n /\ loc[t].pc \in AddPcs)
    /\ (l.node = n /\ l.pc \in PushPcs) <=> (loc[t].node = n /\ loc[t].pc \in PushPcs)
    /\ (l.head = n /\ l.pc = "own") <=> (loc[t].head = n /\ loc[t].pc = "own")
    /\ ((l.head = n /\ l.pc \in LookPcs) \/ (l.node = n /\ l.pc = "drop"))
         <=> ((loc[t].head = n /\ loc[t].pc \in LookPcs) \/ (loc[t].node = n /\ loc[t].pc = "drop"))

AllSame(n) ==
    /\ \A u \in FreeThreads : /\ Adding(u, n)' <=> Adding(u, n)
                              /\ Pushing(u, n)' <=> Pushing(u, n)
                              /\ Taking(u, n)' <=> Taking(u, n)
    /\ Looking(n)' = Looking(n)

LEMMA LocalIs ==
    ASSUME FreeListTypes, NEW t \in FreeThreads, NEW l, Local(t, l)
    PROVE  loc'[t] = l /\ \A u \in FreeThreads : u # t => loc'[u] = loc[u]
BY DEF FreeListTypes, Local

LEMMA RolesStay ==
    ASSUME FreeListTypes, NEW t \in FreeThreads, NEW l, Local(t, l), NEW n, SameTo(t, l, n)
    PROVE  AllSame(n)
<1>1. loc'[t] = l /\ \A u \in FreeThreads : u # t => loc'[u] = loc[u]
  BY LocalIs
<1>2. ASSUME NEW u \in FreeThreads
      PROVE  /\ Adding(u, n)' <=> Adding(u, n)
             /\ Pushing(u, n)' <=> Pushing(u, n)
             /\ Taking(u, n)' <=> Taking(u, n)
             /\ u \in Looking(n)' <=> u \in Looking(n)
  BY <1>1 DEF SameTo, Adding, Pushing, Taking, Looking, AddPcs, PushPcs, LookPcs
<1>3. Looking(n)' = Looking(n)
  BY <1>2 DEF Looking
<1> QED BY <1>2, <1>3 DEF AllSame

LEMMA NodeStays ==
    ASSUME NEW n \in Nodes, NodeFits(n), AllSame(n), freeListRefs'[n] = freeListRefs[n],
           n \in unmade' <=> n \in unmade, n \in Listed' <=> n \in Listed,
           \A u \in FreeThreads : n \in hold'[u] <=> n \in hold[u]
    PROVE  NodeFits(n)'
<1>1. \A u \in FreeThreads : Has(u, n)' <=> Has(u, n)
  BY DEF AllSame, Has
<1>2. InList(n)' <=> InList(n)
  BY DEF AllSame, InList
<1> QED BY <1>1, <1>2 DEF AllSame, NodeFits

LEMMA ThreadsStay ==
    ASSUME FreeListTypes, NEW t \in FreeThreads, NEW l, Local(t, l), UNCHANGED freeListNext,
           \A u \in FreeThreads : ThreadFits(u),
           l.pc \in {"load", "link", "refs", "push", "unref", "drop"} => l.node \in Nodes,
           l.pc \in {"ref", "next", "pop", "own"} => l.head \in Nodes,
           l.pc = "pop" => freeListNext[l.head] = l.next,
           l.pc \in {"refs", "push"} => freeListNext[l.node] = l.next
    PROVE  \A u \in FreeThreads : ThreadFits(u)'
<1>1. loc'[t] = l /\ \A u \in FreeThreads : u # t => loc'[u] = loc[u]
  BY LocalIs
<1>2. ThreadFits(t)'
  BY <1>1 DEF ThreadFits
<1>3. ASSUME NEW u \in FreeThreads, u # t PROVE ThreadFits(u)'
  BY <1>1, <1>3 DEF ThreadFits
<1> QED BY <1>2, <1>3

LEMMA TypesStay ==
    ASSUME FreeListTypes, NEW t \in FreeThreads, NEW l \in LocType, Local(t, l),
           freeListHead' \in NodeOrNull, freeListRefs' \in [Nodes -> RefType],
           freeListNext' \in [Nodes -> NodeOrNull], hold' \in [FreeThreads -> SUBSET Nodes],
           unmade' \subseteq Nodes
    PROVE  FreeListTypes'
BY DEF FreeListTypes, Local

LEMMA ListStays ==
    ASSUME FreeListTypes, ListEnds, UNCHANGED <<freeListHead, freeListNext>>
    PROVE  ListEnds' /\ Listed' = Listed
BY FromIsIn, FromIsInNext

LEMMA LooksFinite ==
    ASSUME NEW n
    PROVE  IsFiniteSet(Looking(n)) /\ Cardinality(Looking(n)) \in Nat
<1>1. Looking(n) \subseteq FreeThreads
  BY DEF Looking
<1> QED BY <1>1, FreeListAssumption, FS_Subset, FS_CardinalityType

(* A step of locals only, after which the thread is to every node what it   *)
(* was.                                                                     *)
LEMMA QuietFits ==
    ASSUME FreeListInv, NEW t \in FreeThreads, NEW l \in LocType, Local(t, l),
           UNCHANGED <<freeListHead, freeListRefs, freeListNext, hold, unmade>>,
           \A n \in Nodes : SameTo(t, l, n),
           l.pc \in {"load", "link", "refs", "push", "unref", "drop"} => l.node \in Nodes,
           l.pc \in {"ref", "next", "pop", "own"} => l.head \in Nodes,
           l.pc = "pop" => freeListNext[l.head] = l.next,
           l.pc \in {"refs", "push"} => freeListNext[l.node] = l.next
    PROVE  FreeListInv'
<1>t. FreeListTypes /\ ListEnds
  BY DEF FreeListInv
<1>1. FreeListTypes'
  BY <1>t, TypesStay DEF FreeListTypes
<1>2. ListEnds' /\ Listed' = Listed
  BY <1>t, ListStays
<1>3. \A u \in FreeThreads : ThreadFits(u)'
  BY <1>t, ThreadsStay DEF FreeListInv
<1>4. ASSUME NEW n \in Nodes PROVE NodeFits(n)'
  <2>1. AllSame(n)
    BY <1>t, RolesStay
  <2>2. freeListRefs'[n] = freeListRefs[n] /\ unmade' = unmade /\ hold' = hold /\ NodeFits(n)
    BY DEF FreeListInv
  <2> QED BY <2>1, <2>2, <1>2, NodeStays
<1> QED BY <1>1, <1>2, <1>3, <1>4 DEF FreeListInv

LEMMA QuietSteps ==
    ASSUME FreeListInv, NEW t \in FreeThreads,
           \/ LoadHead(t) \/ TryGet(t) \/ LookAtRefs(t) \/ StartAgain(t) \/ ReadNext(t)
    PROVE  FreeListInv'
<1>t. /\ FreeListTypes /\ loc[t] \in LocType /\ ThreadFits(t) /\ freeListHead \in NodeOrNull
      /\ freeListNext \in [Nodes -> NodeOrNull] /\ freeListRefs \in [Nodes -> RefType]
  BY DEF FreeListInv, FreeListTypes
<1>1. CASE LoadHead(t)
  <2>1. PICK l : Local(t, l) /\ l = [loc[t] EXCEPT !.pc = "link", !.next = freeListHead]
    BY <1>1 DEF LoadHead
  <2>2. l \in LocType /\ l.pc = "link" /\ l.node = loc[t].node /\ l.head = loc[t].head
    BY <2>1, <1>t DEF LocType, FreePcs
  <2>3. loc[t].pc = "load" /\ UNCHANGED <<freeListHead, freeListRefs, freeListNext, hold, unmade>>
    BY <1>1 DEF LoadHead, In
  <2>4. \A n \in Nodes : SameTo(t, l, n)
    BY <2>2, <2>3 DEF SameTo, AddPcs, PushPcs, LookPcs
  <2>5. l.node \in Nodes
    BY <2>2, <2>3, <1>t DEF ThreadFits
  <2> QED BY <2>1, <2>2, <2>3, <2>4, <2>5, QuietFits
<1>2. CASE TryGet(t)
  <2>1. PICK l : Local(t, l) /\ l = [Idle EXCEPT !.pc = "look", !.head = freeListHead, !.getting = TRUE]
    BY <1>2 DEF TryGet
  <2>2. l = [pc |-> "look", node |-> Null, head |-> freeListHead, seen |-> Ref(0, FALSE), next |-> Null, getting |-> TRUE]
    BY <2>1 DEF Idle
  <2>3. l \in LocType /\ l.pc = "look"
    BY <2>2, <1>t DEF LocType, FreePcs, RefType, Ref, NodeOrNull
  <2>4. loc[t].pc = "idle" /\ UNCHANGED <<freeListHead, freeListRefs, freeListNext, hold, unmade>>
    BY <1>2 DEF TryGet, In
  <2>5. \A n \in Nodes : SameTo(t, l, n)
    BY <2>3, <2>4 DEF SameTo, AddPcs, PushPcs, LookPcs
  <2> QED BY <2>1, <2>3, <2>4, <2>5, QuietFits
<1>3. CASE LookAtRefs(t) /\ loc[t].head = Null
  <2>1. Local(t, Idle) /\ loc[t].pc = "look" /\ UNCHANGED <<freeListHead, freeListRefs, freeListNext, hold, unmade>>
    BY <1>3 DEF LookAtRefs, In
  <2>2. Idle \in LocType /\ Idle.pc = "idle"
    BY DEF Idle, LocType, FreePcs, RefType, Ref, NodeOrNull
  <2>3. \A n \in Nodes : SameTo(t, Idle, n)
    BY <2>1, <2>2 DEF SameTo, AddPcs, PushPcs, LookPcs
  <2> QED BY <2>1, <2>2, <2>3, QuietFits
<1>4. CASE LookAtRefs(t) /\ loc[t].head # Null
  <2>1. PICK l : Local(t, l) /\ l = [loc[t] EXCEPT !.pc = "ref", !.seen = freeListRefs[loc[t].head]]
    BY <1>4 DEF LookAtRefs
  <2>2. loc[t].head \in Nodes /\ freeListRefs[loc[t].head] \in RefType
    BY <1>4, <1>t DEF LocType, NodeOrNull
  <2>3. l \in LocType /\ l.pc = "ref" /\ l.head = loc[t].head
    BY <2>1, <2>2, <1>t DEF LocType, FreePcs
  <2>4. loc[t].pc = "look" /\ UNCHANGED <<freeListHead, freeListRefs, freeListNext, hold, unmade>>
    BY <1>4 DEF LookAtRefs, In
  <2>5. \A n \in Nodes : SameTo(t, l, n)
    BY <2>3, <2>4 DEF SameTo, AddPcs, PushPcs, LookPcs
  <2> QED BY <2>1, <2>2, <2>3, <2>4, <2>5, QuietFits
<1>5. CASE StartAgain(t)
  <2>1. PICK l : Local(t, l) /\ l = [loc[t] EXCEPT !.pc = "look", !.head = freeListHead]
    BY <1>5 DEF StartAgain
  <2>2. l \in LocType /\ l.pc = "look"
    BY <2>1, <1>t DEF LocType, FreePcs
  <2>3. loc[t].pc = "ref" /\ UNCHANGED <<freeListHead, freeListRefs, freeListNext, hold, unmade>>
    BY <1>5 DEF StartAgain, In
  <2>4. \A n \in Nodes : SameTo(t, l, n)
    BY <2>2, <2>3 DEF SameTo, AddPcs, PushPcs, LookPcs
  <2> QED BY <2>1, <2>2, <2>3, <2>4, QuietFits
<1>6. CASE ReadNext(t)
  <2>1. PICK l : Local(t, l) /\ l = [loc[t] EXCEPT !.pc = "pop", !.next = freeListNext[loc[t].head]]
    BY <1>6 DEF ReadNext
  <2>2. loc[t].pc = "next" /\ UNCHANGED <<freeListHead, freeListRefs, freeListNext, hold, unmade>>
    BY <1>6 DEF ReadNext, In
  <2>3. loc[t].head \in Nodes /\ freeListNext[loc[t].head] \in NodeOrNull
    BY <2>2, <1>t DEF ThreadFits
  <2>4. l \in LocType /\ l.pc = "pop" /\ l.head = loc[t].head /\ l.node = loc[t].node
          /\ l.next = freeListNext[loc[t].head]
    BY <2>1, <2>3, <1>t DEF LocType, FreePcs
  <2>5. \A n \in Nodes : SameTo(t, l, n)
    BY <2>2, <2>4 DEF SameTo, AddPcs, PushPcs, LookPcs
  <2> QED BY <2>1, <2>2, <2>3, <2>4, <2>5, QuietFits
<1> QED BY <1>1, <1>2, <1>3, <1>4, <1>5, <1>6


-----------------------------------------------------------------------------
(***************************************************************************)
(* Steps that change what thread t is to one node.                         *)
(***************************************************************************)
LEMMA OthersSame ==
    ASSUME FreeListTypes, NEW t \in FreeThreads, NEW l, Local(t, l), NEW n
    PROVE  /\ \A u \in FreeThreads : u # t =>
                 /\ Adding(u, n)' <=> Adding(u, n)
                 /\ Pushing(u, n)' <=> Pushing(u, n)
                 /\ Taking(u, n)' <=> Taking(u, n)
                 /\ u \in Looking(n)' <=> u \in Looking(n)
           /\ Adding(t, n)' <=> (l.node = n /\ l.pc \in AddPcs)
           /\ Pushing(t, n)' <=> (l.node = n /\ l.pc \in PushPcs)
           /\ Taking(t, n)' <=> (l.head = n /\ l.pc = "own")
           /\ t \in Looking(n)' <=> ((l.head = n /\ l.pc \in LookPcs) \/ (l.node = n /\ l.pc = "drop"))
BY LocalIs DEF Adding, Pushing, Taking, Looking, AddPcs, PushPcs, LookPcs

LEMMA OneNodeFits ==
    ASSUME FreeListInv, NEW t \in FreeThreads, NEW n \in Nodes, NEW l, Local(t, l),
           \A m \in Nodes : m # n => /\ SameTo(t, l, m) /\ freeListRefs'[m] = freeListRefs[m]
                                     /\ m \in unmade' <=> m \in unmade
                                     /\ m \in Listed' <=> m \in Listed
                                     /\ \A u \in FreeThreads : m \in hold'[u] <=> m \in hold[u],
           NodeFits(n)'
    PROVE  \A m \in Nodes : NodeFits(m)'
<1>1. ASSUME NEW m \in Nodes, m # n PROVE NodeFits(m)'
  <2>1. AllSame(m)
    BY <1>1, RolesStay DEF FreeListInv
  <2>2. NodeFits(m)
    BY DEF FreeListInv
  <2> QED BY <1>1, <2>1, <2>2, NodeStays
<1> QED BY <1>1

LEMMA AllocateFits ==
    ASSUME FreeListInv, NEW t \in FreeThreads, NEW n \in Nodes, Allocate(t, n)
    PROVE  FreeListInv'
<1>t. FreeListTypes /\ ListEnds /\ NodeFits(n)
  BY DEF FreeListInv
<1>1. /\ loc[t].pc = "idle" /\ n \in unmade /\ unmade' = unmade \ {n}
      /\ hold' = [hold EXCEPT ![t] = @ \cup {n}]
      /\ UNCHANGED <<freeListHead, freeListRefs, freeListNext, loc>>
  BY DEF Allocate, In
<1>2. Local(t, loc[t])
  BY <1>1, <1>t DEF Local, FreeListTypes
<1>3. ListEnds' /\ Listed' = Listed
  BY <1>t, <1>1, ListStays
<1>4. FreeListTypes' /\ \A u \in FreeThreads : ThreadFits(u)'
  BY <1>1, <1>t DEF FreeListTypes, FreeListInv, ThreadFits
<1>5. /\ \A u \in FreeThreads : n \in hold'[u] <=> (n \in hold[u] \/ u = t)
      /\ \A m \in Nodes, u \in FreeThreads : m # n => (m \in hold'[u] <=> m \in hold[u])
  BY <1>1, <1>t DEF FreeListTypes
<1>6. NodeFits(n)'
  <2>1. \A u \in FreeThreads : ~Has(u, n) /\ n \notin hold[u]
    BY <1>t, <1>1 DEF NodeFits, Has
  <2>2. \A u \in FreeThreads : (Adding(u, n)' <=> Adding(u, n)) /\ (Pushing(u, n)' <=> Pushing(u, n))
                               /\ (Taking(u, n)' <=> Taking(u, n))
    BY <1>1 DEF Adding, Pushing, Taking
  <2>3. \A u \in FreeThreads : Has(u, n)' <=> u = t
    BY <2>1, <2>2, <1>5 DEF Has
  <2>4. Looking(n)' = Looking(n) /\ (InList(n)' <=> InList(n)) /\ n \notin unmade' /\ n \notin Listed'
    BY <1>1, <1>3, <2>2, <1>t DEF Looking, InList, NodeFits
  <2> QED BY <1>t, <1>1, <1>3, <1>5, <2>1, <2>2, <2>3, <2>4 DEF NodeFits, Has
<1>7. \A m \in Nodes : SameTo(t, loc[t], m)
  BY DEF SameTo
<1>8. \A m \in Nodes : NodeFits(m)'
  BY <1>1, <1>2, <1>3, <1>5, <1>6, <1>7, OneNodeFits
<1> QED BY <1>3, <1>4, <1>8 DEF FreeListInv

LEMMA AddFits ==
    ASSUME FreeListInv, NEW t \in FreeThreads, NEW n \in Nodes, Add(t, n)
    PROVE  FreeListInv'
<1>t. FreeListTypes /\ ListEnds /\ NodeFits(n) /\ freeListRefs[n] \in RefType
  BY DEF FreeListInv, FreeListTypes
<1>1. /\ loc[t].pc = "idle" /\ n \in hold[t] /\ hold' = [hold EXCEPT ![t] = @ \ {n}]
      /\ freeListRefs' = [freeListRefs EXCEPT ![n].should = TRUE]
      /\ UNCHANGED <<freeListHead, freeListNext, unmade>>
  BY DEF Add, In
<1>2. PICK l : Local(t, l) /\ l = IF freeListRefs[n].count = 0 THEN [Idle EXCEPT !.pc = "load", !.node = n] ELSE Idle
  BY DEF Add
<1>3. Idle \in LocType /\ Idle.pc = "idle" /\ [Idle EXCEPT !.pc = "load", !.node = n] \in LocType
      /\ [Idle EXCEPT !.pc = "load", !.node = n].pc = "load"
      /\ [Idle EXCEPT !.pc = "load", !.node = n].node = n
  BY DEF Idle, LocType, FreePcs, RefType, Ref, NodeOrNull
<1>4. l \in LocType /\ (freeListRefs[n].count = 0 => l.pc = "load" /\ l.node = n)
      /\ (freeListRefs[n].count # 0 => l.pc = "idle")
  <2>1. CASE freeListRefs[n].count = 0
    <3>1. l = [Idle EXCEPT !.pc = "load", !.node = n]
      BY <1>2, <2>1, Zenon
    <3> QED BY <1>3, <2>1, <3>1
  <2>2. CASE freeListRefs[n].count # 0
    <3>1. l = Idle
      BY <1>2, <2>2, Zenon
    <3> QED BY <1>3, <2>2, <3>1
  <2> QED BY <2>1, <2>2
<1>5. l.pc \in {"load", "idle"} /\ (l.pc = "load" => l.node = n) /\ (l.pc = "load" <=> freeListRefs[n].count = 0)
  BY <1>4
<1>6. /\ \A m \in Nodes : m # n => freeListRefs'[m] = freeListRefs[m]
      /\ freeListRefs'[n].should = TRUE /\ freeListRefs'[n].count = freeListRefs[n].count
      /\ freeListRefs' \in [Nodes -> RefType]
  BY <1>1, <1>t DEF FreeListTypes, RefType
<1>7. /\ \A u \in FreeThreads : n \in hold'[u] <=> (n \in hold[u] /\ u # t)
      /\ \A m \in Nodes, u \in FreeThreads : m # n => (m \in hold'[u] <=> m \in hold[u])
      /\ hold' \in [FreeThreads -> SUBSET Nodes]
  BY <1>1, <1>t DEF FreeListTypes
<1>8. ListEnds' /\ Listed' = Listed
  BY <1>t, <1>1, ListStays
<1>9. FreeListTypes'
  BY <1>1, <1>2, <1>4, <1>6, <1>7, <1>t, TypesStay DEF FreeListTypes
<1>10. \A u \in FreeThreads : ThreadFits(u)'
  BY <1>1, <1>2, <1>5, <1>t, ThreadsStay DEF FreeListInv
<1>11. \A m \in Nodes : m # n => SameTo(t, l, m)
  BY <1>1, <1>5 DEF SameTo, AddPcs, PushPcs, LookPcs
<1>12. NodeFits(n)'
  <2>1. \A u \in FreeThreads : u # t => ~Has(u, n)
    BY <1>1, <1>t DEF NodeFits, Has
  <2>2. ~Adding(t, n) /\ ~Pushing(t, n) /\ ~Taking(t, n) /\ t \notin Looking(n)
    BY <1>1 DEF Adding, Pushing, Taking, Looking
  <2>3. /\ \A u \in FreeThreads : (Pushing(u, n)' <=> Pushing(u, n)) /\ (Taking(u, n)' <=> Taking(u, n))
                               /\ (u \in Looking(n)' <=> u \in Looking(n))
        /\ \A u \in FreeThreads : u # t => (Adding(u, n)' <=> Adding(u, n))
        /\ Adding(t, n)' <=> freeListRefs[n].count = 0
    <3>1. ~Pushing(t, n)' /\ ~Taking(t, n)' /\ t \notin Looking(n)' /\ (Adding(t, n)' <=> freeListRefs[n].count = 0)
      BY <1>t, <1>2, <1>5, OthersSame DEF AddPcs, PushPcs, LookPcs
    <3>2. \A u \in FreeThreads : u # t =>
                 /\ Adding(u, n)' <=> Adding(u, n)
                 /\ Pushing(u, n)' <=> Pushing(u, n)
                 /\ Taking(u, n)' <=> Taking(u, n)
                 /\ u \in Looking(n)' <=> u \in Looking(n)
      BY <1>t, <1>2, OthersSame
    <3> QED BY <3>1, <3>2, <2>2
  <2>4. Looking(n)' = Looking(n)
    BY <2>3 DEF Looking
  <2>5. InList(n)' <=> InList(n)
    BY <2>3, <1>8 DEF InList
  <2>6. n \notin unmade /\ n \notin Listed /\ ~InList(n)
    <3>1. Has(t, n)
      BY <1>1 DEF Has
    <3> QED BY <3>1, <2>1, <2>2, <1>t DEF NodeFits, InList, Has
  <2>7. ASSUME NEW u \in FreeThreads, u # t PROVE ~Has(u, n)'
    <3>1. ~Has(u, n)
      BY <2>1, <2>7
    <3>2. n \notin hold'[u] /\ ~Adding(u, n)' /\ ~Pushing(u, n)' /\ ~Taking(u, n)'
      BY <3>1, <2>3, <2>7, <1>7 DEF Has
    <3> QED BY <3>2 DEF Has
  <2>8. \A u \in FreeThreads : n \notin hold'[u]
    BY <2>1, <1>7 DEF Has
  <2>9. n \notin unmade' /\ n \notin Listed' /\ ~InList(n)'
    BY <1>1, <1>8, <2>5, <2>6
  <2>10. freeListRefs'[n].count = Cardinality(Looking(n)') + (IF InList(n)' THEN 1 ELSE 0)
    BY <1>6, <1>t, <2>4, <2>5 DEF NodeFits
  <2>11. /\ (\E u \in FreeThreads : Adding(u, n)') => freeListRefs'[n].count = 0
         /\ freeListRefs'[n].count = 0 => \E u \in FreeThreads : Adding(u, n)'
    BY <1>6, <2>3, <2>7 DEF Has
  <2> QED BY <1>6, <2>7, <2>8, <2>9, <2>10, <2>11 DEF NodeFits
<1>13. \A m \in Nodes : NodeFits(m)'
  BY <1>1, <1>2, <1>6, <1>7, <1>8, <1>11, <1>12, OneNodeFits
<1> QED BY <1>8, <1>9, <1>10, <1>13 DEF FreeListInv


LEMMA AfterAddIs ==
    ASSUME NEW t, loc[t] \in LocType
    PROVE  AfterAdd(t) \in LocType /\ AfterAdd(t).pc \in {"look", "idle"}
<1>1. Idle \in LocType /\ Idle.pc = "idle"
  BY DEF Idle, LocType, FreePcs, RefType, Ref, NodeOrNull
<1>2. /\ [loc[t] EXCEPT !.pc = "look", !.node = Null] \in LocType
      /\ [loc[t] EXCEPT !.pc = "look", !.node = Null].pc = "look"
  BY DEF LocType, FreePcs, NodeOrNull
<1>3. CASE loc[t].getting
  <2>1. AfterAdd(t) = [loc[t] EXCEPT !.pc = "look", !.node = Null]
    BY <1>3 DEF AfterAdd
  <2> QED BY <1>2, <2>1
<1>4. CASE ~loc[t].getting
  <2>1. AfterAdd(t) = Idle
    BY <1>4 DEF AfterAdd
  <2> QED BY <1>1, <2>1
<1> QED BY <1>3, <1>4

LEMMA NobodyLooks ==
    ASSUME NEW n \in Nodes, FreeListTypes, NodeFits(n), freeListRefs[n].count = 0
    PROVE  Looking(n) = {} /\ ~InList(n)
<1>1. IsFiniteSet(Looking(n)) /\ Cardinality(Looking(n)) \in Nat
  BY LooksFinite
<1>2. 0 = Cardinality(Looking(n)) + (IF InList(n) THEN 1 ELSE 0)
  BY DEF NodeFits
<1>3. Cardinality(Looking(n)) = 0 /\ ~InList(n)
  BY <1>1, <1>2
<1> QED BY <1>1, <1>3, FS_EmptySet

LEMMA LinkFits ==
    ASSUME FreeListInv, NEW t \in FreeThreads, LinkNode(t)
    PROVE  FreeListInv'
<1>t. PICK n : /\ n = loc[t].node /\ FreeListTypes /\ ListEnds /\ loc[t] \in LocType /\ ThreadFits(t)
               /\ freeListNext \in [Nodes -> NodeOrNull] /\ freeListHead \in NodeOrNull
  BY DEF FreeListInv, FreeListTypes
<1>1. /\ loc[t].pc = "link" /\ freeListNext' = [freeListNext EXCEPT ![n] = loc[t].next]
      /\ UNCHANGED <<freeListHead, freeListRefs, hold, unmade>>
  BY <1>t DEF LinkNode, In
<1>2. PICK l : Local(t, l) /\ l = [loc[t] EXCEPT !.pc = "refs"]
  BY DEF LinkNode
<1>3. l \in LocType /\ l.pc = "refs" /\ l.node = n /\ l.next = loc[t].next /\ l.head = loc[t].head
  BY <1>2, <1>t DEF LocType, FreePcs
<1>4. n \in Nodes
  BY <1>1, <1>t DEF ThreadFits
<1>5. NodeFits(n) /\ Has(t, n) /\ Adding(t, n)
  BY <1>1, <1>4, <1>t DEF FreeListInv, Has, Adding
<1>6. Looking(n) = {} /\ n \notin Listed /\ \A u \in FreeThreads : u # t => ~Has(u, n)
  BY <1>4, <1>5, <1>t, NobodyLooks DEF NodeFits
<1>7. freeListNext' \in [Nodes -> NodeOrNull] /\ freeListNext'[n] = loc[t].next
      /\ \A m \in Nodes : m # n => freeListNext'[m] = freeListNext[m]
  BY <1>1, <1>4, <1>t DEF LocType
<1>8. ListEnds' /\ Listed' = Listed
  <2>1. EndsIn(freeListNext, freeListHead) /\ Listed = FromIn(freeListNext, freeListHead)
    BY <1>t, FromIsIn
  <2>2. \A m \in FromIn(freeListNext, freeListHead) : freeListNext'[m] = freeListNext[m]
    BY <2>1, <1>6, <1>7 DEF FromIn
  <2>3. FromIn(freeListNext', freeListHead) = FromIn(freeListNext, freeListHead)
        /\ EndsIn(freeListNext', freeListHead)
    BY <2>1, <2>2, <1>7, <1>t, ListSame
  <2> QED BY <2>1, <2>3, <1>1, FromIsInNext
<1>9. FreeListTypes'
  BY <1>1, <1>2, <1>3, <1>7, <1>t, TypesStay DEF FreeListTypes
<1>10. loc'[t] = l /\ \A u \in FreeThreads : u # t => loc'[u] = loc[u]
  BY <1>2, <1>t, LocalIs
<1>11. \A u \in FreeThreads : ThreadFits(u)'
  <2>1. ThreadFits(t)'
    BY <1>3, <1>4, <1>7, <1>10 DEF ThreadFits
  <2>2. ASSUME NEW u \in FreeThreads, u # t PROVE ThreadFits(u)'
    <3>1. ThreadFits(u) /\ loc'[u] = loc[u]
      BY <2>2, <1>10 DEF FreeListInv
    <3>2. loc[u].pc = "pop" => loc[u].head # n
      BY <1>6 DEF Looking
    <3>3. loc[u].pc \in {"refs", "push"} => loc[u].node # n
      BY <2>2, <1>6 DEF Has, Adding, Pushing
    <3> QED BY <3>1, <3>2, <3>3, <1>7 DEF ThreadFits
  <2> QED BY <2>1, <2>2
<1>12. \A m \in Nodes : SameTo(t, l, m)
  BY <1>1, <1>3, <1>t DEF SameTo, AddPcs, PushPcs, LookPcs
<1>13. ASSUME NEW m \in Nodes PROVE NodeFits(m)'
  <2>1. AllSame(m)
    BY <1>2, <1>12, <1>t, RolesStay
  <2> QED BY <2>1, <1>1, <1>8, NodeStays DEF FreeListInv
<1> QED BY <1>8, <1>9, <1>11, <1>13 DEF FreeListInv

LEMMA StoreFits ==
    ASSUME FreeListInv, NEW t \in FreeThreads, StoreRefs(t)
    PROVE  FreeListInv'
<1>t. PICK n : n = loc[t].node /\ FreeListTypes /\ ListEnds /\ loc[t] \in LocType /\ ThreadFits(t)
  BY DEF FreeListInv, FreeListTypes
<1>1. /\ loc[t].pc = "refs" /\ freeListRefs' = [freeListRefs EXCEPT ![n] = Ref(1, FALSE)]
      /\ UNCHANGED <<freeListHead, freeListNext, hold, unmade>>
  BY <1>t DEF StoreRefs, In
<1>2. PICK l : Local(t, l) /\ l = [loc[t] EXCEPT !.pc = "push"]
  BY DEF StoreRefs
<1>3. l \in LocType /\ l.pc = "push" /\ l.node = n /\ l.next = loc[t].next /\ l.head = loc[t].head
  BY <1>2, <1>t DEF LocType, FreePcs
<1>4. n \in Nodes /\ freeListNext[n] = loc[t].next
  BY <1>1, <1>t DEF ThreadFits
<1>5. NodeFits(n) /\ Has(t, n) /\ Adding(t, n)
  BY <1>1, <1>4, <1>t DEF FreeListInv, Has, Adding
<1>6. freeListRefs[n].count = 0 /\ Looking(n) = {} /\ ~InList(n) /\ n \notin Listed /\ n \notin unmade
      /\ \A u \in FreeThreads : u # t => ~Has(u, n)
  BY <1>4, <1>5, <1>t, NobodyLooks DEF NodeFits
<1>7. /\ \A m \in Nodes : m # n => freeListRefs'[m] = freeListRefs[m]
      /\ freeListRefs'[n].should = FALSE /\ freeListRefs'[n].count = 1
      /\ freeListRefs' \in [Nodes -> RefType]
  BY <1>1, <1>4, <1>t DEF FreeListTypes, RefType, Ref
<1>8. ListEnds' /\ Listed' = Listed
  BY <1>t, <1>1, ListStays
<1>9. FreeListTypes'
  BY <1>1, <1>2, <1>3, <1>7, <1>t, TypesStay DEF FreeListTypes
<1>10. \A u \in FreeThreads : ThreadFits(u)'
  BY <1>1, <1>2, <1>3, <1>4, <1>t, ThreadsStay DEF FreeListInv
<1>11. \A m \in Nodes : m # n => SameTo(t, l, m)
  BY <1>1, <1>3, <1>t DEF SameTo, AddPcs, PushPcs, LookPcs
<1>12. NodeFits(n)'
  <2>1. Pushing(t, n)' /\ ~Adding(t, n)' /\ ~Taking(t, n)' /\ t \notin Looking(n)'
    <3>1. /\ Adding(t, n)' <=> (l.node = n /\ l.pc \in AddPcs)
          /\ Pushing(t, n)' <=> (l.node = n /\ l.pc \in PushPcs)
          /\ Taking(t, n)' <=> (l.head = n /\ l.pc = "own")
          /\ t \in Looking(n)' <=> ((l.head = n /\ l.pc \in LookPcs) \/ (l.node = n /\ l.pc = "drop"))
      <4>1. FreeListTypes /\ Local(t, l)
        BY <1>t, <1>2
      <4> QED BY <4>1, OthersSame
    <3> QED BY <3>1, <1>3 DEF AddPcs, PushPcs, LookPcs
  <2>2. ASSUME NEW u \in FreeThreads, u # t
        PROVE  ~Has(u, n)' /\ ~Adding(u, n)' /\ u \notin Looking(n)' /\ n \notin hold'[u]
    <3>1. ~Has(u, n) /\ u \notin Looking(n)
      BY <1>6, <2>2
    <3>2. (Adding(u, n)' <=> Adding(u, n)) /\ (Pushing(u, n)' <=> Pushing(u, n))
          /\ (Taking(u, n)' <=> Taking(u, n)) /\ (u \in Looking(n)' <=> u \in Looking(n))
      BY <1>t, <1>2, <2>2, OthersSame
    <3> QED BY <3>1, <3>2, <1>1 DEF Has
  <2>3. Looking(n)' = {}
    BY <2>1, <2>2 DEF Looking
  <2>4. InList(n)' /\ n \notin hold'[t] /\ n \notin unmade' /\ n \notin Listed'
    BY <2>1, <1>1, <1>5, <1>6, <1>8 DEF InList, NodeFits
  <2>5. Cardinality(Looking(n)') = 0
    BY <2>3, FS_EmptySet
  <2>6. \A u \in FreeThreads : ~Adding(u, n)' /\ n \notin hold'[u]
    BY <2>1, <2>2, <2>4
  <2> QED BY <1>7, <2>1, <2>2, <2>4, <2>5, <2>6 DEF NodeFits
<1>13. \A m \in Nodes : NodeFits(m)'
  BY <1>1, <1>2, <1>4, <1>7, <1>8, <1>11, <1>12, OneNodeFits
<1> QED BY <1>8, <1>9, <1>10, <1>13 DEF FreeListInv


LEMMA PushFits ==
    ASSUME FreeListInv, NEW t \in FreeThreads, PushNode(t), freeListHead = loc[t].next
    PROVE  FreeListInv'
<1>t. PICK n : /\ n = loc[t].node /\ FreeListTypes /\ ListEnds /\ loc[t] \in LocType /\ ThreadFits(t)
               /\ freeListNext \in [Nodes -> NodeOrNull] /\ freeListHead \in NodeOrNull
  BY DEF FreeListInv, FreeListTypes
<1>1. /\ loc[t].pc = "push" /\ freeListHead' = n /\ UNCHANGED <<freeListRefs, freeListNext, hold, unmade>>
  BY <1>t DEF PushNode, In
<1>2. PICK l : Local(t, l) /\ l = AfterAdd(t)
  BY DEF PushNode
<1>3. l \in LocType /\ l.pc \in {"look", "idle"}
  BY <1>2, <1>t, AfterAddIs
<1>4. n \in Nodes /\ freeListNext[n] = freeListHead
  BY <1>1, <1>t DEF ThreadFits
<1>5. NodeFits(n) /\ Has(t, n) /\ Pushing(t, n)
  BY <1>1, <1>4, <1>t DEF FreeListInv, Has, Pushing
<1>6. InList(n) /\ n \notin Listed /\ n \notin unmade /\ n \notin hold[t] /\ ~freeListRefs[n].should
      /\ \A u \in FreeThreads : u # t => ~Has(u, n)
  BY <1>5 DEF NodeFits, InList
<1>8. ListEnds' /\ Listed' = {n} \cup Listed
  <2>1. EndsIn(freeListNext, freeListHead) /\ Listed = FromIn(freeListNext, freeListHead)
    BY <1>t, FromIsIn
  <2>2. FromIn(freeListNext, n) = {n} \cup FromIn(freeListNext, freeListHead) /\ EndsIn(freeListNext, n)
    BY <2>1, <1>4, <1>6, <1>t, ListPushed
  <2> QED BY <2>1, <2>2, <1>1, FromIsInNext
<1>9. FreeListTypes'
  <2>1. freeListHead' \in NodeOrNull
    BY <1>1, <1>4 DEF NodeOrNull
  <2> QED BY <2>1, <1>1, <1>2, <1>3, <1>t, TypesStay DEF FreeListTypes
<1>10. \A u \in FreeThreads : ThreadFits(u)'
  BY <1>1, <1>2, <1>3, <1>t, ThreadsStay DEF FreeListInv
<1>11. \A m \in Nodes : m # n => SameTo(t, l, m)
  BY <1>1, <1>3, <1>t DEF SameTo, AddPcs, PushPcs, LookPcs
<1>r. /\ Adding(t, n)' <=> (l.node = n /\ l.pc \in AddPcs)
      /\ Pushing(t, n)' <=> (l.node = n /\ l.pc \in PushPcs)
      /\ Taking(t, n)' <=> (l.head = n /\ l.pc = "own")
      /\ t \in Looking(n)' <=> ((l.head = n /\ l.pc \in LookPcs) \/ (l.node = n /\ l.pc = "drop"))
      /\ \A u \in FreeThreads : u # t =>
                 /\ Adding(u, n)' <=> Adding(u, n)
                 /\ Pushing(u, n)' <=> Pushing(u, n)
                 /\ Taking(u, n)' <=> Taking(u, n)
                 /\ u \in Looking(n)' <=> u \in Looking(n)
  <2>1. FreeListTypes /\ Local(t, l)
    BY <1>t, <1>2
  <2> QED BY <2>1, OthersSame
<1>12. NodeFits(n)'
  <2>1. ~Pushing(t, n)' /\ ~Adding(t, n)' /\ ~Taking(t, n)' /\ t \notin Looking(n)'
    BY <1>r, <1>3 DEF AddPcs, PushPcs, LookPcs
  <2>2. ASSUME NEW u \in FreeThreads
        PROVE  ~Has(u, n)' /\ ~Adding(u, n)' /\ n \notin hold'[u]
    <3>1. u # t => ~Has(u, n)
      BY <1>6
    <3> QED BY <3>1, <2>1, <1>1, <1>6, <1>r DEF Has
  <2>3. Looking(n)' = Looking(n)
    <3>1. t \notin Looking(n)
      BY <1>1 DEF Looking, LookPcs
    <3> QED BY <3>1, <2>1, <1>r DEF Looking
  <2>4. InList(n)' /\ n \notin unmade' /\ n \in Listed'
    BY <1>1, <1>6, <1>8 DEF InList
  <2>5. freeListRefs'[n].count = Cardinality(Looking(n)') + 1 /\ ~freeListRefs'[n].should
    BY <2>3, <1>1, <1>5, <1>6 DEF NodeFits
  <2> QED BY <2>2, <2>4, <2>5 DEF NodeFits
<1>13. \A m \in Nodes : NodeFits(m)'
  BY <1>1, <1>2, <1>4, <1>8, <1>11, <1>12, OneNodeFits
<1> QED BY <1>8, <1>9, <1>10, <1>13 DEF FreeListInv

LEMMA PushFailsFits ==
    ASSUME FreeListInv, NEW t \in FreeThreads, PushNode(t), freeListHead # loc[t].next
    PROVE  FreeListInv'
<1>t. FreeListTypes /\ loc[t] \in LocType /\ ThreadFits(t) /\ freeListHead \in NodeOrNull
  BY DEF FreeListInv, FreeListTypes
<1>1. loc[t].pc = "push" /\ UNCHANGED <<freeListHead, freeListRefs, freeListNext, hold, unmade>>
  BY DEF PushNode, In
<1>2. PICK l : Local(t, l) /\ l = [loc[t] EXCEPT !.pc = "unref", !.next = freeListHead]
  BY DEF PushNode
<1>3. l \in LocType /\ l.pc = "unref" /\ l.node = loc[t].node /\ l.head = loc[t].head
  BY <1>2, <1>t DEF LocType, FreePcs
<1>4. \A n \in Nodes : SameTo(t, l, n)
  BY <1>1, <1>3 DEF SameTo, AddPcs, PushPcs, LookPcs
<1>5. l.node \in Nodes
  BY <1>1, <1>3, <1>t DEF ThreadFits
<1> QED BY <1>1, <1>2, <1>3, <1>4, <1>5, QuietFits

LEMMA DropAddFits ==
    ASSUME FreeListInv, NEW t \in FreeThreads, DropAddRef(t)
    PROVE  FreeListInv'
<1>t. PICK n : /\ n = loc[t].node /\ FreeListTypes /\ ListEnds /\ loc[t] \in LocType /\ ThreadFits(t)
  BY DEF FreeListInv, FreeListTypes
<1>1. /\ loc[t].pc = "unref" /\ freeListRefs' = [freeListRefs EXCEPT ![n] = Ref(@.count - 1, TRUE)]
      /\ UNCHANGED <<freeListHead, freeListNext, hold, unmade>>
  BY <1>t DEF DropAddRef, In
<1>4. n \in Nodes
  BY <1>1, <1>t DEF ThreadFits
<1>5. NodeFits(n) /\ Has(t, n) /\ Pushing(t, n)
  BY <1>1, <1>4, <1>t DEF FreeListInv, Has, Pushing
<1>6. InList(n) /\ n \notin Listed /\ n \notin unmade /\ n \notin hold[t] /\ ~freeListRefs[n].should
      /\ \A u \in FreeThreads : u # t => ~Has(u, n)
  BY <1>5 DEF NodeFits, InList
<1>c. /\ freeListRefs[n] \in RefType /\ freeListRefs[n].count = Cardinality(Looking(n)) + 1
      /\ Cardinality(Looking(n)) \in Nat
  BY <1>4, <1>5, <1>6, <1>t, LooksFinite DEF NodeFits, FreeListTypes
<1>7. /\ \A m \in Nodes : m # n => freeListRefs'[m] = freeListRefs[m]
      /\ freeListRefs'[n].should = TRUE /\ freeListRefs'[n].count = Cardinality(Looking(n))
      /\ freeListRefs' \in [Nodes -> RefType]
  <2>1. freeListRefs' = [freeListRefs EXCEPT ![n] = Ref(Cardinality(Looking(n)), TRUE)]
    <3>1. freeListRefs[n].count - 1 = Cardinality(Looking(n))
      BY <1>c
    <3> QED BY <3>1, <1>1
  <2> QED BY <2>1, <1>c, <1>4, <1>t DEF FreeListTypes, RefType, Ref
<1>8. freeListRefs[n] = Ref(1, FALSE) <=> Cardinality(Looking(n)) = 0
  <2>1. PICK k : k = freeListRefs[n].count /\ freeListRefs[n] = [count |-> k, should |-> FALSE]
    BY <1>c, <1>6 DEF RefType
  <2>2. freeListRefs[n] = Ref(1, FALSE) <=> k = 1
    <3>1. [count |-> k, should |-> FALSE] = [count |-> 1, should |-> FALSE] <=> k = 1
      OBVIOUS
    <3> QED BY <2>1, <3>1 DEF Ref
  <2>3. k = 1 <=> Cardinality(Looking(n)) = 0
    BY <1>c, <2>1
  <2> QED BY <2>2, <2>3
<1>2. PICK l : /\ Local(t, l)
               /\ l = IF freeListRefs[n] = Ref(1, FALSE) THEN [loc[t] EXCEPT !.pc = "link"] ELSE AfterAdd(t)
  BY <1>t DEF DropAddRef
<1>3. /\ l \in LocType
      /\ Cardinality(Looking(n)) = 0 => l.pc = "link" /\ l.node = n /\ l.head = loc[t].head
      /\ Cardinality(Looking(n)) # 0 => l.pc \in {"look", "idle"}
  <2>1. CASE Cardinality(Looking(n)) = 0
    <3>1. l = [loc[t] EXCEPT !.pc = "link"]
      BY <1>2, <1>8, <2>1, Zenon
    <3> QED BY <3>1, <2>1, <1>t DEF LocType, FreePcs
  <2>2. CASE Cardinality(Looking(n)) # 0
    <3>1. l = AfterAdd(t)
      BY <1>2, <1>8, <2>2, Zenon
    <3> QED BY <3>1, <2>2, <1>t, AfterAddIs
  <2> QED BY <2>1, <2>2
<1>9. ListEnds' /\ Listed' = Listed
  BY <1>t, <1>1, ListStays
<1>10. FreeListTypes'
  BY <1>1, <1>2, <1>3, <1>7, <1>t, TypesStay DEF FreeListTypes
<1>p. l.pc \in {"link", "look", "idle"} /\ (l.pc = "link" => l.node = n)
  BY <1>3
<1>11. \A u \in FreeThreads : ThreadFits(u)'
  BY <1>1, <1>2, <1>p, <1>4, <1>t, ThreadsStay DEF FreeListInv
<1>12. \A m \in Nodes : m # n => SameTo(t, l, m)
  BY <1>1, <1>p, <1>t DEF SameTo, AddPcs, PushPcs, LookPcs
<1>r. /\ Adding(t, n)' <=> (l.node = n /\ l.pc \in AddPcs)
      /\ Pushing(t, n)' <=> (l.node = n /\ l.pc \in PushPcs)
      /\ Taking(t, n)' <=> (l.head = n /\ l.pc = "own")
      /\ t \in Looking(n)' <=> ((l.head = n /\ l.pc \in LookPcs) \/ (l.node = n /\ l.pc = "drop"))
      /\ \A u \in FreeThreads : u # t =>
                 /\ Adding(u, n)' <=> Adding(u, n)
                 /\ Pushing(u, n)' <=> Pushing(u, n)
                 /\ Taking(u, n)' <=> Taking(u, n)
                 /\ u \in Looking(n)' <=> u \in Looking(n)
  <2>1. FreeListTypes /\ Local(t, l)
    BY <1>t, <1>2
  <2> QED BY <2>1, OthersSame
<1>13. NodeFits(n)'
  <2>1. /\ ~Pushing(t, n)' /\ ~Taking(t, n)' /\ t \notin Looking(n)'
        /\ Adding(t, n)' <=> Cardinality(Looking(n)) = 0
    BY <1>r, <1>3 DEF AddPcs, PushPcs, LookPcs
  <2>2. ASSUME NEW u \in FreeThreads, u # t
        PROVE  ~Has(u, n)' /\ ~Adding(u, n)' /\ ~Pushing(u, n)' /\ ~Taking(u, n)' /\ n \notin hold'[u]
    <3>1. ~Has(u, n)
      BY <1>6, <2>2
    <3> QED BY <3>1, <2>2, <1>1, <1>r DEF Has
  <2>3. Looking(n)' = Looking(n)
    <3>1. t \notin Looking(n)
      BY <1>1 DEF Looking, LookPcs
    <3> QED BY <3>1, <2>1, <1>r DEF Looking
  <2>4. ~InList(n)' /\ n \notin unmade' /\ n \notin Listed' /\ n \notin hold'[t]
    BY <1>1, <1>6, <1>9, <2>1, <2>2 DEF InList
  <2>5. freeListRefs'[n].count = Cardinality(Looking(n)') /\ freeListRefs'[n].should
    BY <2>3, <1>7
  <2>6. \A u \in FreeThreads : n \notin hold'[u]
    BY <2>2, <2>4
  <2>7. freeListRefs'[n].count = Cardinality(Looking(n)') + 0
    BY <2>3, <2>5, <1>c
  <2>8. (\E u \in FreeThreads : Adding(u, n)') <=> freeListRefs'[n].count = 0
    BY <2>1, <2>2, <1>7
  <2> QED BY <2>1, <2>2, <2>4, <2>5, <2>6, <2>7, <2>8 DEF NodeFits
<1>14. \A m \in Nodes : NodeFits(m)'
  BY <1>1, <1>2, <1>4, <1>7, <1>9, <1>12, <1>13, OneNodeFits
<1> QED BY <1>9, <1>10, <1>11, <1>14 DEF FreeListInv

LEMMA TakeRefFits ==
    ASSUME FreeListInv, NEW t \in FreeThreads, TakeRef(t)
    PROVE  FreeListInv'
<1>t. PICK n : /\ n = loc[t].head /\ FreeListTypes /\ ListEnds /\ loc[t] \in LocType /\ ThreadFits(t)
  BY DEF FreeListInv, FreeListTypes
<1>1. /\ loc[t].pc = "ref" /\ freeListRefs' = [freeListRefs EXCEPT ![n].count = @ + 1]
      /\ UNCHANGED <<freeListHead, freeListNext, hold, unmade>>
      /\ freeListRefs[n].count # 0
  BY <1>t DEF TakeRef, CanRef, In
<1>2. PICK l : Local(t, l) /\ l = [loc[t] EXCEPT !.pc = "next"]
  BY DEF TakeRef
<1>3. l \in LocType /\ l.pc = "next" /\ l.node = loc[t].node /\ l.head = n
  BY <1>2, <1>t DEF LocType, FreePcs
<1>4. n \in Nodes
  BY <1>1, <1>t DEF ThreadFits
<1>5. NodeFits(n) /\ freeListRefs[n] \in RefType
  BY <1>4, <1>t DEF FreeListInv, FreeListTypes
<1>6. /\ \A m \in Nodes : m # n => freeListRefs'[m] = freeListRefs[m]
      /\ freeListRefs'[n].should = freeListRefs[n].should
      /\ freeListRefs'[n].count = freeListRefs[n].count + 1
      /\ freeListRefs' \in [Nodes -> RefType]
  BY <1>1, <1>4, <1>5, <1>t DEF FreeListTypes, RefType
<1>7. ListEnds' /\ Listed' = Listed
  BY <1>t, <1>1, ListStays
<1>8. FreeListTypes'
  BY <1>1, <1>2, <1>3, <1>6, <1>t, TypesStay DEF FreeListTypes
<1>9. \A u \in FreeThreads : ThreadFits(u)'
  BY <1>1, <1>2, <1>3, <1>4, <1>t, ThreadsStay DEF FreeListInv
<1>10. \A m \in Nodes : m # n => SameTo(t, l, m)
  BY <1>1, <1>3, <1>t DEF SameTo, AddPcs, PushPcs, LookPcs
<1>r. /\ Adding(t, n)' <=> (l.node = n /\ l.pc \in AddPcs)
      /\ Pushing(t, n)' <=> (l.node = n /\ l.pc \in PushPcs)
      /\ Taking(t, n)' <=> (l.head = n /\ l.pc = "own")
      /\ t \in Looking(n)' <=> ((l.head = n /\ l.pc \in LookPcs) \/ (l.node = n /\ l.pc = "drop"))
      /\ \A u \in FreeThreads : u # t =>
                 /\ Adding(u, n)' <=> Adding(u, n)
                 /\ Pushing(u, n)' <=> Pushing(u, n)
                 /\ Taking(u, n)' <=> Taking(u, n)
                 /\ u \in Looking(n)' <=> u \in Looking(n)
  <2>1. FreeListTypes /\ Local(t, l)
    BY <1>t, <1>2
  <2> QED BY <2>1, OthersSame
<1>11. NodeFits(n)'
  <2>1. ~Pushing(t, n)' /\ ~Adding(t, n)' /\ ~Taking(t, n)' /\ t \in Looking(n)'
    BY <1>r, <1>3 DEF AddPcs, PushPcs, LookPcs
  <2>2. ~Pushing(t, n) /\ ~Adding(t, n) /\ ~Taking(t, n) /\ t \notin Looking(n)
    BY <1>1 DEF Adding, Pushing, Taking, Looking
  <2>3. \A u \in FreeThreads : /\ Adding(u, n)' <=> Adding(u, n)
                               /\ Pushing(u, n)' <=> Pushing(u, n)
                               /\ Taking(u, n)' <=> Taking(u, n)
                               /\ n \in hold'[u] <=> n \in hold[u]
    BY <2>1, <2>2, <1>r, <1>1
  <2>4. \A u \in FreeThreads : Has(u, n)' <=> Has(u, n)
    BY <2>3 DEF Has
  <2>5. InList(n)' <=> InList(n)
    BY <2>3, <1>7 DEF InList
  <2>6. Looking(n)' = Looking(n) \cup {t}
    BY <2>1, <1>r DEF Looking
  <2>7. Cardinality(Looking(n)') = Cardinality(Looking(n)) + 1
    BY <2>2, <2>6, LooksFinite, FS_AddElement
  <2>8. freeListRefs'[n].count = Cardinality(Looking(n)') + (IF InList(n)' THEN 1 ELSE 0)
    <3>1. PICK c : c = Cardinality(Looking(n)) /\ c \in Nat
      BY LooksFinite
    <3>2. PICK k : k = (IF InList(n) THEN 1 ELSE 0) /\ k \in Nat
      OBVIOUS
    <3>3. freeListRefs[n].count = c + k
      BY <3>1, <3>2, <1>5 DEF NodeFits
    <3>4. freeListRefs'[n].count = (c + 1) + k
      BY <3>1, <3>2, <3>3, <1>6
    <3>5. k = (IF InList(n)' THEN 1 ELSE 0)
      BY <3>2, <2>5
    <3> QED BY <3>1, <3>4, <3>5, <2>7
  <2>9. freeListRefs'[n].count # 0 /\ \A u \in FreeThreads : ~Adding(u, n)'
    BY <1>1, <1>5, <1>6, <2>3 DEF NodeFits, RefType
  <2>10. (n \in unmade' <=> n \in unmade) /\ (n \in Listed' <=> n \in Listed)
    BY <1>1, <1>7
  <2> QED BY <1>5, <1>6, <2>3, <2>4, <2>5, <2>8, <2>9, <2>10 DEF NodeFits
<1>12. \A m \in Nodes : NodeFits(m)'
  BY <1>1, <1>2, <1>4, <1>6, <1>7, <1>10, <1>11, OneNodeFits
<1> QED BY <1>7, <1>8, <1>9, <1>12 DEF FreeListInv

LEMMA PopFits ==
    ASSUME FreeListInv, NEW t \in FreeThreads, PopNode(t), freeListHead = loc[t].head
    PROVE  FreeListInv'
<1>t. PICK n : /\ n = loc[t].head /\ FreeListTypes /\ ListEnds /\ loc[t] \in LocType /\ ThreadFits(t)
               /\ freeListNext \in [Nodes -> NodeOrNull] /\ freeListHead \in NodeOrNull
  BY DEF FreeListInv, FreeListTypes
<1>1. /\ loc[t].pc = "pop" /\ freeListHead' = loc[t].next /\ UNCHANGED <<freeListRefs, freeListNext, hold, unmade>>
      /\ freeListHead = n
  BY <1>t DEF PopNode, In
<1>2. PICK l : Local(t, l) /\ l = [loc[t] EXCEPT !.pc = "own"]
  BY DEF PopNode
<1>3. l \in LocType /\ l.pc = "own" /\ l.node = loc[t].node /\ l.head = n
  BY <1>2, <1>t DEF LocType, FreePcs
<1>4. n \in Nodes /\ freeListNext[n] = loc[t].next
  BY <1>1, <1>t DEF ThreadFits
<1>5. NodeFits(n)
  BY <1>4, <1>t DEF FreeListInv
<1>6. ListEnds' /\ Listed' = Listed \ {n} /\ n \in Listed
  <2>1. EndsIn(freeListNext, n) /\ Listed = FromIn(freeListNext, n)
    BY <1>t, <1>1, FromIsIn
  <2>2. /\ FromIn(freeListNext, freeListNext[n]) = FromIn(freeListNext, n) \ {n}
        /\ n \in FromIn(freeListNext, n) /\ EndsIn(freeListNext, freeListNext[n])
    BY <2>1, <1>4, <1>t, ListPopped
  <2>3. freeListHead' = freeListNext[n] /\ freeListNext' = freeListNext
    BY <1>1, <1>4
  <2> QED BY <2>1, <2>2, <2>3, FromIsInNext
<1>7. InList(n) /\ n \notin unmade /\ ~freeListRefs[n].should /\ \A u \in FreeThreads : ~Has(u, n)
  BY <1>5, <1>6 DEF NodeFits, InList
<1>8. FreeListTypes'
  <2>1. freeListHead' \in NodeOrNull
    BY <1>1, <1>t DEF LocType
  <2> QED BY <2>1, <1>1, <1>2, <1>3, <1>t, TypesStay DEF FreeListTypes
<1>9. \A u \in FreeThreads : ThreadFits(u)'
  BY <1>1, <1>2, <1>3, <1>4, <1>t, ThreadsStay DEF FreeListInv
<1>10. \A m \in Nodes : m # n => SameTo(t, l, m)
  BY <1>1, <1>3, <1>t DEF SameTo, AddPcs, PushPcs, LookPcs
<1>r. /\ Adding(t, n)' <=> (l.node = n /\ l.pc \in AddPcs)
      /\ Pushing(t, n)' <=> (l.node = n /\ l.pc \in PushPcs)
      /\ Taking(t, n)' <=> (l.head = n /\ l.pc = "own")
      /\ t \in Looking(n)' <=> ((l.head = n /\ l.pc \in LookPcs) \/ (l.node = n /\ l.pc = "drop"))
      /\ \A u \in FreeThreads : u # t =>
                 /\ Adding(u, n)' <=> Adding(u, n)
                 /\ Pushing(u, n)' <=> Pushing(u, n)
                 /\ Taking(u, n)' <=> Taking(u, n)
                 /\ u \in Looking(n)' <=> u \in Looking(n)
  <2>1. FreeListTypes /\ Local(t, l)
    BY <1>t, <1>2
  <2> QED BY <2>1, OthersSame
<1>11. NodeFits(n)'
  <2>1. ~Pushing(t, n)' /\ ~Adding(t, n)' /\ Taking(t, n)' /\ t \in Looking(n)'
    BY <1>r, <1>3 DEF AddPcs, PushPcs, LookPcs
  <2>2. \A u \in FreeThreads : n \notin hold'[u] /\ n \notin hold[u]
    BY <1>1, <1>7 DEF Has
  <2>3. ASSUME NEW u \in FreeThreads, u # t PROVE ~Has(u, n)' /\ ~Adding(u, n)'
    <3>1. ~Has(u, n)
      BY <1>7
    <3> QED BY <3>1, <2>2, <2>3, <1>r DEF Has
  <2>4. Looking(n)' = Looking(n)
    <3>1. t \in Looking(n)
      BY <1>1, <1>t DEF Looking
    <3> QED BY <3>1, <2>1, <1>r DEF Looking
  <2>5. InList(n)' /\ n \notin unmade' /\ n \notin Listed'
    BY <1>1, <1>6, <1>7, <2>1 DEF InList
  <2>6. freeListRefs'[n].count = Cardinality(Looking(n)') + 1 /\ ~freeListRefs'[n].should
    BY <2>4, <1>1, <1>5, <1>7 DEF NodeFits
  <2> QED BY <2>1, <2>2, <2>3, <2>5, <2>6 DEF NodeFits
<1>12. \A m \in Nodes : NodeFits(m)'
  BY <1>1, <1>2, <1>4, <1>6, <1>10, <1>11, OneNodeFits
<1> QED BY <1>6, <1>8, <1>9, <1>12 DEF FreeListInv

LEMMA PopFailsFits ==
    ASSUME FreeListInv, NEW t \in FreeThreads, PopNode(t), freeListHead # loc[t].head
    PROVE  FreeListInv'
<1>t. FreeListTypes /\ loc[t] \in LocType /\ ThreadFits(t) /\ freeListHead \in NodeOrNull
  BY DEF FreeListInv, FreeListTypes
<1>1. loc[t].pc = "pop" /\ UNCHANGED <<freeListHead, freeListRefs, freeListNext, hold, unmade>>
  BY DEF PopNode, In
<1>2. PICK l : Local(t, l) /\ l = [loc[t] EXCEPT !.pc = "drop", !.node = loc[t].head, !.head = freeListHead]
  BY DEF PopNode
<1>3. l \in LocType /\ l.pc = "drop" /\ l.node = loc[t].head
  BY <1>2, <1>t DEF LocType, FreePcs
<1>4. \A n \in Nodes : SameTo(t, l, n)
  BY <1>1, <1>3 DEF SameTo, AddPcs, PushPcs, LookPcs
<1>5. l.node \in Nodes
  BY <1>1, <1>3, <1>t DEF ThreadFits
<1> QED BY <1>1, <1>2, <1>3, <1>4, <1>5, QuietFits

LEMMA OwnFits ==
    ASSUME FreeListInv, NEW t \in FreeThreads, OwnNode(t)
    PROVE  FreeListInv'
<1>t. PICK n : /\ n = loc[t].head /\ FreeListTypes /\ ListEnds /\ loc[t] \in LocType /\ ThreadFits(t)
  BY DEF FreeListInv, FreeListTypes
<1>1. /\ loc[t].pc = "own" /\ freeListRefs' = [freeListRefs EXCEPT ![n].count = @ - 2]
      /\ hold' = [hold EXCEPT ![t] = @ \cup {n}]
      /\ UNCHANGED <<freeListHead, freeListNext, unmade>>
  BY <1>t DEF OwnNode, In
<1>2. PICK l : Local(t, l) /\ l = Idle
  BY DEF OwnNode
<1>3. l \in LocType /\ l.pc = "idle"
  BY <1>2 DEF Idle, LocType, FreePcs, RefType, Ref, NodeOrNull
<1>4. n \in Nodes
  BY <1>1, <1>t DEF ThreadFits
<1>5. NodeFits(n) /\ Has(t, n) /\ Taking(t, n) /\ t \in Looking(n) /\ freeListRefs[n] \in RefType
  BY <1>1, <1>4, <1>t DEF FreeListInv, FreeListTypes, Has, Taking, Looking
<1>6. InList(n) /\ n \notin Listed /\ n \notin unmade /\ n \notin hold[t] /\ ~freeListRefs[n].should
      /\ \A u \in FreeThreads : u # t => ~Has(u, n)
  BY <1>5 DEF NodeFits, InList
<1>c. PICK c \in Nat : c = Cardinality(Looking(n) \ {t}) /\ freeListRefs[n].count = c + 2
  <2>1. IsFiniteSet(Looking(n)) /\ Cardinality(Looking(n)) \in Nat
    BY LooksFinite
  <2>2. Cardinality(Looking(n) \ {t}) = Cardinality(Looking(n)) - 1
        /\ Cardinality(Looking(n) \ {t}) \in Nat
    BY <2>1, <1>5, FS_RemoveElement, FS_CardinalityType
  <2>3. freeListRefs[n].count = Cardinality(Looking(n)) + 1
    BY <1>5, <1>6 DEF NodeFits
  <2> QED BY <2>1, <2>2, <2>3
<1>7. /\ \A m \in Nodes : m # n => freeListRefs'[m] = freeListRefs[m]
      /\ freeListRefs'[n].should = FALSE
      /\ freeListRefs'[n].count = c
      /\ freeListRefs' \in [Nodes -> RefType]
  <2>1. freeListRefs[n].count - 2 = c
    BY <1>c
  <2>2. freeListRefs[n].should = FALSE
    BY <1>5, <1>6 DEF RefType
  <2>3. freeListRefs' = [freeListRefs EXCEPT ![n].count = c]
    BY <2>1, <1>1
  <2> QED BY <2>2, <2>3, <1>4, <1>t DEF FreeListTypes, RefType
<1>8. /\ \A u \in FreeThreads : n \in hold'[u] <=> (n \in hold[u] \/ u = t)
      /\ \A m \in Nodes, u \in FreeThreads : m # n => (m \in hold'[u] <=> m \in hold[u])
      /\ hold' \in [FreeThreads -> SUBSET Nodes]
  BY <1>1, <1>4, <1>t DEF FreeListTypes
<1>9. ListEnds' /\ Listed' = Listed
  BY <1>t, <1>1, ListStays
<1>10. FreeListTypes'
  BY <1>1, <1>2, <1>3, <1>7, <1>8, <1>t, TypesStay DEF FreeListTypes
<1>11. \A u \in FreeThreads : ThreadFits(u)'
  BY <1>1, <1>2, <1>3, <1>t, ThreadsStay DEF FreeListInv
<1>12. \A m \in Nodes : m # n => SameTo(t, l, m)
  BY <1>1, <1>3, <1>t DEF SameTo, AddPcs, PushPcs, LookPcs
<1>r. /\ Adding(t, n)' <=> (l.node = n /\ l.pc \in AddPcs)
      /\ Pushing(t, n)' <=> (l.node = n /\ l.pc \in PushPcs)
      /\ Taking(t, n)' <=> (l.head = n /\ l.pc = "own")
      /\ t \in Looking(n)' <=> ((l.head = n /\ l.pc \in LookPcs) \/ (l.node = n /\ l.pc = "drop"))
      /\ \A u \in FreeThreads : u # t =>
                 /\ Adding(u, n)' <=> Adding(u, n)
                 /\ Pushing(u, n)' <=> Pushing(u, n)
                 /\ Taking(u, n)' <=> Taking(u, n)
                 /\ u \in Looking(n)' <=> u \in Looking(n)
  <2>1. FreeListTypes /\ Local(t, l)
    BY <1>t, <1>2
  <2> QED BY <2>1, OthersSame
<1>13. NodeFits(n)'
  <2>1. ~Pushing(t, n)' /\ ~Adding(t, n)' /\ ~Taking(t, n)' /\ t \notin Looking(n)' /\ n \in hold'[t]
    BY <1>r, <1>3, <1>8 DEF AddPcs, PushPcs, LookPcs
  <2>2. ASSUME NEW u \in FreeThreads, u # t
        PROVE  ~Has(u, n)' /\ ~Adding(u, n)' /\ ~Pushing(u, n)' /\ ~Taking(u, n)' /\ n \notin hold'[u]
    <3>1. ~Has(u, n)
      BY <1>6, <2>2
    <3> QED BY <3>1, <2>2, <1>8, <1>r DEF Has
  <2>3. Looking(n)' = Looking(n) \ {t}
    BY <2>1, <1>r DEF Looking
  <2>4. ~InList(n)' /\ n \notin unmade' /\ n \notin Listed'
    BY <1>1, <1>6, <1>9, <2>1, <2>2 DEF InList
  <2>5. freeListRefs'[n].count = Cardinality(Looking(n)') + 0 /\ ~freeListRefs'[n].should
    BY <2>3, <1>c, <1>7
  <2> QED BY <2>1, <2>2, <2>4, <2>5 DEF NodeFits
<1>14. \A m \in Nodes : NodeFits(m)'
  BY <1>1, <1>2, <1>4, <1>7, <1>8, <1>9, <1>12, <1>13, OneNodeFits
<1> QED BY <1>9, <1>10, <1>11, <1>14 DEF FreeListInv

LEMMA DropRefFits ==
    ASSUME FreeListInv, NEW t \in FreeThreads, DropRef(t)
    PROVE  FreeListInv'
<1>t. PICK n : /\ n = loc[t].node /\ FreeListTypes /\ ListEnds /\ loc[t] \in LocType /\ ThreadFits(t)
  BY DEF FreeListInv, FreeListTypes
<1>1. /\ loc[t].pc = "drop" /\ freeListRefs' = [freeListRefs EXCEPT ![n].count = @ - 1]
      /\ UNCHANGED <<freeListHead, freeListNext, hold, unmade>>
  BY <1>t DEF DropRef, In
<1>4. n \in Nodes
  BY <1>1, <1>t DEF ThreadFits
<1>5. NodeFits(n) /\ t \in Looking(n) /\ freeListRefs[n] \in RefType
  BY <1>1, <1>4, <1>t DEF FreeListInv, FreeListTypes, Looking
<1>c. PICK c \in Nat : c = Cardinality(Looking(n) \ {t})
                       /\ freeListRefs[n].count = c + 1 + (IF InList(n) THEN 1 ELSE 0)
  <2>1. IsFiniteSet(Looking(n)) /\ Cardinality(Looking(n)) \in Nat
    BY LooksFinite
  <2>2. Cardinality(Looking(n) \ {t}) = Cardinality(Looking(n)) - 1
        /\ Cardinality(Looking(n) \ {t}) \in Nat
    BY <2>1, <1>5, FS_RemoveElement, FS_CardinalityType
  <2>3. freeListRefs[n].count = Cardinality(Looking(n)) + (IF InList(n) THEN 1 ELSE 0)
    BY <1>5 DEF NodeFits
  <2>4. Cardinality(Looking(n)) = Cardinality(Looking(n) \ {t}) + 1
    BY <2>1, <2>2
  <2> QED BY <2>2, <2>3, <2>4
<1>k. PICK k \in Nat : k = c + (IF InList(n) THEN 1 ELSE 0) /\ freeListRefs[n].count = k + 1
  BY <1>c
<1>6. \A u \in FreeThreads : ~Adding(u, n)
  BY <1>5, <1>k DEF NodeFits
<1>7. /\ \A m \in Nodes : m # n => freeListRefs'[m] = freeListRefs[m]
      /\ freeListRefs'[n].should = freeListRefs[n].should
      /\ freeListRefs'[n].count = k
      /\ freeListRefs' \in [Nodes -> RefType]
  <2>1. freeListRefs[n].count - 1 = k
    BY <1>k
  <2>2. freeListRefs' = [freeListRefs EXCEPT ![n].count = k]
    BY <2>1, <1>1
  <2> QED BY <2>2, <1>4, <1>5, <1>t DEF FreeListTypes, RefType
<1>8. freeListRefs[n] = Ref(1, TRUE) <=> (k = 0 /\ freeListRefs[n].should)
  <2>1. PICK s \in BOOLEAN : freeListRefs[n].should = s /\ freeListRefs[n] = [count |-> k + 1, should |-> s]
    BY <1>5, <1>k DEF RefType
  <2>2. freeListRefs[n] = Ref(1, TRUE) <=> (k + 1 = 1 /\ s = TRUE)
    <3>1. [count |-> k + 1, should |-> s] = [count |-> 1, should |-> TRUE] <=> (k + 1 = 1 /\ s = TRUE)
      OBVIOUS
    <3> QED BY <2>1, <3>1 DEF Ref
  <2>3. k + 1 = 1 <=> k = 0
    BY <1>k
  <2> QED BY <2>1, <2>2, <2>3
<1>2. PICK l : /\ Local(t, l)
               /\ l = IF freeListRefs[n] = Ref(1, TRUE) THEN [loc[t] EXCEPT !.pc = "load"]
                      ELSE [loc[t] EXCEPT !.pc = "look", !.node = Null]
  BY <1>t DEF DropRef
<1>3. /\ l \in LocType
      /\ k = 0 /\ freeListRefs[n].should => l.pc = "load" /\ l.node = n
      /\ ~(k = 0 /\ freeListRefs[n].should) => l.pc = "look"
  <2>1. CASE k = 0 /\ freeListRefs[n].should
    <3>1. l = [loc[t] EXCEPT !.pc = "load"]
      BY <1>2, <1>8, <2>1, Zenon
    <3> QED BY <3>1, <2>1, <1>t DEF LocType, FreePcs
  <2>2. CASE ~(k = 0 /\ freeListRefs[n].should)
    <3>1. l = [loc[t] EXCEPT !.pc = "look", !.node = Null]
      BY <1>2, <1>8, <2>2, Zenon
    <3> QED BY <3>1, <2>2, <1>t DEF LocType, FreePcs, NodeOrNull
  <2> QED BY <2>1, <2>2
<1>p. l.pc \in {"load", "look"} /\ (l.pc = "load" => l.node = n)
  BY <1>3
<1>9. ListEnds' /\ Listed' = Listed
  BY <1>t, <1>1, ListStays
<1>10. FreeListTypes'
  BY <1>1, <1>2, <1>3, <1>7, <1>t, TypesStay DEF FreeListTypes
<1>11. \A u \in FreeThreads : ThreadFits(u)'
  BY <1>1, <1>2, <1>p, <1>4, <1>t, ThreadsStay DEF FreeListInv
<1>12. \A m \in Nodes : m # n => SameTo(t, l, m)
  BY <1>1, <1>p, <1>t DEF SameTo, AddPcs, PushPcs, LookPcs
<1>r. /\ Adding(t, n)' <=> (l.node = n /\ l.pc \in AddPcs)
      /\ Pushing(t, n)' <=> (l.node = n /\ l.pc \in PushPcs)
      /\ Taking(t, n)' <=> (l.head = n /\ l.pc = "own")
      /\ t \in Looking(n)' <=> ((l.head = n /\ l.pc \in LookPcs) \/ (l.node = n /\ l.pc = "drop"))
      /\ \A u \in FreeThreads : u # t =>
                 /\ Adding(u, n)' <=> Adding(u, n)
                 /\ Pushing(u, n)' <=> Pushing(u, n)
                 /\ Taking(u, n)' <=> Taking(u, n)
                 /\ u \in Looking(n)' <=> u \in Looking(n)
  <2>1. FreeListTypes /\ Local(t, l)
    BY <1>t, <1>2
  <2> QED BY <2>1, OthersSame
<1>13. NodeFits(n)'
  <2>1. /\ ~Pushing(t, n)' /\ ~Taking(t, n)' /\ t \notin Looking(n)'
        /\ Adding(t, n)' <=> (k = 0 /\ freeListRefs[n].should)
    BY <1>r, <1>3, <1>p DEF AddPcs, PushPcs, LookPcs
  <2>2. ~Pushing(t, n) /\ ~Taking(t, n)
    BY <1>1 DEF Pushing, Taking
  <2>3. \A u \in FreeThreads : /\ Pushing(u, n)' <=> Pushing(u, n)
                               /\ Taking(u, n)' <=> Taking(u, n)
                               /\ n \in hold'[u] <=> n \in hold[u]
                               /\ u # t => ~Adding(u, n)'
    BY <2>1, <2>2, <1>r, <1>1, <1>6
  <2>4. InList(n)' <=> InList(n)
    BY <2>3, <1>9 DEF InList
  <2>5. Looking(n)' = Looking(n) \ {t}
    BY <2>1, <1>r DEF Looking
  <2>6. freeListRefs'[n].count = Cardinality(Looking(n)') + (IF InList(n)' THEN 1 ELSE 0)
    BY <2>4, <2>5, <1>c, <1>k, <1>7
  <2>7. (n \in unmade' <=> n \in unmade) /\ (n \in Listed' <=> n \in Listed)
    BY <1>1, <1>9
  <2>8. CASE k = 0 /\ freeListRefs[n].should
    <3>1. /\ n \notin unmade /\ ~InList(n) /\ n \notin Listed
          /\ \A u \in FreeThreads : n \notin hold[u] /\ ~Pushing(u, n) /\ ~Taking(u, n)
      BY <2>8, <1>5 DEF NodeFits, InList
    <3>2. /\ Adding(t, n)' /\ n \notin unmade' /\ ~InList(n)' /\ n \notin Listed'
          /\ \A u \in FreeThreads : n \notin hold'[u] /\ ~Pushing(u, n)' /\ ~Taking(u, n)' /\ (u # t => ~Adding(u, n)')
      BY <3>1, <2>1, <2>3, <2>4, <2>7, <2>8
    <3>3. freeListRefs'[n].count = 0 /\ freeListRefs'[n].should
      BY <2>8, <1>7
    <3>4. \A u \in FreeThreads : u # t => ~Has(u, n)'
      BY <3>2 DEF Has
    <3> QED BY <3>2, <3>3, <3>4, <2>6 DEF NodeFits
  <2>9. CASE ~(k = 0 /\ freeListRefs[n].should)
    <3>1. \A u \in FreeThreads : ~Adding(u, n)'
      BY <2>1, <2>3, <2>9
    <3>2. \A u \in FreeThreads : Has(u, n)' <=> Has(u, n)
      BY <3>1, <2>3, <1>6 DEF Has
    <3>3. ~(freeListRefs'[n].count = 0 /\ freeListRefs'[n].should)
      BY <2>9, <1>7
    <3> QED BY <3>1, <3>2, <3>3, <2>3, <2>4, <2>6, <2>7, <1>5, <1>7 DEF NodeFits
  <2> QED BY <2>8, <2>9
<1>14. \A m \in Nodes : NodeFits(m)'
  BY <1>1, <1>2, <1>4, <1>7, <1>9, <1>12, <1>13, OneNodeFits
<1> QED BY <1>9, <1>10, <1>11, <1>14 DEF FreeListInv

-----------------------------------------------------------------------------
(***************************************************************************)
(* FreeListInv is inductive, and says that a node has one owner.           *)
(***************************************************************************)
LEMMA FreeListInvInit == FreeListInit => FreeListInv
<1> SUFFICES ASSUME FreeListInit PROVE FreeListInv
  OBVIOUS
<1>1. Idle \in LocType /\ Idle.pc = "idle"
  BY DEF Idle, LocType, FreePcs, RefType, Ref, NodeOrNull
<1>2. FreeListTypes
  BY <1>1 DEF FreeListInit, FreeListTypes, NodeOrNull, RefType, Ref
<1>3. Listed = {}
  <2>1. FromIn(freeListNext, freeListHead) = {}
    BY FromNull DEF FreeListInit
  <2> QED BY <2>1, FromIsIn
<1>4. ListEnds
  BY <1>3 DEF ListEnds
<1>5. ASSUME NEW t \in FreeThreads PROVE loc[t].pc = "idle" /\ hold[t] = {}
  BY <1>1 DEF FreeListInit
<1>6. \A t \in FreeThreads : ThreadFits(t)
  BY <1>5 DEF ThreadFits
<1>7. ASSUME NEW n \in Nodes PROVE NodeFits(n)
  <2>1. \A t \in FreeThreads : ~Has(t, n) /\ ~Adding(t, n) /\ ~Pushing(t, n) /\ ~Taking(t, n) /\ n \notin hold[t]
    BY <1>5 DEF Has, Adding, Pushing, Taking
  <2>2. Looking(n) = {} /\ ~InList(n)
    BY <1>3, <1>5, <2>1 DEF Looking, InList
  <2>3. Cardinality(Looking(n)) = 0
    BY <2>2, FS_EmptySet
  <2>4. n \in unmade /\ n \notin Listed /\ freeListRefs[n].count = 0 /\ freeListRefs[n].should = FALSE
    BY <1>3 DEF FreeListInit, Ref
  <2> QED BY <2>1, <2>2, <2>3, <2>4 DEF NodeFits
<1> QED BY <1>2, <1>4, <1>6, <1>7 DEF FreeListInv

LEMMA FreeListInvNext == FreeListInv /\ [FreeListNext]_freeListVars => FreeListInv'
<1> SUFFICES ASSUME FreeListInv, [FreeListNext]_freeListVars PROVE FreeListInv'
  OBVIOUS
<1>1. ASSUME NEW t \in FreeThreads, NEW n \in Nodes, Allocate(t, n) \/ Add(t, n) PROVE FreeListInv'
  BY <1>1, AllocateFits, AddFits
<1>2. ASSUME NEW t \in FreeThreads, TryGet(t) PROVE FreeListInv'
  BY <1>2, QuietSteps
<1>3. ASSUME NEW t \in FreeThreads, AddKnowingRefcountIsZero(t) PROVE FreeListInv'
  BY <1>3, QuietSteps, LinkFits, StoreFits, PushFits, PushFailsFits, DropAddFits DEF AddKnowingRefcountIsZero
<1>4. ASSUME NEW t \in FreeThreads, TryGetSteps(t) PROVE FreeListInv'
  BY <1>4, QuietSteps, TakeRefFits, PopFits, PopFailsFits, OwnFits, DropRefFits DEF TryGetSteps
<1>5. CASE UNCHANGED freeListVars
  <2>1. FreeListTypes' /\ \A t \in FreeThreads : ThreadFits(t)'
    BY <1>5 DEF FreeListInv, FreeListTypes, ThreadFits, freeListVars
  <2>2. ListEnds' /\ Listed' = Listed
    BY <1>5, ListStays DEF freeListVars, FreeListInv
  <2>3. ASSUME NEW n \in Nodes PROVE NodeFits(n)'
    <3>1. AllSame(n)
      BY <1>5 DEF freeListVars, AllSame, Adding, Pushing, Taking, Looking
    <3>2. NodeFits(n) /\ freeListRefs' = freeListRefs /\ unmade' = unmade /\ hold' = hold
      BY <1>5 DEF FreeListInv, freeListVars
    <3> QED BY <2>2, <3>1, <3>2, NodeStays
  <2> QED BY <2>1, <2>2, <2>3 DEF FreeListInv
<1> QED BY <1>1, <1>2, <1>3, <1>4, <1>5 DEF FreeListNext

LEMMA FreeListInvOwns == FreeListInv => NodesOwnedOnce
<1> SUFFICES ASSUME FreeListInv PROVE NodesOwnedOnce
  OBVIOUS
<1>t. FreeListTypes /\ ListEnds
  BY DEF FreeListInv
<1>1. ASSUME NEW n \in Nodes PROVE Cardinality(Holders(n)) <= 1 /\ (n \in Listed => Holders(n) = {})
  <2>1. NodeFits(n)
    BY DEF FreeListInv
  <2>2. \A t \in Holders(n) : t \in FreeThreads /\ Has(t, n)
    BY DEF Holders, Has, Taking, In
  <2>3. n \in Listed => Holders(n) = {}
    BY <2>1, <2>2 DEF NodeFits
  <2>4. CASE Holders(n) = {}
    BY <2>3, <2>4, FS_EmptySet
  <2>5. CASE Holders(n) # {}
    <3>1. PICK t : t \in Holders(n)
      BY <2>5
    <3>2. Holders(n) = {t}
      BY <3>1, <2>1, <2>2 DEF NodeFits
    <3>3. Cardinality(Holders(n)) = 1
      BY <3>2, FS_Singleton
    <3> QED BY <2>3, <3>3
  <2> QED BY <2>4, <2>5
<1>2. ASSUME Quiet, NEW n \in Nodes
      PROVE  /\ n \in Listed <=> (Holders(n) = {} /\ n \notin unmade)
             /\ freeListRefs[n] = Ref(IF n \in Listed THEN 1 ELSE 0, FALSE)
  <2>1. \A t \in FreeThreads : loc[t].pc = "idle"
    BY <1>2 DEF Quiet, In
  <2>2. NodeFits(n) /\ freeListRefs[n] \in RefType
    BY <1>t DEF FreeListInv, FreeListTypes
  <2>3. /\ \A t \in FreeThreads : ~Adding(t, n) /\ ~Pushing(t, n) /\ ~Taking(t, n)
        /\ Looking(n) = {}
    BY <2>1 DEF Adding, Pushing, Taking, Looking
  <2>4. InList(n) <=> n \in Listed
    BY <2>3 DEF InList
  <2>5. Holders(n) = {t \in FreeThreads : n \in hold[t]}
    BY <2>1 DEF Holders, In
  <2>6. freeListRefs[n].count = IF n \in Listed THEN 1 ELSE 0
    <3>1. Cardinality(Looking(n)) = 0
      BY <2>3, FS_EmptySet
    <3> QED BY <3>1, <2>2, <2>4 DEF NodeFits
  <2>7. freeListRefs[n].should = FALSE
    <3>1. SUFFICES ASSUME freeListRefs[n].should PROVE FALSE
      BY <2>2 DEF RefType
    <3>2. n \notin Listed
      BY <3>1, <2>2, <2>4 DEF NodeFits
    <3>3. freeListRefs[n].count = 0
      BY <3>2, <2>6
    <3> QED BY <3>1, <3>3, <2>2, <2>3 DEF NodeFits
  <2>8. n \in unmade \/ n \in Listed \/ \E t \in FreeThreads : n \in hold[t]
    BY <2>2, <2>4, <2>7 DEF NodeFits
  <2>9. n \in unmade \/ n \in Listed => \A t \in FreeThreads : n \notin hold[t]
    BY <2>2 DEF NodeFits, Has
  <2>10. ~(n \in unmade /\ n \in Listed)
    BY <2>2 DEF NodeFits
  <2>11. n \in Listed <=> (Holders(n) = {} /\ n \notin unmade)
    BY <2>5, <2>8, <2>9, <2>10
  <2>12. freeListRefs[n] = Ref(IF n \in Listed THEN 1 ELSE 0, FALSE)
    BY <2>2, <2>6, <2>7 DEF Ref, RefType
  <2> QED BY <2>11, <2>12
<1>3. Listed \subseteq Nodes
  BY DEF Listed, From
<1>4. Listed # {} => \E n \in Listed : freeListNext[n] = Null
  BY <1>t DEF ListEnds
<1> QED BY <1>1, <1>2, <1>3, <1>4 DEF NodesOwnedOnce

(* A node of the free list has one owner, a thread or the list, and none is *)
(* lost between two threads that each left it to the other (FreeList::add,  *)
(* try_get).                                                                *)
THEOREM NodesAlwaysOwnedOnce == FreeListSpec => []NodesOwnedOnce
<1>1. FreeListInit => FreeListInv
  BY FreeListInvInit
<1>2. FreeListInv /\ [FreeListNext]_freeListVars => FreeListInv'
  BY FreeListInvNext
<1>3. FreeListInv => NodesOwnedOnce
  BY FreeListInvOwns
<1> QED BY <1>1, <1>2, <1>3, PTL DEF FreeListSpec

-----------------------------------------------------------------------------
(***************************************************************************)
(* The producers.  A table, and what a search for a thread's id reaches.   *)
(***************************************************************************)
Ids == Threads \cup {Vacant, Reusable}
Tables == UNION {[key : [0 .. n - 1 -> Ids], value : [0 .. n - 1 -> Nat]] : n \in Nat \ {0}}
Slots(x) == Cardinality(DOMAIN x.key)
PlaceOf(x, t, k) == (HashOf[t] + k) % Slots(x)
Reached(x, t, i) ==
    \E k \in 0 .. Slots(x) - 1 : PlaceOf(x, t, k) = i /\ \A j \in 0 .. k - 1 : x.key[PlaceOf(x, t, j)] # Vacant
HasKey(x, t) == \E i \in DOMAIN x.key : x.key[i] = t

(* Where a thread's id is, a search for it gets, and finds one that the      *)
(* thread listens for.                                                       *)
TableFits(x) ==
    \A t \in Threads : \A i \in DOMAIN x.key :
        x.key[i] = t => Reached(x, t, i) /\ x.value[i] \in listeners[t]

Searching == {"count", "room", "resize", "double", "add"}
Getting == {"recycle", "push", "have"}
ThreadPcs == Searching \cup Getting \cup {"idle", "copy", "insert", "put", "exit"}
ThreadType == [pc : ThreadPcs, main : Nat, count : Int, at : Nat, index : Nat, mine : Nat,
               capacity : Nat, explicit : BOOLEAN]

ProducersTypes ==
    /\ producerCount \in Nat
    /\ prod = [q \in 1 .. producerCount |-> [explicit |-> prod[q].explicit,
                                             inactive |-> prod[q].inactive, items |-> prod[q].items]]
    /\ \A q \in 1 .. producerCount : prod[q].explicit \in BOOLEAN /\ prod[q].inactive \in BOOLEAN
    /\ producerList \in Seq(1 .. producerCount)
    /\ owned \in [Threads -> 0 .. producerCount]
    /\ listeners \in [Threads -> SUBSET (1 .. producerCount)]
    /\ th \in [Threads -> ThreadType]
    /\ hashes \in Seq(Tables) /\ hashes # <<>>
    /\ hashCount \in Int

(* Who has producer q: by a token, as a listener or on the way to either.    *)
Having(l, q) == l.mine = q /\ l.pc \in {"push", "have"}
Uses(t, q) == q \in listeners[t] \/ owned[t] = q \/ Having(th[t], q)
UsedOnce(q) ==
    /\ \A t, u \in Threads : Uses(t, q) /\ Uses(u, q) => t = u
    /\ prod[q].inactive <=> \A t \in Threads : ~Uses(t, q)

(* What a thread's locals say.                                               *)
LocalFit(t, l) ==
    /\ l.pc \in Searching => ~l.explicit
    /\ l.pc \in Searching \cup Getting /\ ~l.explicit =>
         l.index = HashOf[t] /\ l.main \in 1 .. Main /\ listeners[t] = {}
    /\ l.pc \in Getting /\ l.explicit => owned[t] = 0
    /\ l.pc = "recycle" => l.at = 0 \/ \E i \in DOMAIN producerList : producerList[i] = l.at
    /\ l.pc \in {"push", "have"} => l.mine \in 1 .. producerCount /\ prod[l.mine].explicit = l.explicit
    /\ l.pc \in {"copy", "insert"} =>
         /\ l.mine \in listeners[t] /\ l.main \in 1 .. Main
         /\ Reached(hashes[l.main], t, l.index % Slots(hashes[l.main]))
    /\ l.pc = "put" => l.mine \in listeners[t] \/ (l.mine = owned[t] /\ l.mine # 0)
    /\ l.pc = "double" => l.capacity # 0
    /\ l.pc = "exit" => l.main \in 0 .. Main /\ \A h \in l.main + 1 .. Main : ~HasKey(hashes[h], t)
LocalsFit(t) == LocalFit(t, th[t])

(* What a thread owns, and that it can be found.                             *)
OwnsFit(t) ==
    /\ \A q, w \in listeners[t] : q = w
    /\ \A q \in listeners[t] : ~prod[q].explicit
    /\ owned[t] # 0 => prod[owned[t]].explicit
    /\ listeners[t] # {} /\ th[t].pc \notin {"insert", "exit"} =>
         \E h \in 1 .. Main : HasKey(hashes[h], t)

ProducersInv ==
    /\ ProducersTypes
    /\ \A h \in 1 .. Main : TableFits(hashes[h])
    /\ \A t \in Threads : LocalsFit(t) /\ OwnsFit(t)
    /\ \A q \in 1 .. producerCount : UsedOnce(q)

-----------------------------------------------------------------------------
(***************************************************************************)
(* Remainders.                                                             *)
(***************************************************************************)
LEMMA ModRange ==
    ASSUME NEW n \in Nat \ {0}, NEW a \in Int
    PROVE  a % n \in 0 .. n - 1 /\ a = n * (a \div n) + (a % n) /\ a \div n \in Int
OBVIOUS

LEMMA NoMultiple ==
    ASSUME NEW n \in Nat \ {0}, NEW d \in Int, -n < n * d, n * d < n
    PROVE  d = 0
<1>1. CASE d >= 1
  <2>1. n * d >= n * 1
    BY <1>1
  <2> QED BY <2>1
<1>2. CASE d <= -1
  <2>1. n * d <= n * (-1)
    BY <1>2
  <2> QED BY <2>1
<1> QED BY <1>1, <1>2

LEMMA ModUnique ==
    ASSUME NEW n \in Nat \ {0}, NEW a \in Int, NEW q \in Int, NEW r \in 0 .. n - 1, a = n * q + r
    PROVE  a % n = r
<1>1. a % n \in 0 .. n - 1 /\ a = n * (a \div n) + (a % n) /\ a \div n \in Int
  BY ModRange
<1>2. PICK w \in Int, s \in 0 .. n - 1 : w = a \div n /\ s = a % n /\ a = n * w + s
  BY <1>1
<1>3. n * (q - w) = n * q - n * w
  OBVIOUS
<1>4. n * (q - w) = s - r
  BY <1>2, <1>3
<1>5. q - w = 0
  <2>1. -n < n * (q - w) /\ n * (q - w) < n /\ q - w \in Int
    BY <1>4
  <2> QED BY <2>1, NoMultiple
<1>6. s - r = 0
  BY <1>4, <1>5
<1> QED BY <1>2, <1>6

LEMMA ModTwice ==
    ASSUME NEW n \in Nat \ {0}, NEW a \in Int
    PROVE  (a % n) % n = a % n
<1>1. a % n \in 0 .. n - 1 /\ a % n = n * 0 + (a % n)
  BY ModRange
<1> QED BY <1>1, ModUnique

LEMMA ModNext ==
    ASSUME NEW n \in Nat \ {0}, NEW a \in Int
    PROVE  ((a % n) + 1) % n = (a + 1) % n
<1>1. PICK w \in Int, s \in 0 .. n - 1 : a % n = s /\ a = n * w + s
  BY ModRange
<1>2. CASE s = n - 1
  <2>0. n * (w + 1) = n * w + n /\ n * 1 = n
    OBVIOUS
  <2>1. a + 1 = n * (w + 1) + 0 /\ s + 1 = n * 1 + 0
    BY <2>0, <1>1, <1>2
  <2>2. PICK b \in Int, q \in Int, r \in 0 .. n - 1 : b = a + 1 /\ r = 0 /\ b = n * q + r
    <3> DEFINE b == a + 1
    <3>1. b \in Int /\ 0 \in 0 .. n - 1 /\ b = n * (w + 1) + 0 /\ w + 1 \in Int
      BY <2>1
    <3> QED BY <3>1
  <2>3. b % n = r
    BY <2>2, ModUnique
  <2>4. (s + 1) % n = 0
    BY <2>1, ModUnique
  <2> QED BY <1>1, <2>2, <2>3, <2>4
<1>3. CASE s # n - 1
  <2>1. a + 1 = n * w + (s + 1) /\ s + 1 = n * 0 + (s + 1) /\ s + 1 \in 0 .. n - 1
    BY <1>1, <1>3
  <2>2. PICK b \in Int, q \in Int, r \in 0 .. n - 1 : b = a + 1 /\ r = s + 1 /\ b = n * q + r
    <3> DEFINE b == a + 1
               r == s + 1
    <3>1. b \in Int /\ r \in 0 .. n - 1 /\ b = n * w + r
      BY <2>1
    <3> QED BY <3>1
  <2>3. b % n = r
    BY <2>2, ModUnique
  <2>4. (s + 1) % n = s + 1
    BY <2>1, ModUnique
  <2> QED BY <1>1, <2>2, <2>3, <2>4
<1> QED BY <1>2, <1>3

LEMMA ModAround ==
    ASSUME NEW n \in Nat \ {0}, NEW a \in Int
    PROVE  (a + n) % n = a % n
<1>1. PICK w \in Int, s \in 0 .. n - 1 : a % n = s /\ a = n * w + s
  BY ModRange
<1>2. n * (w + 1) = n * w + n
  OBVIOUS
<1>3. a + n = n * (w + 1) + s
  BY <1>2, <1>1
<1>4. PICK b \in Int, q \in Int : b = a + n /\ b = n * q + s
  <2> DEFINE b == a + n
  <2>1. b \in Int /\ b = n * (w + 1) + s /\ w + 1 \in Int
    BY <1>3
  <2> QED BY <2>1
<1>5. b % n = s
  BY <1>4, ModUnique
<1> QED BY <1>1, <1>4, <1>5

-----------------------------------------------------------------------------
(***************************************************************************)
(* Tables.                                                                 *)
(***************************************************************************)
LEMMA TableIs ==
    ASSUME NEW x \in Tables
    PROVE  /\ Slots(x) \in Nat \ {0} /\ DOMAIN x.key = 0 .. Slots(x) - 1
           /\ x \in [key : [0 .. Slots(x) - 1 -> Ids], value : [0 .. Slots(x) - 1 -> Nat]]
<1>1. PICK n \in Nat \ {0} : x \in [key : [0 .. n - 1 -> Ids], value : [0 .. n - 1 -> Nat]]
  BY DEF Tables
<1>2. DOMAIN x.key = 0 .. n - 1
  BY <1>1
<1>3. Cardinality(0 .. n - 1) = n
  BY FS_Interval
<1> QED BY <1>1, <1>2, <1>3 DEF Slots

LEMMA PlaceIn ==
    ASSUME NEW x \in Tables, NEW t \in Threads, NEW k \in Nat
    PROVE  PlaceOf(x, t, k) \in 0 .. Slots(x) - 1 /\ HashOf[t] + k \in Nat
<1>1. PICK n \in Nat \ {0}, a \in Nat : n = Slots(x) /\ a = HashOf[t] + k
  BY TableIs, ProducersAssumption
<1>2. a % n \in 0 .. n - 1
  BY ModRange
<1> QED BY <1>1, <1>2 DEF PlaceOf

(* The same slots, none vacant that was not.                                *)
LEMMA ReachedKeeps ==
    ASSUME NEW x \in Tables, NEW y, NEW t \in Threads, NEW i, DOMAIN y.key = DOMAIN x.key,
           \A j \in DOMAIN x.key : x.key[j] # Vacant => y.key[j] # Vacant, Reached(x, t, i)
    PROVE  Reached(y, t, i)
<1>1. Slots(y) = Slots(x)
  BY DEF Slots
<1>2. PICK k \in 0 .. Slots(x) - 1 :
        PlaceOf(x, t, k) = i /\ \A j \in 0 .. k - 1 : x.key[PlaceOf(x, t, j)] # Vacant
  BY DEF Reached
<1>3. \A j \in Nat : PlaceOf(y, t, j) = PlaceOf(x, t, j) /\ PlaceOf(x, t, j) \in DOMAIN x.key
  BY <1>1, PlaceIn, TableIs DEF PlaceOf
<1>4. k \in 0 .. Slots(y) - 1 /\ PlaceOf(y, t, k) = i
  BY <1>1, <1>2, <1>3, TableIs
<1>5. \A j \in 0 .. k - 1 : y.key[PlaceOf(y, t, j)] # Vacant
  BY <1>2, <1>3
<1> QED BY <1>4, <1>5 DEF Reached

LEMMA ReachedFirst ==
    ASSUME NEW x \in Tables, NEW t \in Threads
    PROVE  Reached(x, t, HashOf[t] % Slots(x))
<1>1. 0 \in 0 .. Slots(x) - 1 /\ PlaceOf(x, t, 0) = HashOf[t] % Slots(x)
  <2>1. HashOf[t] + 0 = HashOf[t]
    BY ProducersAssumption
  <2> QED BY <2>1, TableIs DEF PlaceOf
<1> QED BY <1>1 DEF Reached

LEMMA ReachedNext ==
    ASSUME NEW x \in Tables, NEW t \in Threads, NEW a \in Nat,
           Reached(x, t, a % Slots(x)), x.key[a % Slots(x)] # Vacant
    PROVE  Reached(x, t, ((a + 1) % Slots(x)) % Slots(x)) /\ (a + 1) % Slots(x) \in Nat
<1>1. PICK n \in Nat \ {0} : n = Slots(x)
  BY TableIs
<1>2. PICK k \in 0 .. n - 1 :
        (HashOf[t] + k) % n = a % n /\ \A j \in 0 .. k - 1 : x.key[PlaceOf(x, t, j)] # Vacant
  BY <1>1 DEF Reached, PlaceOf
<1>3. PICK b \in Nat : b = HashOf[t] + k
  BY ProducersAssumption
<1>4. (a + 1) % n = (b + 1) % n
  <2>1. a \in Int /\ b \in Int
    OBVIOUS
  <2>2. ((a % n) + 1) % n = (a + 1) % n /\ ((b % n) + 1) % n = (b + 1) % n
    BY <2>1, ModNext
  <2> QED BY <1>2, <1>3, <2>2
<1>5. ((a + 1) % n) % n = (b + 1) % n /\ (a + 1) % n \in Nat
  <2>1. PICK c \in Int : c = a + 1
    OBVIOUS
  <2>2. (c % n) % n = c % n /\ c % n \in 0 .. n - 1
    BY ModTwice, ModRange
  <2> QED BY <1>4, <2>1, <2>2
<1>6. \A j \in 0 .. k : x.key[PlaceOf(x, t, j)] # Vacant
  <2>1. PlaceOf(x, t, k) = a % n
    BY <1>1, <1>2 DEF PlaceOf
  <2> QED BY <1>1, <1>2, <2>1
<1>7. CASE k # n - 1
  <2>1. PICK m \in 0 .. n - 1 : m = k + 1
    BY <1>7
  <2>2. PlaceOf(x, t, m) = (b + 1) % n
    <3>1. HashOf[t] + m = b + 1
      BY <2>1, <1>3, ProducersAssumption
    <3> QED BY <3>1, <1>1 DEF PlaceOf
  <2>3. \A j \in 0 .. m - 1 : x.key[PlaceOf(x, t, j)] # Vacant
    BY <2>1, <1>6
  <2> QED BY <2>1, <2>2, <2>3, <1>1, <1>5 DEF Reached
<1>8. CASE k = n - 1
  <2>1. b + 1 = HashOf[t] + n
    BY <1>3, <1>8, ProducersAssumption
  <2>3. HashOf[t] \in Int
    BY ProducersAssumption
  <2>2. (b + 1) % n = HashOf[t] % n
    BY <2>1, <2>3, ModAround
  <2> QED BY <2>2, <1>1, <1>5, ReachedFirst
<1> QED BY <1>7, <1>8

LEMMA HashIs ==
    ASSUME ProducersTypes, NEW h \in 1 .. Main
    PROVE  /\ hashes[h] \in Tables /\ Capacity(h) = Slots(hashes[h])
           /\ \A t, k : Probe(h, t, k) = PlaceOf(hashes[h], t, k)
BY DEF ProducersTypes, Main, Capacity, Slots, Probe, PlaceOf

LEMMA FindsIs ==
    ASSUME ProducersTypes, NEW h \in 1 .. Main, TableFits(hashes[h]), NEW t \in Threads
    PROVE  /\ Finds(h, t) # 0 <=> HasKey(hashes[h], t)
           /\ HasKey(hashes[h], t) => Finds(h, t) \in listeners[t]
<1>1. PICK x : x = hashes[h]
  OBVIOUS
<1>2. x \in Tables /\ DOMAIN x.key = 0 .. Slots(x) - 1 /\ Slots(x) \in Nat \ {0}
  BY <1>1, HashIs, TableIs
<1>3. PICK found \in BOOLEAN : found = \E k \in 0 .. Slots(x) - 1 :
          /\ x.key[PlaceOf(x, t, k)] = t
          /\ \A j \in 0 .. k - 1 : x.key[PlaceOf(x, t, j)] # Vacant
  OBVIOUS
<1>4. Finds(h, t) = IF found THEN x.value[CHOOSE i \in 0 .. Slots(x) - 1 : x.key[i] = t] ELSE 0
  <2>1. Capacity(h) = Slots(x) /\ (\A k : Probe(h, t, k) = PlaceOf(x, t, k))
    BY <1>1, HashIs
  <2>2. Finds(h, t) = IF \E k \in 0 .. Slots(x) - 1 :
          /\ x.key[PlaceOf(x, t, k)] = t
          /\ \A j \in 0 .. k - 1 : x.key[PlaceOf(x, t, j)] # Vacant
        THEN x.value[CHOOSE i \in 0 .. Slots(x) - 1 : x.key[i] = t] ELSE 0
    BY <1>1, <2>1 DEF Finds
  <2> QED BY <1>3, <2>2
<1>5. HasKey(x, t) => found
  BY <1>1, <1>3, <1>2 DEF HasKey, TableFits, Reached
<1>6. found => HasKey(x, t)
  <2>1. \A k \in 0 .. Slots(x) - 1 : PlaceOf(x, t, k) \in DOMAIN x.key
    BY <1>2, PlaceIn
  <2> QED BY <1>3, <2>1 DEF HasKey
<1>7. CASE found
  <2>1. PICK i \in 0 .. Slots(x) - 1 : x.key[i] = t /\ i = CHOOSE j \in 0 .. Slots(x) - 1 : x.key[j] = t
    BY <1>2, <1>6, <1>7 DEF HasKey
  <2>2. x.value[i] \in listeners[t]
    BY <2>1, <1>1, <1>2 DEF TableFits
  <2>3. listeners[t] \subseteq 1 .. producerCount /\ producerCount \in Nat
    BY DEF ProducersTypes
  <2>4. Finds(h, t) = x.value[i]
    BY <2>1, <1>4, <1>7
  <2> QED BY <2>2, <2>3, <2>4, <1>1, <1>6, <1>7
<1>8. CASE ~found
  <2>1. Finds(h, t) = 0
    BY <1>4, <1>8
  <2> QED BY <2>1, <1>1, <1>5, <1>8
<1> QED BY <1>3, <1>7, <1>8
-----------------------------------------------------------------------------
(***************************************************************************)
(* What a step of one thread leaves to the others.                         *)
(***************************************************************************)
TableGrows(x, y, t) ==
    /\ DOMAIN y.key = DOMAIN x.key
    /\ \A i \in DOMAIN x.key :
         /\ x.key[i] # Vacant => y.key[i] # Vacant
         /\ \A u \in Threads : u # t => (y.key[i] = u <=> x.key[i] = u)
         /\ x.key[i] \in Threads \ {t} => y.value[i] = x.value[i]

OnlyBy(t) ==
    /\ producerCount <= producerCount'
    /\ \A q \in 1 .. producerCount : prod'[q].explicit = prod[q].explicit
    /\ \A i \in DOMAIN producerList : \E j \in DOMAIN producerList' : producerList'[j] = producerList[i]
    /\ Main <= Main'
    /\ \A h \in 1 .. Main : TableGrows(hashes[h], hashes'[h], t)
    /\ \A h \in Main + 1 .. Main' : \A i \in DOMAIN hashes'[h].key : hashes'[h].key[i] = Vacant
    /\ \A u \in Threads : u # t => th'[u] = th[u] /\ owned'[u] = owned[u] /\ listeners'[u] = listeners[u]

LEMMA HashesAre ==
    ASSUME ProducersTypes
    PROVE  /\ Main \in Nat \ {0} /\ DOMAIN hashes = 1 .. Main
           /\ \A h \in 1 .. Main : hashes[h] \in Tables
BY DEF ProducersTypes, Main

LEMMA HashesAreNext ==
    ASSUME ProducersTypes'
    PROVE  /\ Main' \in Nat \ {0} /\ DOMAIN hashes' = 1 .. Main'
           /\ \A h \in 1 .. Main' : hashes'[h] \in Tables
BY DEF ProducersTypes, Main

LEMMA GrowsReached ==
    ASSUME NEW x \in Tables, NEW y, NEW t \in Threads, TableGrows(x, y, t),
           NEW u \in Threads, NEW i, Reached(x, u, i)
    PROVE  Slots(y) = Slots(x) /\ Reached(y, u, i)
BY ReachedKeeps DEF TableGrows, Slots

LEMMA OthersFit ==
    ASSUME ProducersInv, ProducersTypes', NEW t \in Threads, OnlyBy(t), NEW u \in Threads, u # t
    PROVE  LocalsFit(u)' /\ OwnsFit(u)'
<1>0. PICK l : l = th[u]
  OBVIOUS
<1>1. LocalFit(u, l) /\ OwnsFit(u) /\ ProducersTypes
  BY <1>0 DEF ProducersInv, LocalsFit
<1>2. th'[u] = l /\ owned'[u] = owned[u] /\ listeners'[u] = listeners[u]
  BY <1>0 DEF OnlyBy
<1>3. /\ Main \in Nat \ {0} /\ Main' \in Nat \ {0} /\ Main <= Main'
      /\ producerCount \in Nat /\ producerCount' \in Nat /\ producerCount <= producerCount'
      /\ \A q \in 1 .. producerCount : prod'[q].explicit = prod[q].explicit
      /\ listeners[u] \subseteq 1 .. producerCount /\ owned[u] \in 0 .. producerCount
  BY <1>1, HashesAre, HashesAreNext DEF OnlyBy, ProducersTypes
<1>4. \A h \in 1 .. Main : TableGrows(hashes[h], hashes'[h], t)
  BY DEF OnlyBy
<1>5. \A h \in 1 .. Main : HasKey(hashes'[h], u) <=> HasKey(hashes[h], u)
  BY <1>4 DEF TableGrows, HasKey
<1>6. \A h \in Main + 1 .. Main' : ~HasKey(hashes'[h], u)
  BY ProducersAssumption DEF OnlyBy, HasKey
<1>8. LocalsFit(u)'
  <2>1. /\ l.pc \in Searching => ~l.explicit
        /\ l.pc \in Searching \cup Getting /\ ~l.explicit =>
             l.index = HashOf[u] /\ l.main \in 1 .. Main' /\ listeners'[u] = {}
        /\ l.pc \in Getting /\ l.explicit => owned'[u] = 0
        /\ l.pc = "put" => l.mine \in listeners'[u] \/ (l.mine = owned'[u] /\ l.mine # 0)
        /\ l.pc = "double" => l.capacity # 0
    BY <1>1, <1>2, <1>3 DEF LocalFit
  <2>2. l.pc = "recycle" => l.at = 0 \/ \E i \in DOMAIN producerList' : producerList'[i] = l.at
    BY <1>1 DEF LocalFit, OnlyBy
  <2>3. l.pc \in {"push", "have"} =>
          l.mine \in 1 .. producerCount' /\ prod'[l.mine].explicit = l.explicit
    BY <1>1, <1>3 DEF LocalFit
  <2>4. l.pc \in {"copy", "insert"} =>
         /\ l.mine \in listeners'[u] /\ l.main \in 1 .. Main'
         /\ Reached(hashes'[l.main], u, l.index % Slots(hashes'[l.main]))
    <3> SUFFICES ASSUME l.pc \in {"copy", "insert"}
                 PROVE  /\ l.mine \in listeners'[u] /\ l.main \in 1 .. Main'
                        /\ Reached(hashes'[l.main], u, l.index % Slots(hashes'[l.main]))
      OBVIOUS
    <3>1. PICK i : i = l.index % Slots(hashes[l.main])
      OBVIOUS
    <3>2. l.mine \in listeners[u] /\ l.main \in 1 .. Main /\ Reached(hashes[l.main], u, i)
      BY <1>1, <3>1 DEF LocalFit
    <3>3. Slots(hashes'[l.main]) = Slots(hashes[l.main]) /\ Reached(hashes'[l.main], u, i)
      <4>1. hashes[l.main] \in Tables /\ TableGrows(hashes[l.main], hashes'[l.main], t)
        BY <1>1, <1>4, <3>2, HashesAre
      <4> QED BY <3>2, <4>1, GrowsReached
    <3> QED BY <1>2, <1>3, <3>1, <3>2, <3>3
  <2>5. l.pc = "exit" => l.main \in 0 .. Main' /\ \A h \in l.main + 1 .. Main' : ~HasKey(hashes'[h], u)
    <3> SUFFICES ASSUME l.pc = "exit"
                 PROVE  l.main \in 0 .. Main' /\ \A h \in l.main + 1 .. Main' : ~HasKey(hashes'[h], u)
      OBVIOUS
    <3>1. l.main \in 0 .. Main /\ \A h \in l.main + 1 .. Main : ~HasKey(hashes[h], u)
      BY <1>1 DEF LocalFit
    <3> QED BY <3>1, <1>3, <1>5, <1>6
  <2> QED BY <1>2, <2>1, <2>2, <2>3, <2>4, <2>5 DEF LocalsFit, LocalFit
<1>9. OwnsFit(u)'
  <2>1. listeners[u] # {} /\ l.pc \notin {"insert", "exit"} => \E h \in 1 .. Main' : HasKey(hashes'[h], u)
    BY <1>0, <1>1, <1>3, <1>5 DEF OwnsFit
  <2>2. (\A q \in listeners[u] : ~prod'[q].explicit) /\ (owned[u] # 0 => prod'[owned[u]].explicit)
    BY <1>1, <1>3 DEF OwnsFit
  <2> QED BY <1>1, <1>2, <2>1, <2>2 DEF OwnsFit
<1> QED BY <1>8, <1>9

(* The place of thread u's id in a table.                                    *)
IdFits(x, u, S) == \A i \in DOMAIN x.key : x.key[i] = u => Reached(x, u, i) /\ x.value[i] \in S

LEMMA OthersIds ==
    ASSUME ProducersInv, ProducersTypes', NEW t \in Threads, OnlyBy(t), NEW u \in Threads, u # t,
           NEW h \in 1 .. Main'
    PROVE  IdFits(hashes'[h], u, listeners'[u])
<1> SUFFICES ASSUME NEW i \in DOMAIN hashes'[h].key, hashes'[h].key[i] = u
             PROVE  Reached(hashes'[h], u, i) /\ hashes'[h].value[i] \in listeners'[u]
  BY DEF IdFits
<1>1. ProducersTypes /\ Main \in Nat \ {0} /\ Main' \in Nat \ {0}
  BY HashesAre, HashesAreNext DEF ProducersInv
<1>2. h \in 1 .. Main
  <2> SUFFICES ASSUME h \in Main + 1 .. Main' PROVE FALSE
    BY <1>1
  <2> QED BY ProducersAssumption DEF OnlyBy
<1>3. TableGrows(hashes[h], hashes'[h], t) /\ hashes[h] \in Tables
  BY <1>1, <1>2, HashesAre DEF OnlyBy
<1>4. i \in DOMAIN hashes[h].key /\ hashes[h].key[i] = u
  BY <1>3 DEF TableGrows
<1>5. Reached(hashes[h], u, i) /\ hashes[h].value[i] \in listeners[u]
  BY <1>2, <1>4 DEF ProducersInv, TableFits
<1>6. hashes'[h].value[i] = hashes[h].value[i] /\ listeners'[u] = listeners[u]
  BY <1>3, <1>4 DEF TableGrows, OnlyBy
<1>7. Reached(hashes'[h], u, i)
  BY <1>3, <1>5, ReachedKeeps DEF TableGrows
<1> QED BY <1>5, <1>6, <1>7

LEMMA StepFits ==
    ASSUME ProducersInv, ProducersTypes', NEW t \in Threads, OnlyBy(t), LocalsFit(t)', OwnsFit(t)',
           \A h \in 1 .. Main' : IdFits(hashes'[h], t, listeners'[t]),
           \A q \in 1 .. producerCount' : UsedOnce(q)'
    PROVE  ProducersInv'
<1>1. \A u \in Threads : LocalsFit(u)' /\ OwnsFit(u)'
  BY OthersFit
<1>2. \A h \in 1 .. Main', u \in Threads : IdFits(hashes'[h], u, listeners'[u])
  BY OthersIds
<1>3. \A h \in 1 .. Main' : TableFits(hashes[h])'
  BY <1>2 DEF TableFits, IdFits
<1> QED BY <1>1, <1>3 DEF ProducersInv

(* The producers in use stay the same.                                       *)
LEMMA SameUse ==
    ASSUME ProducersInv, producerCount' = producerCount,
           \A q \in 1 .. producerCount : prod'[q].inactive = prod[q].inactive,
           \A u \in Threads, q \in 1 .. producerCount : Uses(u, q)' <=> Uses(u, q)
    PROVE  \A q \in 1 .. producerCount' : UsedOnce(q)'
BY DEF ProducersInv, UsedOnce
LEMMA GrowsSelf ==
    ASSUME NEW x, NEW t \in Threads
    PROVE  TableGrows(x, x, t)
BY DEF TableGrows

(* Elements come and go in the sub-queues.                                   *)
SameKinds ==
    /\ \A q \in 1 .. producerCount :
         prod'[q].explicit = prod[q].explicit /\ prod'[q].inactive = prod[q].inactive
    /\ prod' = [q \in 1 .. producerCount |-> [explicit |-> prod'[q].explicit,
                                              inactive |-> prod'[q].inactive, items |-> prod'[q].items]]

(* A step that changes a thread's locals, and nothing that others read.     *)
LEMMA LocalStep ==
    ASSUME ProducersInv, NEW t \in Threads, NEW l \in ThreadType,
           UNCHANGED <<listVars, hashes, owned, listeners>>, SameKinds, hashCount' \in Int,
           th' = [th EXCEPT ![t] = l], LocalFit(t, l),
           th[t].pc \notin {"insert", "exit"} \/ l.pc \in {"insert", "exit"},
           \A q \in 1 .. producerCount : Having(l, q) <=> Having(th[t], q)
    PROVE  ProducersInv'
<1>1. /\ producerList' = producerList /\ producerCount' = producerCount
      /\ hashes' = hashes /\ owned' = owned /\ listeners' = listeners /\ Main' = Main
      /\ ProducersTypes /\ Main \in Nat \ {0}
  BY HashesAre DEF listVars, Main, ProducersInv
<1>2. th'[t] = l /\ \A u \in Threads : u # t => th'[u] = th[u]
  BY <1>1 DEF ProducersTypes
<1>3. ProducersTypes'
  <2>1. th' \in [Threads -> ThreadType]
    BY <1>1 DEF ProducersTypes
  <2> QED BY <1>1, <2>1 DEF ProducersTypes, SameKinds
<1>4. OnlyBy(t)
  <2>1. \A h \in 1 .. Main : TableGrows(hashes[h], hashes'[h], t)
    BY <1>1, GrowsSelf
  <2>2. Main + 1 .. Main' = {} /\ Main <= Main' /\ producerCount <= producerCount'
    BY <1>1 DEF ProducersTypes
  <2> QED BY <1>1, <1>2, <2>1, <2>2 DEF OnlyBy, SameKinds
<1>5. LocalsFit(t)'
  BY <1>1, <1>2 DEF LocalsFit, LocalFit, SameKinds
<1>6. OwnsFit(t)'
  <2>1. owned[t] \in 0 .. producerCount /\ listeners[t] \subseteq 1 .. producerCount /\ producerCount \in Nat
    BY <1>1 DEF ProducersTypes
  <2> QED BY <1>1, <1>2, <2>1 DEF ProducersInv, OwnsFit, SameKinds
<1>7. \A h \in 1 .. Main' : IdFits(hashes'[h], t, listeners'[t])
  BY <1>1 DEF ProducersInv, TableFits, IdFits
<1>8. \A q \in 1 .. producerCount' : UsedOnce(q)'
  <2>1. ASSUME NEW u \in Threads, NEW q \in 1 .. producerCount PROVE Uses(u, q)' <=> Uses(u, q)
    <3>1. Having(th'[u], q) <=> Having(th[u], q)
      BY <1>2
    <3> QED BY <1>1, <3>1 DEF Uses, Having
  <2> QED BY <1>1, <2>1, SameUse DEF SameKinds
<1> QED BY <1>3, <1>4, <1>5, <1>6, <1>7, <1>8, StepFits

(* What a step finds.                                                        *)
LEMMA Before ==
    ASSUME ProducersInv, NEW t \in Threads
    PROVE  /\ ProducersTypes /\ th[t] \in ThreadType /\ LocalFit(t, th[t]) /\ OwnsFit(t)
           /\ Main \in Nat \ {0} /\ producerCount \in Nat /\ hashCount \in Int
           /\ \A h \in 1 .. Main : hashes[h] \in Tables /\ TableFits(hashes[h])
           /\ (UNCHANGED <<producerCount, prod>> => SameKinds)
BY HashesAre DEF ProducersInv, ProducersTypes, LocalsFit, SameKinds

LEMMA TailIs ==
    ASSUME ProducersTypes
    PROVE  Tail0 \in Nat /\ (Tail0 = 0 \/ \E i \in DOMAIN producerList : producerList[i] = Tail0)
<1>1. producerList \in Seq(1 .. producerCount) /\ producerCount \in Nat
  BY DEF ProducersTypes
<1>2. CASE producerList # <<>>
  <2>1. 1 \in DOMAIN producerList /\ producerList[1] \in 1 .. producerCount
    BY <1>1, <1>2, EmptySeq, LenProperties
  <2> QED BY <1>1, <1>2, <2>1 DEF Tail0
<1> QED BY <1>2 DEF Tail0

(* The search for room counts, resizes and waits.                            *)
LEMMA Unread ==
    ASSUME ProducersInv, NEW t \in Threads,
           CountSlot(t) \/ BeginResize(t) \/ Resize(t) \/ Double(t) \/ RoomOrWait(t)
    PROVE  ProducersInv'
<1>1. PICK l : l = th[t]
  OBVIOUS
<1>2. /\ l \in ThreadType /\ LocalFit(t, l) /\ hashCount \in Int
      /\ Main \in Nat \ {0} /\ \A h \in 1 .. Main : Capacity(h) \in Nat \ {0}
      /\ (UNCHANGED <<producerCount, prod>> => SameKinds) /\ Tail0 \in Nat
      /\ (Tail0 = 0 \/ \E i \in DOMAIN producerList : producerList[i] = Tail0)
  BY <1>1, Before, HashIs, TableIs, TailIs
<1>3. CASE CountSlot(t)
  <2>1. l.pc = "count" /\ l.main \in 1 .. Main /\ ~l.explicit
    BY <1>1, <1>2, <1>3 DEF CountSlot, ThreadAt, LocalFit, Searching
  <2>2. PICK c \in Int : c = hashCount + 1
    BY <1>2, <2>1 DEF LocalFit, ThreadType
  <2>3. PICK m : m = [l EXCEPT !.pc = "room", !.count = c]
    OBVIOUS
  <2>4. /\ th' = [th EXCEPT ![t] = m] /\ hashCount' \in Int /\ SameKinds
        /\ UNCHANGED <<listVars, hashes, owned, listeners>>
    BY <1>1, <1>2, <1>3, <2>1, <2>2, <2>3 DEF CountSlot, Go, ThreadAt, hashVars, listVars
  <2>5. /\ m \in ThreadType /\ m.pc = "room" /\ m.mine = l.mine /\ m.explicit = l.explicit
        /\ m.index = l.index /\ m.main = l.main
    BY <1>2, <2>1, <2>2, <2>3 DEF ThreadType, ThreadPcs, Searching, Getting
  <2>6. LocalFit(t, m)
    BY <1>2, <2>1, <2>2, <2>5 DEF Searching, Getting, LocalFit
  <2>7. l.pc \notin {"insert", "exit"} /\ \A q \in 1 .. producerCount : Having(m, q) <=> Having(l, q)
    BY <2>1, <2>5 DEF Having
  <2> QED BY <1>1, <2>4, <2>5, <2>6, <2>7, LocalStep
<1>4. CASE BeginResize(t)
  <2>1. l.pc = "room" /\ l.main \in 1 .. Main /\ ~l.explicit
    BY <1>1, <1>2, <1>4 DEF BeginResize, ThreadAt, LocalFit, Searching
  <2>2. PICK c \in Nat \ {0} : c = Main
    BY <1>2, <2>1 DEF LocalFit, ThreadType
  <2>3. PICK m : m = [l EXCEPT !.pc = "resize", !.main = c]
    OBVIOUS
  <2>4. /\ th' = [th EXCEPT ![t] = m] /\ hashCount' \in Int /\ SameKinds
        /\ UNCHANGED <<listVars, hashes, owned, listeners>>
    BY <1>1, <1>2, <1>4, <2>1, <2>2, <2>3 DEF BeginResize, Go, ThreadAt, hashVars, listVars
  <2>5. /\ m \in ThreadType /\ m.pc = "resize" /\ m.mine = l.mine /\ m.explicit = l.explicit
        /\ m.index = l.index /\ m.main = c
    BY <1>2, <2>1, <2>2, <2>3 DEF ThreadType, ThreadPcs, Searching, Getting
  <2>6. LocalFit(t, m)
    BY <1>2, <2>1, <2>2, <2>5 DEF Searching, Getting, LocalFit
  <2>7. l.pc \notin {"insert", "exit"} /\ \A q \in 1 .. producerCount : Having(m, q) <=> Having(l, q)
    BY <2>1, <2>5 DEF Having
  <2> QED BY <1>1, <2>4, <2>5, <2>6, <2>7, LocalStep
<1>5. CASE Resize(t) /\ HalfFull(l.count, l.main)
  <2>1. l.pc = "resize" /\ l.main \in 1 .. Main /\ ~l.explicit
    BY <1>1, <1>2, <1>5 DEF Resize, ThreadAt, LocalFit, Searching
  <2>2. PICK c \in Nat \ {0} : c = 2 * Capacity(l.main)
    BY <1>2, <2>1 DEF LocalFit, ThreadType
  <2>3. PICK m : m = [l EXCEPT !.pc = "double", !.capacity = c]
    OBVIOUS
  <2>4. /\ th' = [th EXCEPT ![t] = m] /\ hashCount' \in Int /\ SameKinds
        /\ UNCHANGED <<listVars, hashes, owned, listeners>>
    BY <1>1, <1>2, <1>5, <2>1, <2>2, <2>3 DEF Resize, Go, ThreadAt, hashVars, listVars
  <2>5. /\ m \in ThreadType /\ m.pc = "double" /\ m.mine = l.mine /\ m.explicit = l.explicit
        /\ m.index = l.index /\ m.main = l.main /\ m.capacity = c
    BY <1>2, <2>1, <2>2, <2>3 DEF ThreadType, ThreadPcs, Searching, Getting
  <2>6. LocalFit(t, m)
    BY <1>2, <2>1, <2>2, <2>5 DEF Searching, Getting, LocalFit
  <2>7. l.pc \notin {"insert", "exit"} /\ \A q \in 1 .. producerCount : Having(m, q) <=> Having(l, q)
    BY <2>1, <2>5 DEF Having
  <2> QED BY <1>1, <2>4, <2>5, <2>6, <2>7, LocalStep
<1>6. CASE Resize(t) /\ ~HalfFull(l.count, l.main)
  <2>1. l.pc = "resize" /\ l.main \in 1 .. Main /\ ~l.explicit
    BY <1>1, <1>2, <1>6 DEF Resize, ThreadAt, LocalFit, Searching
  <2>2. PICK c \in Nat \ {0} : c = Main
    BY <1>2, <2>1 DEF LocalFit, ThreadType
  <2>3. PICK m : m = [l EXCEPT !.pc = "add"]
    OBVIOUS
  <2>4. /\ th' = [th EXCEPT ![t] = m] /\ hashCount' \in Int /\ SameKinds
        /\ UNCHANGED <<listVars, hashes, owned, listeners>>
    BY <1>1, <1>2, <1>6, <2>1, <2>2, <2>3 DEF Resize, Go, ThreadAt, hashVars, listVars
  <2>5. /\ m \in ThreadType /\ m.pc = "add" /\ m.mine = l.mine /\ m.explicit = l.explicit
        /\ m.index = l.index /\ m.main = l.main
    BY <1>2, <2>1, <2>2, <2>3 DEF ThreadType, ThreadPcs, Searching, Getting
  <2>6. LocalFit(t, m)
    BY <1>2, <2>1, <2>2, <2>5 DEF Searching, Getting, LocalFit
  <2>7. l.pc \notin {"insert", "exit"} /\ \A q \in 1 .. producerCount : Having(m, q) <=> Having(l, q)
    BY <2>1, <2>5 DEF Having
  <2> QED BY <1>1, <2>4, <2>5, <2>6, <2>7, LocalStep
<1>7. CASE Double(t)
  <2>1. l.pc = "double" /\ l.main \in 1 .. Main /\ ~l.explicit
    BY <1>1, <1>2, <1>7 DEF Double, ThreadAt, LocalFit, Searching
  <2>2. PICK c \in Nat \ {0} : c = 2 * l.capacity
    BY <1>2, <2>1 DEF LocalFit, ThreadType
  <2>3. PICK m : m = [l EXCEPT !.capacity = c]
    OBVIOUS
  <2>4. /\ th' = [th EXCEPT ![t] = m] /\ hashCount' \in Int /\ SameKinds
        /\ UNCHANGED <<listVars, hashes, owned, listeners>>
    BY <1>1, <1>2, <1>7, <2>1, <2>2, <2>3 DEF Double, Go, ThreadAt, hashVars, listVars
  <2>5. /\ m \in ThreadType /\ m.pc = "double" /\ m.mine = l.mine /\ m.explicit = l.explicit
        /\ m.index = l.index /\ m.main = l.main /\ m.capacity = c
    BY <1>2, <2>1, <2>2, <2>3 DEF ThreadType, ThreadPcs, Searching, Getting
  <2>6. LocalFit(t, m)
    BY <1>2, <2>1, <2>2, <2>5 DEF Searching, Getting, LocalFit
  <2>7. l.pc \notin {"insert", "exit"} /\ \A q \in 1 .. producerCount : Having(m, q) <=> Having(l, q)
    BY <2>1, <2>5 DEF Having
  <2> QED BY <1>1, <2>4, <2>5, <2>6, <2>7, LocalStep
<1>8. CASE RoomOrWait(t) /\ TooFull(l.count, l.main)
  <2>1. l.pc \in {"add", "room"} /\ l.main \in 1 .. Main /\ ~l.explicit
    BY <1>1, <1>2, <1>8 DEF RoomOrWait, ThreadAt, LocalFit, Searching
  <2>2. PICK c \in Nat \ {0} : c = Main
    BY <1>2, <2>1 DEF LocalFit, ThreadType
  <2>3. PICK m : m = [l EXCEPT !.pc = "room", !.main = c]
    OBVIOUS
  <2>4. /\ th' = [th EXCEPT ![t] = m] /\ hashCount' \in Int /\ SameKinds
        /\ UNCHANGED <<listVars, hashes, owned, listeners>>
    BY <1>1, <1>2, <1>8, <2>1, <2>2, <2>3 DEF RoomOrWait, Go, ThreadAt, hashVars, listVars
  <2>5. /\ m \in ThreadType /\ m.pc = "room" /\ m.mine = l.mine /\ m.explicit = l.explicit
        /\ m.index = l.index /\ m.main = c
    BY <1>2, <2>1, <2>2, <2>3 DEF ThreadType, ThreadPcs, Searching, Getting
  <2>6. LocalFit(t, m)
    BY <1>2, <2>1, <2>2, <2>5 DEF Searching, Getting, LocalFit
  <2>7. l.pc \notin {"insert", "exit"} /\ \A q \in 1 .. producerCount : Having(m, q) <=> Having(l, q)
    BY <2>1, <2>5 DEF Having
  <2> QED BY <1>1, <2>4, <2>5, <2>6, <2>7, LocalStep
<1>9. CASE RoomOrWait(t) /\ ~TooFull(l.count, l.main)
  <2>1. l.pc \in {"add", "room"} /\ l.main \in 1 .. Main /\ ~l.explicit
    BY <1>1, <1>2, <1>9 DEF RoomOrWait, ThreadAt, LocalFit, Searching
  <2>2. PICK c \in Nat : c = Tail0
    BY <1>2, <2>1 DEF LocalFit, ThreadType
  <2>3. PICK m : m = [l EXCEPT !.pc = "recycle", !.at = c]
    OBVIOUS
  <2>4. /\ th' = [th EXCEPT ![t] = m] /\ hashCount' \in Int /\ SameKinds
        /\ UNCHANGED <<listVars, hashes, owned, listeners>>
    BY <1>1, <1>2, <1>9, <2>1, <2>2, <2>3 DEF RoomOrWait, Go, ThreadAt, hashVars, listVars
  <2>5. /\ m \in ThreadType /\ m.pc = "recycle" /\ m.mine = l.mine /\ m.explicit = l.explicit
        /\ m.index = l.index /\ m.main = l.main /\ m.at = c
    BY <1>2, <2>1, <2>2, <2>3 DEF ThreadType, ThreadPcs, Searching, Getting
  <2>6. LocalFit(t, m)
    BY <1>2, <2>1, <2>2, <2>5 DEF Searching, Getting, LocalFit
  <2>7. l.pc \notin {"insert", "exit"} /\ \A q \in 1 .. producerCount : Having(m, q) <=> Having(l, q)
    BY <2>1, <2>5 DEF Having
  <2> QED BY <1>1, <2>4, <2>5, <2>6, <2>7, LocalStep
<1> QED BY <1>3, <1>4, <1>5, <1>6, <1>7, <1>8, <1>9
(* The number of a producer's elements changes.                              *)
LEMMA ItemsOnly ==
    ASSUME ProducersInv, NEW q, NEW n, prod' = [prod EXCEPT ![q].items = n], producerCount' = producerCount
    PROVE  SameKinds
<1>1. prod = [w \in 1 .. producerCount |-> [explicit |-> prod[w].explicit,
                                            inactive |-> prod[w].inactive, items |-> prod[w].items]]
  BY DEF ProducersInv, ProducersTypes
<1>2. DOMAIN prod' = 1 .. producerCount /\ prod' = [w \in 1 .. producerCount |-> prod'[w]]
  BY <1>1
<1>3. ASSUME NEW w \in 1 .. producerCount
      PROVE  prod'[w] = [explicit |-> prod[w].explicit, inactive |-> prod[w].inactive, items |-> prod'[w].items]
  <2>1. prod[w] = [explicit |-> prod[w].explicit, inactive |-> prod[w].inactive, items |-> prod[w].items]
    BY <1>1
  <2>2. CASE w = q
    <3>1. prod'[w] = [prod[w] EXCEPT !.items = n]
      BY <1>1, <2>2
    <3> QED BY <2>1, <3>1
  <2>3. CASE w # q
    BY <1>1, <2>1, <2>3
  <2> QED BY <2>2, <2>3
<1>4. \A w \in 1 .. producerCount : prod'[w].explicit = prod[w].explicit /\ prod'[w].inactive = prod[w].inactive
  BY <1>3
<1>5. prod' = [w \in 1 .. producerCount |-> [explicit |-> prod'[w].explicit,
                                             inactive |-> prod'[w].inactive, items |-> prod'[w].items]]
  BY <1>2, <1>3, <1>4
<1> QED BY <1>4, <1>5 DEF SameKinds

LEMMA RestIs ==
    Rest \in ThreadType /\ Rest.pc = "idle" /\ ~Rest.explicit /\ Rest.mine = 0 /\ Rest.main = 0
BY DEF Rest, ThreadType, ThreadPcs, Searching, Getting

(* A thread is done, or begins.                                              *)
LEMMA BeginOrEnd ==
    ASSUME ProducersInv, NEW t \in Threads,
           NewTableFails(t) \/ CreateFails(t) \/ Put(t)
             \/ NewProducerToken(t) \/ PutByToken(t) \/ ThreadExit(t)
    PROVE  ProducersInv'
<1>1. PICK l : l = th[t]
  OBVIOUS
<1>2. /\ l \in ThreadType /\ LocalFit(t, l) /\ hashCount \in Int /\ Main \in Nat \ {0}
      /\ (UNCHANGED <<producerCount, prod>> => SameKinds) /\ Tail0 \in Nat
      /\ (Tail0 = 0 \/ \E i \in DOMAIN producerList : producerList[i] = Tail0)
      /\ owned[t] \in Nat
  BY <1>1, Before, TailIs DEF ProducersTypes
<1>3. CASE NewTableFails(t)
  <2>1. l.pc = "double"
    BY <1>1, <1>3 DEF NewTableFails, ThreadAt
  <2>2. PICK m : m = Rest
    OBVIOUS
  <2>3. /\ th' = [th EXCEPT ![t] = m] /\ hashCount' \in Int
        /\ UNCHANGED <<listVars, hashes, owned, listeners>>
    BY <1>2, <1>3, <2>2 DEF NewTableFails, Go, hashVars, listVars
  <2>4. SameKinds
    BY <1>2, <1>3 DEF NewTableFails, listVars
  <2>5. /\ m \in ThreadType /\ m.pc = "idle"
    BY <1>2, <2>2, RestIs DEF ThreadType, ThreadPcs, Searching, Getting
  <2>6. LocalFit(t, m)
    BY <1>2, <2>1, <2>5 DEF Searching, Getting, LocalFit
  <2>7. l.pc \notin {"insert", "exit"} /\ \A q \in 1 .. producerCount : Having(m, q) <=> Having(l, q)
    BY <2>1, <2>5 DEF Having
  <2> QED BY <1>1, <2>3, <2>4, <2>5, <2>6, <2>7, LocalStep
<1>4. CASE CreateFails(t)
  <2>1. l.pc = "recycle"
    BY <1>1, <1>4 DEF CreateFails, ThreadAt
  <2>2. PICK m : m = Rest
    OBVIOUS
  <2>3. /\ th' = [th EXCEPT ![t] = m] /\ hashCount' \in Int
        /\ UNCHANGED <<listVars, hashes, owned, listeners>>
    BY <1>2, <1>4, <2>2 DEF CreateFails, Go, hashVars, listVars
  <2>4. SameKinds
    BY <1>2, <1>4 DEF CreateFails, listVars
  <2>5. /\ m \in ThreadType /\ m.pc = "idle"
    BY <1>2, <2>2, RestIs DEF ThreadType, ThreadPcs, Searching, Getting
  <2>6. LocalFit(t, m)
    BY <1>2, <2>1, <2>5 DEF Searching, Getting, LocalFit
  <2>7. l.pc \notin {"insert", "exit"} /\ \A q \in 1 .. producerCount : Having(m, q) <=> Having(l, q)
    BY <2>1, <2>5 DEF Having
  <2> QED BY <1>1, <2>3, <2>4, <2>5, <2>6, <2>7, LocalStep
<1>5. CASE Put(t)
  <2>1. l.pc = "put"
    BY <1>1, <1>5 DEF Put, ThreadAt
  <2>2. PICK m : m = Rest
    OBVIOUS
  <2>3. /\ th' = [th EXCEPT ![t] = m] /\ hashCount' \in Int
        /\ UNCHANGED <<listVars, hashes, owned, listeners>>
    BY <1>2, <1>5, <2>2 DEF Put, Go, hashVars, listVars
  <2>4. SameKinds
    BY <1>2, <1>5, ItemsOnly DEF Put, listVars
  <2>5. /\ m \in ThreadType /\ m.pc = "idle"
    BY <1>2, <2>2, RestIs DEF ThreadType, ThreadPcs, Searching, Getting
  <2>6. LocalFit(t, m)
    BY <1>2, <2>1, <2>5 DEF Searching, Getting, LocalFit
  <2>7. l.pc \notin {"insert", "exit"} /\ \A q \in 1 .. producerCount : Having(m, q) <=> Having(l, q)
    BY <2>1, <2>5 DEF Having
  <2> QED BY <1>1, <2>3, <2>4, <2>5, <2>6, <2>7, LocalStep
<1>6. CASE NewProducerToken(t)
  <2>1. l.pc = "idle" /\ owned[t] = 0
    BY <1>1, <1>6 DEF NewProducerToken, ThreadAt
  <2>0. PICK c \in Nat : c = Tail0
    BY <1>2
  <2>2. PICK m : m = [Rest EXCEPT !.pc = "recycle", !.explicit = TRUE, !.at = c]
    OBVIOUS
  <2>3. /\ th' = [th EXCEPT ![t] = m] /\ hashCount' \in Int
        /\ UNCHANGED <<listVars, hashes, owned, listeners>>
    BY <1>2, <1>6, <2>2, <2>0 DEF NewProducerToken, Go, hashVars, listVars
  <2>4. SameKinds
    BY <1>2, <1>6 DEF NewProducerToken, listVars
  <2>5. /\ m \in ThreadType /\ m.pc = "recycle" /\ m.explicit /\ m.at = c
    BY <1>2, <2>2, RestIs DEF ThreadType, ThreadPcs, Searching, Getting
  <2>6. LocalFit(t, m)
    BY <1>2, <2>1, <2>5, <2>0 DEF Searching, Getting, LocalFit
  <2>7. l.pc \notin {"insert", "exit"} /\ \A q \in 1 .. producerCount : Having(m, q) <=> Having(l, q)
    BY <2>1, <2>5 DEF Having
  <2> QED BY <1>1, <2>3, <2>4, <2>5, <2>6, <2>7, LocalStep
<1>7. CASE PutByToken(t)
  <2>1. l.pc = "idle" /\ owned[t] # 0
    BY <1>1, <1>7 DEF PutByToken, ThreadAt
  <2>0. PICK c \in Nat : c = owned[t]
    BY <1>2
  <2>2. PICK m : m = [Rest EXCEPT !.pc = "put", !.mine = c]
    OBVIOUS
  <2>3. /\ th' = [th EXCEPT ![t] = m] /\ hashCount' \in Int
        /\ UNCHANGED <<listVars, hashes, owned, listeners>>
    BY <1>2, <1>7, <2>2, <2>0 DEF PutByToken, Go, hashVars, listVars
  <2>4. SameKinds
    BY <1>2, <1>7 DEF PutByToken, listVars
  <2>5. /\ m \in ThreadType /\ m.pc = "put" /\ m.mine = c
    BY <1>2, <2>2, RestIs DEF ThreadType, ThreadPcs, Searching, Getting
  <2>6. LocalFit(t, m)
    BY <1>2, <2>1, <2>5, <2>0 DEF Searching, Getting, LocalFit
  <2>7. l.pc \notin {"insert", "exit"} /\ \A q \in 1 .. producerCount : Having(m, q) <=> Having(l, q)
    BY <2>1, <2>5 DEF Having
  <2> QED BY <1>1, <2>3, <2>4, <2>5, <2>6, <2>7, LocalStep
<1>8. CASE ThreadExit(t)
  <2>1. l.pc = "idle"
    BY <1>1, <1>8 DEF ThreadExit, ThreadAt
  <2>0. PICK c \in Nat : c = Main
    BY <1>2
  <2>2. PICK m : m = [Rest EXCEPT !.pc = "exit", !.main = c]
    OBVIOUS
  <2>3. /\ th' = [th EXCEPT ![t] = m] /\ hashCount' \in Int
        /\ UNCHANGED <<listVars, hashes, owned, listeners>>
    BY <1>2, <1>8, <2>2, <2>0 DEF ThreadExit, Go, hashVars, listVars
  <2>4. SameKinds
    BY <1>2, <1>8 DEF ThreadExit, listVars
  <2>5. /\ m \in ThreadType /\ m.pc = "exit" /\ m.main = c
    BY <1>2, <2>2, RestIs DEF ThreadType, ThreadPcs, Searching, Getting
  <2>6. LocalFit(t, m)
    BY <1>2, <2>1, <2>5, <2>0 DEF Searching, Getting, LocalFit
  <2>7. l.pc \notin {"insert", "exit"} /\ \A q \in 1 .. producerCount : Having(m, q) <=> Having(l, q)
    BY <2>1, <2>5 DEF Having
  <2> QED BY <1>1, <2>3, <2>4, <2>5, <2>6, <2>7, LocalStep
<1> QED BY <1>3, <1>4, <1>5, <1>6, <1>7, <1>8
(* The newest of some tables.                                                *)
LEMMA NewestIs ==
    ASSUME NEW n \in Nat, NEW S \in SUBSET (1 .. n), S # {}
    PROVE  Newest(S) \in S
<1> DEFINE Less == {w \in Nat \X Nat : w[1] < w[2]}
           T == {n - h : h \in S}
<1>1. IsWellFoundedOn(Less, Nat)
  BY NatLessThanWellFounded DEF OpToRel
<1>2. T \subseteq Nat /\ T # {}
  <2>1. \A h \in S : h \in 1 .. n /\ n - h \in Nat
    OBVIOUS
  <2>2. PICK h \in S : TRUE
    OBVIOUS
  <2>3. n - h \in T
    BY <2>2
  <2> QED BY <2>1, <2>3
<1>3. \A x, y \in Nat : <<y, x>> \in Less <=> y < x
  OBVIOUS
<1> HIDE DEF Less
<1>4. PICK x \in T : \A y \in T : <<y, x>> \notin Less
  BY <1>1, <1>2, WFMin
<1>5. PICK h \in S : x = n - h
  OBVIOUS
<1>6. ASSUME NEW g \in S PROVE g <= h
  <2>1. n - g \in T /\ n - g \in Nat /\ x \in Nat
    BY <1>2
  <2>2. ~(n - g < x)
    BY <1>3, <1>4, <2>1
  <2> QED BY <1>5, <2>1, <2>2
<1> QED BY <1>6 DEF Newest

LEMMA LookupKeeps ==
    ASSUME ProducersInv, NEW t \in Threads, Lookup(t)
    PROVE  ProducersInv'
<1>1. /\ ProducersTypes /\ OwnsFit(t) /\ hashCount \in Int /\ Main \in Nat \ {0} /\ HashOf[t] \in Nat
      /\ (UNCHANGED <<producerCount, prod>> => SameKinds) /\ th[t].pc = "idle"
      /\ listeners[t] \subseteq 1 .. producerCount /\ producerCount \in Nat
      /\ \A h \in 1 .. Main : hashes[h] \in Tables /\ TableFits(hashes[h])
  BY Before, ProducersAssumption DEF ProducersTypes, Lookup, ThreadAt
<1>2. PICK found : found = FoundIn(t)
  OBVIOUS
<1>3. \A h \in 1 .. Main : /\ h \in found <=> HasKey(hashes[h], t)
                           /\ h \in found => Finds(h, t) \in listeners[t]
  BY <1>1, <1>2, FindsIs DEF FoundIn
<1>4. PICK n \in Nat \ {0}, hash \in Nat : n = Main /\ hash = HashOf[t]
  BY <1>1
<1>5. /\ UNCHANGED <<listVars, hashes, owned, listeners>> /\ hashCount' \in Int /\ SameKinds
  BY <1>1 DEF Lookup, listVars, hashVars
<1>6. CASE found = {}
  <2>1. PICK m : m = [[Rest EXCEPT !.main = n, !.index = hash] EXCEPT !.pc = "count"]
    OBVIOUS
  <2>2. th' = [th EXCEPT ![t] = m]
    BY <1>2, <1>4, <1>6, <2>1 DEF Lookup, Go
  <2>3. m \in ThreadType /\ m.pc = "count" /\ ~m.explicit /\ m.main = n /\ m.index = hash
    BY <2>1, RestIs DEF ThreadType, ThreadPcs, Searching, Getting
  <2>4. listeners[t] = {}
    BY <1>1, <1>3, <1>6 DEF OwnsFit
  <2>5. LocalFit(t, m)
    BY <1>1, <1>4, <2>3, <2>4 DEF LocalFit, Searching, Getting
  <2> QED BY <1>1, <1>5, <2>2, <2>3, <2>5, LocalStep DEF Having
<1>7. CASE found # {}
  <2>1. Newest(found) \in found /\ found \subseteq 1 .. Main
    <3>1. found \in SUBSET (1 .. n)
      BY <1>2, <1>4 DEF FoundIn
    <3> QED BY <1>4, <1>7, <3>1, NewestIs
  <2>2. PICK q \in Nat : q = Finds(Newest(found), t) /\ q \in listeners[t]
    <3>1. PICK h \in 1 .. Main : h = Newest(found) /\ h \in found
      BY <2>1
    <3>2. Finds(h, t) \in listeners[t]
      BY <1>3, <3>1
    <3> QED BY <1>1, <3>1, <3>2
  <2>3. PICK pc \in {"put", "copy"} : pc = IF Newest(found) = Main THEN "put" ELSE "copy"
    OBVIOUS
  <2>4. PICK m : m = [[Rest EXCEPT !.main = n, !.index = hash] EXCEPT !.mine = q, !.pc = pc]
    OBVIOUS
  <2>5. th' = [th EXCEPT ![t] = m]
    BY <1>2, <1>4, <1>7, <2>2, <2>3, <2>4 DEF Lookup, Go
  <2>6. m \in ThreadType /\ m.pc = pc /\ m.mine = q /\ m.main = n /\ m.index = hash
    BY <2>4, RestIs DEF ThreadType, ThreadPcs, Searching, Getting
  <2>7. Reached(hashes[n], t, hash % Slots(hashes[n]))
    BY <1>1, <1>4, ReachedFirst
  <2>8. LocalFit(t, m)
    BY <1>1, <1>4, <2>2, <2>6, <2>7 DEF LocalFit, Searching, Getting
  <2>9. \A w : ~Having(m, w) /\ ~Having(th[t], w)
    BY <1>1, <2>6 DEF Having
  <2> QED BY <1>1, <1>5, <2>5, <2>6, <2>8, <2>9, LocalStep
<1> QED BY <1>6, <1>7

(* The slot is another thread's: the next one is looked at.                 *)
LEMMA NextSlotKeeps ==
    ASSUME ProducersInv, NEW t \in Threads, th[t].pc \in {"copy", "insert"},
           Slot(t) \notin {Vacant, Reusable}, Go(t, NextSlot(t)),
           UNCHANGED <<listVars, prod, hashes, owned, listeners>>, hashCount' \in Int
    PROVE  ProducersInv'
<1>1. PICK l : l = th[t]
  OBVIOUS
<1>2. /\ l \in ThreadType /\ LocalFit(t, l) /\ l.pc \in {"copy", "insert"}
      /\ (UNCHANGED <<producerCount, prod>> => SameKinds) /\ Main \in Nat \ {0} /\ ProducersTypes
  BY <1>1, Before
<1>3. PICK x \in Tables : x = hashes[l.main] /\ Capacity(l.main) = Slots(x) /\ l.main \in 1 .. Main
                            /\ Reached(x, t, l.index % Slots(x))
  BY <1>2, HashIs, Before DEF LocalFit
<1>4. l.index \in Nat /\ x.key[l.index % Slots(x)] # Vacant
  BY <1>1, <1>2, <1>3 DEF Slot, ThreadType
<1>5. PICK i \in Nat : i = (l.index + 1) % Slots(x) /\ Reached(x, t, i % Slots(x))
  BY <1>3, <1>4, ReachedNext
<1>6. PICK m : m = [l EXCEPT !.index = i]
  OBVIOUS
<1>7. th' = [th EXCEPT ![t] = m]
  BY <1>1, <1>3, <1>5, <1>6 DEF Go, NextSlot
<1>8. m \in ThreadType /\ m.pc = l.pc /\ m.mine = l.mine /\ m.main = l.main /\ m.index = i
  BY <1>2, <1>6 DEF ThreadType
<1>9. LocalFit(t, m)
  BY <1>2, <1>3, <1>5, <1>8 DEF LocalFit, Searching, Getting
<1>10. \A w : Having(m, w) <=> Having(l, w)
  BY <1>8 DEF Having
<1>11. SameKinds
  BY <1>2 DEF listVars
<1> QED BY <1>1, <1>2, <1>7, <1>8, <1>9, <1>10, <1>11, LocalStep

(* The next producer of the list, or none.                                   *)
LEMMA NextProducerIs ==
    ASSUME ProducersTypes, NEW i \in DOMAIN producerList
    PROVE  /\ NextProducer(producerList[i]) \in Nat
           /\ NextProducer(producerList[i]) = 0
                \/ \E j \in DOMAIN producerList : producerList[j] = NextProducer(producerList[i])
<1>1. /\ producerList \in Seq(1 .. producerCount) /\ producerCount \in Nat
      /\ DOMAIN producerList = 1 .. Len(producerList) /\ Len(producerList) \in Nat
      /\ \A j \in DOMAIN producerList : producerList[j] \in 1 .. producerCount
  BY LenProperties DEF ProducersTypes
<1>2. PICK j \in DOMAIN producerList :
        j = CHOOSE k \in DOMAIN producerList : producerList[k] = producerList[i]
  OBVIOUS
<1>3. NextProducer(producerList[i]) = IF j = Len(producerList) THEN 0 ELSE producerList[j + 1]
  BY <1>2 DEF NextProducer, Position
<1>4. CASE j # Len(producerList)
  BY <1>1, <1>3, <1>4
<1> QED BY <1>3, <1>4

LEMMA RecycleNext ==
    ASSUME ProducersInv, NEW t \in Threads, Recycle(t),
           ~(prod[th[t].at].inactive /\ prod[th[t].at].explicit = th[t].explicit)
    PROVE  ProducersInv'
<1>1. PICK l : l = th[t]
  OBVIOUS
<1>2. /\ l \in ThreadType /\ LocalFit(t, l) /\ l.pc = "recycle" /\ l.at # 0 /\ hashCount \in Int
      /\ (UNCHANGED <<producerCount, prod>> => SameKinds) /\ ProducersTypes
  BY <1>1, Before DEF Recycle, ThreadAt
<1>3. PICK i \in DOMAIN producerList : producerList[i] = l.at
  BY <1>2 DEF LocalFit
<1>4. PICK n \in Nat : n = NextProducer(l.at) /\ (n = 0 \/ \E j \in DOMAIN producerList : producerList[j] = n)
  BY <1>2, <1>3, NextProducerIs
<1>5. PICK m : m = [l EXCEPT !.at = n]
  OBVIOUS
<1>6. th' = [th EXCEPT ![t] = m] /\ UNCHANGED <<listVars, prod, hashVars, owned, listeners>>
  BY <1>1, <1>4, <1>5 DEF Recycle, Go
<1>7. /\ m \in ThreadType /\ m.pc = l.pc /\ m.mine = l.mine /\ m.main = l.main /\ m.index = l.index
      /\ m.at = n /\ m.explicit = l.explicit
  BY <1>2, <1>5 DEF ThreadType
<1>8. LocalFit(t, m)
  BY <1>2, <1>4, <1>7 DEF LocalFit, Searching, Getting
<1>9. \A w : Having(m, w) <=> Having(l, w)
  BY <1>7 DEF Having
<1>10. SameKinds /\ UNCHANGED <<listVars, hashes, owned, listeners>> /\ hashCount' \in Int
  BY <1>2, <1>6 DEF listVars, hashVars
<1> QED BY <1>1, <1>2, <1>6, <1>7, <1>8, <1>9, <1>10, LocalStep
(* A thread changes one table.                                               *)
LEMMA TableStep ==
    ASSUME ProducersInv, NEW t \in Threads, NEW m \in ThreadType, NEW h \in 1 .. Main, NEW y \in Tables,
           th' = [th EXCEPT ![t] = m], hashes' = [hashes EXCEPT ![h] = y],
           UNCHANGED <<listVars, prod, owned, listeners>>, hashCount' \in Int,
           TableGrows(hashes[h], y, t), IdFits(y, t, listeners[t]), LocalsFit(t)', OwnsFit(t)',
           \A q \in 1 .. producerCount : Having(m, q) <=> Having(th[t], q)
    PROVE  ProducersInv'
<1>1. /\ producerList' = producerList /\ producerCount' = producerCount /\ prod' = prod
      /\ owned' = owned /\ listeners' = listeners /\ ProducersTypes
      /\ Main \in Nat \ {0} /\ DOMAIN hashes = 1 .. Main
  BY HashesAre DEF listVars, ProducersInv
<1>2. th'[t] = m /\ (\A u \in Threads : u # t => th'[u] = th[u]) /\ th' \in [Threads -> ThreadType]
  BY <1>1 DEF ProducersTypes
<1>3. /\ hashes' \in Seq(Tables) /\ Main' = Main /\ hashes' # <<>>
      /\ hashes'[h] = y /\ \A g \in 1 .. Main : g # h => hashes'[g] = hashes[g]
  <2>1. hashes \in Seq(Tables) /\ Len(hashes) = Main
    BY <1>1 DEF ProducersTypes, Main
  <2>2. hashes' \in Seq(Tables) /\ Len(hashes') = Len(hashes)
    BY <2>1, ExceptSeq
  <2>3. hashes'[h] = y /\ \A g \in 1 .. Main : g # h => hashes'[g] = hashes[g]
    BY <1>1
  <2> QED BY <1>1, <2>1, <2>2, <2>3, EmptySeq DEF Main
<1>4. ProducersTypes'
  BY <1>1, <1>2, <1>3 DEF ProducersTypes
<1>5. OnlyBy(t)
  <2>1. \A g \in 1 .. Main : TableGrows(hashes[g], hashes'[g], t)
    BY <1>3, GrowsSelf
  <2>2. Main + 1 .. Main' = {} /\ Main <= Main' /\ producerCount <= producerCount'
    BY <1>1, <1>3 DEF ProducersTypes
  <2> QED BY <1>1, <1>2, <2>1, <2>2 DEF OnlyBy
<1>6. \A g \in 1 .. Main' : IdFits(hashes'[g], t, listeners'[t])
  <2>1. \A g \in 1 .. Main : IdFits(hashes[g], t, listeners[t])
    BY DEF ProducersInv, TableFits, IdFits
  <2> QED BY <1>1, <1>3, <2>1
<1>7. \A q \in 1 .. producerCount' : UsedOnce(q)'
  <2>1. ASSUME NEW u \in Threads, NEW q \in 1 .. producerCount PROVE Uses(u, q)' <=> Uses(u, q)
    <3>1. Having(th'[u], q) <=> Having(th[u], q)
      BY <1>2
    <3> QED BY <1>1, <3>1 DEF Uses, Having
  <2> QED BY <1>1, <2>1, SameUse
<1> QED BY <1>4, <1>5, <1>6, <1>7, StepFits

(* A vacant or reusable slot becomes the thread's.                           *)
LEMMA ClaimKeeps ==
    ASSUME ProducersInv, NEW t \in Threads, th[t].pc \in {"copy", "insert"},
           Slot(t) \in {Vacant, Reusable}, ClaimSlot(t), Go(t, [th[t] EXCEPT !.pc = "put"]),
           UNCHANGED <<listVars, prod, owned, listeners>>, hashCount' \in Int
    PROVE  ProducersInv'
<1>1. PICK l : l = th[t]
  OBVIOUS
<1>2. /\ l \in ThreadType /\ LocalFit(t, l) /\ l.pc \in {"copy", "insert"} /\ OwnsFit(t)
      /\ Main \in Nat \ {0} /\ ProducersTypes
      /\ \A g \in 1 .. Main : hashes[g] \in Tables /\ TableFits(hashes[g])
  BY <1>1, Before
<1>3. PICK h \in 1 .. Main : h = l.main
  BY <1>2 DEF LocalFit
<1>4. PICK x \in Tables : x = hashes[h] /\ Capacity(h) = Slots(x)
  BY <1>2, HashIs
<1>5. PICK i : i = l.index % Slots(x)
  OBVIOUS
<1>6. /\ DOMAIN x.key = 0 .. Slots(x) - 1 /\ Slots(x) \in Nat \ {0}
      /\ x.key \in [0 .. Slots(x) - 1 -> Ids] /\ x.value \in [0 .. Slots(x) - 1 -> Nat]
      /\ x = [key |-> x.key, value |-> x.value]
  BY TableIs
<1>7. i \in DOMAIN x.key /\ x.key[i] \in {Vacant, Reusable} /\ Reached(x, t, i) /\ l.mine \in listeners[t]
  <2>1. l.index \in Nat
    BY <1>2 DEF ThreadType
  <2>2. i \in 0 .. Slots(x) - 1
    BY <1>5, <1>6, <2>1, ModRange
  <2> QED BY <1>1, <1>2, <1>3, <1>4, <1>5, <1>6, <2>2 DEF LocalFit, Slot
<1>8. l.mine \in Nat /\ listeners[t] \subseteq 1 .. producerCount
  BY <1>2 DEF ThreadType, ProducersTypes
<1>9. PICK y : y = [key |-> [x.key EXCEPT ![i] = t], value |-> [x.value EXCEPT ![i] = l.mine]]
  OBVIOUS
<1>10. /\ y.key \in [0 .. Slots(x) - 1 -> Ids] /\ y.value \in [0 .. Slots(x) - 1 -> Nat]
       /\ y \in [key : [0 .. Slots(x) - 1 -> Ids], value : [0 .. Slots(x) - 1 -> Nat]]
       /\ y.key[i] = t /\ y.value[i] = l.mine
       /\ \A j \in DOMAIN x.key : j # i => y.key[j] = x.key[j] /\ y.value[j] = x.value[j]
  BY <1>6, <1>7, <1>8, <1>9 DEF Ids
<1>11. y \in Tables
  BY <1>6, <1>10 DEF Tables
<1>12. hashes' = [hashes EXCEPT ![h] = y]
  <2>1. hashes' = [hashes EXCEPT ![h] = [key |-> [x.key EXCEPT ![i] = t],
                                         value |-> [x.value EXCEPT ![i] = l.mine]]]
    <3>1. DOMAIN hashes = 1 .. Main /\ hashes[h] = [key |-> x.key, value |-> x.value]
      BY <1>2, <1>4, <1>6, HashesAre
    <3>2. hashes' = [hashes EXCEPT ![h].key[i] = t, ![h].value[i] = l.mine]
      BY <1>1, <1>3, <1>4, <1>5 DEF ClaimSlot
    <3>3. PICK a : a = [hashes EXCEPT ![h].key[i] = t]
      OBVIOUS
    <3>4. a[h] = [key |-> [x.key EXCEPT ![i] = t], value |-> x.value] /\ DOMAIN a = DOMAIN hashes
      BY <3>1, <3>3
    <3>5. hashes' = [a EXCEPT ![h] = [a[h] EXCEPT !.value = [a[h].value EXCEPT ![i] = l.mine]]]
      BY <3>2, <3>3
    <3>6. [a[h] EXCEPT !.value = [a[h].value EXCEPT ![i] = l.mine]] =
            [key |-> [x.key EXCEPT ![i] = t], value |-> [x.value EXCEPT ![i] = l.mine]]
      BY <3>4
    <3>7. \A g \in DOMAIN hashes : g # h => a[g] = hashes[g]
      BY <3>3
    <3> QED BY <3>1, <3>4, <3>5, <3>6, <3>7, <3>3
  <2> QED BY <1>9, <2>1
<1>13. TableGrows(x, y, t)
  BY <1>6, <1>7, <1>10, ProducersAssumption DEF TableGrows
<1>14. IdFits(y, t, listeners[t])
  <2>1. TableFits(x)
    BY <1>2, <1>4
  <2>2. ASSUME NEW j \in DOMAIN y.key, y.key[j] = t
        PROVE  Reached(y, t, j) /\ y.value[j] \in listeners[t]
    <3>1. j \in DOMAIN x.key /\ DOMAIN y.key = DOMAIN x.key
      BY <1>6, <1>10
    <3>2. Reached(x, t, j) /\ y.value[j] \in listeners[t]
      BY <1>7, <1>10, <2>1, <2>2, <3>1 DEF TableFits
    <3> QED BY <1>13, <3>2, GrowsReached
  <2> QED BY <2>2 DEF IdFits
<1>15. PICK m : m = [l EXCEPT !.pc = "put"]
  OBVIOUS
<1>16. th' = [th EXCEPT ![t] = m] /\ m \in ThreadType /\ m.pc = "put" /\ m.mine = l.mine
  BY <1>1, <1>2, <1>15 DEF Go, ThreadType, ThreadPcs
<1>17. th'[t] = m /\ listeners' = listeners /\ owned' = owned /\ prod' = prod
  BY <1>2, <1>16 DEF ProducersTypes
<1>18. LocalsFit(t)'
  BY <1>7, <1>16, <1>17 DEF LocalsFit, LocalFit, Searching, Getting
<1>19. OwnsFit(t)'
  <2>1. Main' = Main /\ hashes'[h] = y
    <3>1. DOMAIN hashes = 1 .. Main /\ hashes \in Seq(Tables) /\ Len(hashes) = Main
      BY <1>2, HashesAre DEF ProducersTypes, Main
    <3> QED BY <1>11, <1>12, <3>1, ExceptSeq DEF Main
  <2>2. HasKey(y, t)
    BY <1>6, <1>7, <1>10 DEF HasKey
  <2>3. \E g \in 1 .. Main' : HasKey(hashes'[g], t)
    BY <2>1, <2>2
  <2> QED BY <1>2, <1>17, <2>3 DEF OwnsFit
<1>20. \A q \in 1 .. producerCount : Having(m, q) <=> Having(th[t], q)
  BY <1>1, <1>2, <1>16 DEF Having
<1> QED BY <1>4, <1>11, <1>12, <1>13, <1>14, <1>16, <1>18, <1>19, <1>20, TableStep
LEMMA SearchSlot ==
    ASSUME ProducersInv, NEW t \in Threads, CopyToMain(t) \/ Insert(t)
    PROVE  ProducersInv'
<1>1. th[t].pc \in {"copy", "insert"} /\ UNCHANGED <<listVars, prod, owned, listeners>>
  BY DEF CopyToMain, Insert, ThreadAt
<1>2. hashCount' \in Int
  BY Before DEF CopyToMain, Insert
<1>3. CASE Slot(t) \in {Vacant, Reusable}
  <2>1. ClaimSlot(t) /\ Go(t, [th[t] EXCEPT !.pc = "put"])
    BY <1>3 DEF CopyToMain, Insert
  <2> QED BY <1>1, <1>2, <1>3, <2>1, ClaimKeeps
<1>4. CASE Slot(t) \notin {Vacant, Reusable}
  <2>1. Go(t, NextSlot(t)) /\ hashes' = hashes
    BY <1>4 DEF CopyToMain, Insert
  <2> QED BY <1>1, <1>2, <1>4, <2>1, NextSlotKeeps
<1> QED BY <1>3, <1>4

(* A thread that ends leaves a table.                                        *)
LEMMA LeaveKeeps ==
    ASSUME ProducersInv, NEW t \in Threads, LeaveTable(t)
    PROVE  ProducersInv'
<1>1. PICK l : l = th[t]
  OBVIOUS
<1>2. /\ l \in ThreadType /\ LocalFit(t, l) /\ l.pc = "exit" /\ OwnsFit(t) /\ hashCount \in Int
      /\ Main \in Nat \ {0} /\ ProducersTypes /\ DOMAIN hashes = 1 .. Main
      /\ \A g \in 1 .. Main : hashes[g] \in Tables /\ TableFits(hashes[g])
  BY <1>1, Before, HashesAre DEF LeaveTable, ThreadAt
<1>3. PICK h \in 1 .. Main : h = l.main
  BY <1>1, <1>2 DEF LocalFit, LeaveTable
<1>4. PICK x \in Tables : x = hashes[h]
  BY <1>2
<1>5. /\ DOMAIN x.key = 0 .. Slots(x) - 1 /\ Slots(x) \in Nat \ {0}
      /\ x.key \in [0 .. Slots(x) - 1 -> Ids] /\ x.value \in [0 .. Slots(x) - 1 -> Nat]
      /\ x = [key |-> x.key, value |-> x.value]
  BY TableIs
<1>6. PICK k : k = [i \in DOMAIN x.key |-> IF x.key[i] = t THEN Reusable ELSE x.key[i]]
  OBVIOUS
<1>7. PICK y : y = [key |-> k, value |-> x.value]
  OBVIOUS
<1>8. y.key = k /\ y.value = x.value /\ k \in [0 .. Slots(x) - 1 -> Ids]
  BY <1>5, <1>6, <1>7 DEF Ids
<1>9. y \in Tables
  BY <1>5, <1>7, <1>8 DEF Tables
<1>10. TableGrows(x, y, t)
  BY <1>5, <1>6, <1>8, ProducersAssumption DEF TableGrows
<1>11. ~HasKey(y, t)
  BY <1>5, <1>6, <1>8, ProducersAssumption DEF HasKey
<1>12. hashes' = [hashes EXCEPT ![h] = y]
  <2>1. CASE Finds(h, t) = 0
    <3>1. ~HasKey(x, t)
      BY <1>2, <1>4, <2>1, FindsIs
    <3>2. k = x.key
      <4>1. \A i \in DOMAIN x.key : k[i] = x.key[i]
        BY <1>6, <3>1 DEF HasKey
      <4> QED BY <1>5, <1>6, <4>1
    <3>3. y = hashes[h]
      BY <1>4, <1>5, <1>7, <3>2
    <3>4. hashes' = hashes
      BY <1>1, <1>3, <2>1 DEF LeaveTable
    <3> QED BY <1>2, <3>3, <3>4 DEF ProducersTypes
  <2>2. CASE Finds(h, t) # 0
    <3>1. hashes' = [hashes EXCEPT ![h].key = k]
      BY <1>1, <1>2, <1>3, <1>4, <1>6, <2>2 DEF LeaveTable
    <3>2. [hashes[h] EXCEPT !.key = k] = y
      BY <1>4, <1>5, <1>7
    <3> QED BY <3>1, <3>2
  <2> QED BY <2>1, <2>2
<1>13. PICK m : m = [l EXCEPT !.main = h - 1]
  OBVIOUS
<1>14. th' = [th EXCEPT ![t] = m]
  BY <1>1, <1>3, <1>13 DEF Go, LeaveTable
<1>15. m \in ThreadType /\ m.pc = "exit" /\ m.main = h - 1 /\ m.mine = l.mine
  BY <1>2, <1>13 DEF ThreadType, ThreadPcs
<1>16. /\ th'[t] = m /\ listeners' = listeners /\ owned' = owned /\ prod' = prod /\ hashCount' \in Int
       /\ UNCHANGED <<listVars, prod, owned, listeners>>
  BY <1>2, <1>14 DEF ProducersTypes, LeaveTable
<1>17. Main' = Main /\ hashes'[h] = y /\ \A g \in 1 .. Main : g # h => hashes'[g] = hashes[g]
  <2>1. hashes \in Seq(Tables) /\ Len(hashes) = Main
    BY <1>2 DEF ProducersTypes, Main
  <2> QED BY <1>2, <1>9, <1>12, <2>1, ExceptSeq DEF Main
<1>18. LocalsFit(t)'
  <2>1. \A g \in m.main + 1 .. Main' : ~HasKey(hashes'[g], t)
    BY <1>2, <1>3, <1>11, <1>15, <1>17 DEF LocalFit
  <2>2. m.main \in 0 .. Main'
    BY <1>2, <1>15, <1>17
  <2> QED BY <1>15, <1>16, <2>1, <2>2 DEF LocalsFit, LocalFit, Searching, Getting
<1>19. OwnsFit(t)'
  BY <1>2, <1>15, <1>16 DEF OwnsFit
<1>20. IdFits(y, t, listeners[t])
  BY <1>11 DEF IdFits, HasKey
<1>21. \A q \in 1 .. producerCount : Having(m, q) <=> Having(th[t], q)
  BY <1>1, <1>2, <1>15 DEF Having
<1> QED BY <1>4, <1>9, <1>10, <1>12, <1>14, <1>15, <1>16, <1>18, <1>19, <1>20, <1>21, TableStep

(* A larger table, in which there is nobody yet.                             *)
LEMMA EmptyTableIs ==
    ASSUME NEW n \in Nat \ {0}
    PROVE  EmptyTable(n) \in Tables /\ \A i \in DOMAIN EmptyTable(n).key : EmptyTable(n).key[i] = Vacant
<1>1. EmptyTable(n) \in [key : [0 .. n - 1 -> Ids], value : [0 .. n - 1 -> Nat]]
  BY DEF EmptyTable, Ids
<1>2. EmptyTable(n) \in Tables
  BY <1>1 DEF Tables
<1> QED BY <1>2 DEF EmptyTable

LEMMA NewTableKeeps ==
    ASSUME ProducersInv, NEW t \in Threads, NewTable(t)
    PROVE  ProducersInv'
<1>1. PICK l : l = th[t]
  OBVIOUS
<1>2. /\ l \in ThreadType /\ LocalFit(t, l) /\ l.pc = "double" /\ OwnsFit(t) /\ hashCount \in Int
      /\ Main \in Nat \ {0} /\ ProducersTypes /\ DOMAIN hashes = 1 .. Main
      /\ \A g \in 1 .. Main : hashes[g] \in Tables /\ TableFits(hashes[g])
  BY <1>1, Before, HashesAre DEF NewTable, ThreadAt
<1>3. l.capacity \in Nat \ {0} /\ ~l.explicit /\ l.index = HashOf[t] /\ listeners[t] = {}
  BY <1>2 DEF LocalFit, ThreadType, Searching
<1>4. PICK y \in Tables : y = EmptyTable(l.capacity) /\ \A i \in DOMAIN y.key : y.key[i] = Vacant
  BY <1>3, EmptyTableIs
<1>5. hashes' = Append(hashes, y)
  BY <1>1, <1>4 DEF NewTable
<1>6. /\ hashes' \in Seq(Tables) /\ Main' = Main + 1 /\ hashes' # <<>> /\ hashes'[Main + 1] = y
      /\ \A g \in 1 .. Main : hashes'[g] = hashes[g]
  <2>1. hashes \in Seq(Tables) /\ Len(hashes) = Main
    BY <1>2 DEF ProducersTypes, Main
  <2> QED BY <1>5, <2>1 DEF Main
<1>7. PICK m : m = [l EXCEPT !.pc = "add", !.main = Main + 1]
  OBVIOUS
<1>8. th' = [th EXCEPT ![t] = m]
  BY <1>1, <1>7 DEF NewTable, Go
<1>9. m \in ThreadType /\ m.pc = "add" /\ m.main = Main + 1 /\ m.index = l.index /\ ~m.explicit
  <2>1. PICK n \in Nat : n = Main + 1
    BY <1>2
  <2> QED BY <1>2, <1>3, <1>7, <2>1 DEF ThreadType, ThreadPcs, Searching
<1>10. /\ producerList' = producerList /\ producerCount' = producerCount /\ prod' = prod
       /\ owned' = owned /\ listeners' = listeners /\ hashCount' = hashCount
  BY DEF NewTable, listVars
<1>11. th'[t] = m /\ (\A u \in Threads : u # t => th'[u] = th[u]) /\ th' \in [Threads -> ThreadType]
  BY <1>2, <1>8, <1>9 DEF ProducersTypes
<1>12. ProducersTypes'
  BY <1>2, <1>6, <1>10, <1>11 DEF ProducersTypes
<1>13. OnlyBy(t)
  <2>1. \A g \in 1 .. Main : TableGrows(hashes[g], hashes'[g], t)
    BY <1>6, GrowsSelf
  <2>2. Main <= Main' /\ producerCount <= producerCount'
    BY <1>2, <1>6, <1>10 DEF ProducersTypes
  <2>3. \A g \in Main + 1 .. Main' : \A i \in DOMAIN hashes'[g].key : hashes'[g].key[i] = Vacant
    <3> SUFFICES ASSUME NEW g \in Main + 1 .. Main'
                 PROVE  \A i \in DOMAIN hashes'[g].key : hashes'[g].key[i] = Vacant
      OBVIOUS
    <3>1. g = Main + 1
      BY <1>2, <1>6
    <3> QED BY <1>4, <1>6, <3>1
  <2> QED BY <1>10, <1>11, <2>1, <2>2, <2>3 DEF OnlyBy
<1>14. \A g \in 1 .. Main' : IdFits(hashes'[g], t, listeners'[t])
  <2> SUFFICES ASSUME NEW g \in 1 .. Main' PROVE IdFits(hashes'[g], t, listeners'[t])
    OBVIOUS
  <2>1. CASE g \in 1 .. Main
    <3>1. TableFits(hashes[g]) /\ hashes'[g] = hashes[g]
      BY <1>2, <1>6, <2>1
    <3> QED BY <1>10, <3>1 DEF TableFits, IdFits
  <2>2. CASE g \notin 1 .. Main
    <3>1. hashes'[g] = y
      BY <1>2, <1>6, <2>2
    <3> QED BY <1>4, <3>1, ProducersAssumption DEF IdFits
  <2> QED BY <2>1, <2>2
<1>15. LocalsFit(t)'
  BY <1>2, <1>3, <1>6, <1>9, <1>10, <1>11 DEF LocalsFit, LocalFit, Searching, Getting
<1>16. OwnsFit(t)'
  BY <1>2, <1>3, <1>10 DEF OwnsFit
<1>17. \A q \in 1 .. producerCount' : UsedOnce(q)'
  <2>1. ASSUME NEW u \in Threads, NEW q \in 1 .. producerCount PROVE Uses(u, q)' <=> Uses(u, q)
    <3>1. Having(th'[u], q) <=> Having(th[u], q)
      BY <1>1, <1>2, <1>9, <1>11 DEF Having
    <3> QED BY <1>10, <3>1 DEF Uses, Having
  <2> QED BY <1>10, <2>1, SameUse
<1> QED BY <1>12, <1>13, <1>14, <1>15, <1>16, <1>17, StepFits
(* A step in which the users of a producer may change.                      *)
LEMMA UseStep ==
    ASSUME ProducersInv, ProducersTypes', NEW t \in Threads, hashes' = hashes,
           producerCount <= producerCount',
           \A q \in 1 .. producerCount : prod'[q].explicit = prod[q].explicit,
           \A i \in DOMAIN producerList : \E j \in DOMAIN producerList' : producerList'[j] = producerList[i],
           \A u \in Threads : u # t =>
             th'[u] = th[u] /\ owned'[u] = owned[u] /\ listeners'[u] = listeners[u],
           listeners[t] \subseteq listeners'[t] \/ \A h \in 1 .. Main : ~HasKey(hashes[h], t),
           LocalsFit(t)', OwnsFit(t)', \A q \in 1 .. producerCount' : UsedOnce(q)'
    PROVE  ProducersInv'
<1>1. Main' = Main /\ Main \in Nat \ {0}
  BY HashesAre DEF Main, ProducersInv
<1>2. OnlyBy(t)
  <2>1. \A g \in 1 .. Main : TableGrows(hashes[g], hashes'[g], t)
    BY GrowsSelf
  <2>2. Main + 1 .. Main' = {} /\ Main <= Main'
    BY <1>1
  <2> QED BY <2>1, <2>2 DEF OnlyBy
<1>3. \A g \in 1 .. Main' : IdFits(hashes'[g], t, listeners'[t])
  BY <1>1 DEF ProducersInv, TableFits, IdFits, HasKey
<1> QED BY <1>2, <1>3, StepFits

KindsFit(x, n) ==
    /\ x = [q \in 1 .. n |-> [explicit |-> x[q].explicit, inactive |-> x[q].inactive, items |-> x[q].items]]
    /\ \A q \in 1 .. n : x[q].explicit \in BOOLEAN /\ x[q].inactive \in BOOLEAN

(* Producers get or lose their users.                                        *)
LEMMA InactiveOnly ==
    ASSUME ProducersTypes, NEW S, NEW b \in BOOLEAN,
           prod' = [w \in DOMAIN prod |-> IF w \in S THEN [prod[w] EXCEPT !.inactive = b] ELSE prod[w]]
    PROVE  /\ KindsFit(prod', producerCount)
           /\ \A w \in 1 .. producerCount :
                /\ prod'[w].explicit = prod[w].explicit
                /\ w \notin S => prod'[w].inactive = prod[w].inactive
                /\ w \in S => prod'[w].inactive = b
<1>1. /\ DOMAIN prod = 1 .. producerCount
      /\ \A w \in 1 .. producerCount :
           /\ prod[w] = [explicit |-> prod[w].explicit, inactive |-> prod[w].inactive, items |-> prod[w].items]
           /\ prod[w].explicit \in BOOLEAN /\ prod[w].inactive \in BOOLEAN
  BY DEF ProducersTypes
<1>2. DOMAIN prod' = 1 .. producerCount /\ prod' = [w \in 1 .. producerCount |-> prod'[w]]
  BY <1>1
<1>3. ASSUME NEW w \in 1 .. producerCount
      PROVE  prod'[w] = [explicit |-> prod[w].explicit, items |-> prod[w].items,
                         inactive |-> IF w \in S THEN b ELSE prod[w].inactive]
  <2>1. CASE w \in S
    <3>1. prod'[w] = [prod[w] EXCEPT !.inactive = b]
      BY <1>1, <2>1
    <3> QED BY <1>1, <2>1, <3>1
  <2>2. CASE w \notin S
    <3>1. prod'[w] = prod[w]
      BY <1>1, <2>2
    <3> QED BY <1>1, <2>2, <3>1
  <2> QED BY <2>1, <2>2
<1>4. ASSUME NEW w \in 1 .. producerCount
      PROVE  /\ prod'[w] = [explicit |-> prod'[w].explicit, inactive |-> prod'[w].inactive,
                            items |-> prod'[w].items]
             /\ prod'[w].explicit = prod[w].explicit /\ prod'[w].explicit \in BOOLEAN
             /\ prod'[w].inactive = (IF w \in S THEN b ELSE prod[w].inactive)
             /\ prod'[w].inactive \in BOOLEAN
  BY <1>1, <1>3
<1> QED BY <1>2, <1>4 DEF KindsFit

(* A new producer comes behind the others.                                   *)
LEMMA AppendTo ==
    ASSUME NEW n \in Nat, NEW f, f = [w \in 1 .. n |-> f[w]], NEW e
    PROVE  /\ Append(f, e) = [w \in 1 .. n + 1 |-> Append(f, e)[w]] /\ Append(f, e)[n + 1] = e
           /\ \A w \in 1 .. n : Append(f, e)[w] = f[w]
<1> DEFINE S == {f[w] : w \in 1 .. n} \cup {e}
<1>1. f \in [1 .. n -> S]
  OBVIOUS
<1> HIDE DEF S
<1>2. f \in Seq(S) /\ Len(f) = n
  BY <1>1
<1>3. e \in S
  BY DEF S
<1>4. PICK x : x = Append(f, e)
  OBVIOUS
<1>5. x \in Seq(S) /\ Len(x) = n + 1 /\ x[n + 1] = e /\ \A w \in 1 .. n : x[w] = f[w]
  BY <1>2, <1>3, <1>4
<1>6. x = [w \in 1 .. n + 1 |-> x[w]]
  BY <1>5, LenProperties
<1> QED BY <1>4, <1>5, <1>6

LEMMA RecycleTakes ==
    ASSUME ProducersInv, NEW t \in Threads, Recycle(t),
           prod[th[t].at].inactive, prod[th[t].at].explicit = th[t].explicit
    PROVE  ProducersInv'
<1>1. PICK l, q : l = th[t] /\ q = l.at
  OBVIOUS
<1>2. /\ l \in ThreadType /\ LocalFit(t, l) /\ l.pc = "recycle" /\ q # 0 /\ OwnsFit(t)
      /\ ProducersTypes /\ prod[q].inactive /\ prod[q].explicit = l.explicit /\ producerCount \in Nat
  BY <1>1, Before DEF Recycle, ThreadAt
<1>3. q \in 1 .. producerCount /\ q \in Nat
  <2>1. PICK i \in DOMAIN producerList : producerList[i] = q
    BY <1>1, <1>2 DEF LocalFit
  <2> QED BY <1>2, <2>1, LenProperties DEF ProducersTypes
<1>4. PICK m : m = [l EXCEPT !.pc = "have", !.mine = q]
  OBVIOUS
<1>5. /\ th' = [th EXCEPT ![t] = m] /\ prod' = [prod EXCEPT ![q].inactive = FALSE]
      /\ UNCHANGED <<listVars, hashVars, owned, listeners>>
  BY <1>1, <1>2, <1>4 DEF Recycle, Go
<1>6. /\ m \in ThreadType /\ m.pc = "have" /\ m.mine = q /\ m.explicit = l.explicit
      /\ m.index = l.index /\ m.main = l.main
  BY <1>2, <1>3, <1>4 DEF ThreadType, ThreadPcs, Getting
<1>7. th'[t] = m /\ (\A u \in Threads : u # t => th'[u] = th[u]) /\ th' \in [Threads -> ThreadType]
  BY <1>2, <1>5, <1>6 DEF ProducersTypes
<1>8. /\ producerList' = producerList /\ producerCount' = producerCount /\ hashes' = hashes
      /\ hashCount' = hashCount /\ owned' = owned /\ listeners' = listeners /\ Main' = Main
  BY <1>5 DEF listVars, hashVars, Main
<1>9. prod' = [w \in DOMAIN prod |-> IF w \in {q} THEN [prod[w] EXCEPT !.inactive = FALSE] ELSE prod[w]]
  BY <1>2, <1>5 DEF ProducersTypes
<1>10. /\ KindsFit(prod', producerCount)
       /\ \A w \in 1 .. producerCount : /\ prod'[w].explicit = prod[w].explicit
                                        /\ w # q => prod'[w].inactive = prod[w].inactive
                                        /\ w = q => ~prod'[w].inactive
  BY <1>2, <1>9, InactiveOnly
<1>11. ProducersTypes'
  BY <1>2, <1>7, <1>8, <1>10 DEF ProducersTypes, KindsFit
<1>12. LocalsFit(t)'
  BY <1>2, <1>3, <1>6, <1>7, <1>8, <1>10 DEF LocalsFit, LocalFit, Searching, Getting
<1>13. OwnsFit(t)'
  <2>1. owned[t] \in 0 .. producerCount /\ listeners[t] \subseteq 1 .. producerCount
    BY <1>2 DEF ProducersTypes
  <2> QED BY <1>1, <1>2, <1>6, <1>7, <1>8, <1>10, <2>1 DEF OwnsFit
<1>14. \A w \in 1 .. producerCount' : UsedOnce(w)'
  <2> SUFFICES ASSUME NEW w \in 1 .. producerCount PROVE UsedOnce(w)'
    BY <1>8
  <2>1. UsedOnce(w)
    BY DEF ProducersInv
  <2>2. \A u \in Threads : Uses(u, w)' <=> (Uses(u, w) \/ (u = t /\ w = q))
    <3> TAKE u \in Threads
    <3>1. Having(th'[u], w) <=> Having(th[u], w) \/ (u = t /\ w = q)
      BY <1>1, <1>2, <1>6, <1>7 DEF Having
    <3> QED BY <1>8, <3>1 DEF Uses, Having
  <2>3. w = q => \A u \in Threads : ~Uses(u, w)
    BY <1>2, <2>1 DEF UsedOnce
  <2>4. w # q => prod'[w].inactive = prod[w].inactive
    BY <1>10
  <2>5. w = q => ~prod'[w].inactive
    BY <1>10
  <2>6. CASE w = q
    BY <2>2, <2>3, <2>5, <2>6 DEF UsedOnce
  <2>7. CASE w # q
    BY <2>1, <2>2, <2>4, <2>7 DEF UsedOnce
  <2> QED BY <2>6, <2>7
<1>15. producerCount <= producerCount' /\ listeners[t] \subseteq listeners'[t]
  BY <1>2, <1>8
<1> QED BY <1>7, <1>8, <1>10, <1>11, <1>12, <1>13, <1>14, <1>15, UseStep
LEMMA CreateKeeps ==
    ASSUME ProducersInv, NEW t \in Threads, Create(t)
    PROVE  ProducersInv'
<1>1. PICK l : l = th[t]
  OBVIOUS
<1>2. /\ l \in ThreadType /\ LocalFit(t, l) /\ l.pc = "recycle" /\ OwnsFit(t) /\ l.explicit \in BOOLEAN
      /\ ProducersTypes /\ producerCount \in Nat
  BY <1>1, Before DEF Create, ThreadAt, ThreadType
<1>3. PICK n \in Nat : n = producerCount + 1
  BY <1>2
<1>4. PICK e : e = [explicit |-> l.explicit, inactive |-> FALSE, items |-> 0]
  OBVIOUS
<1>5. PICK m : m = [l EXCEPT !.pc = "push", !.mine = n]
  OBVIOUS
<1>6. /\ th' = [th EXCEPT ![t] = m] /\ prod' = Append(prod, e) /\ producerCount' = n
      /\ UNCHANGED <<producerList, hashVars, owned, listeners>>
  BY <1>1, <1>3, <1>4, <1>5 DEF Create, Go
<1>7. /\ m \in ThreadType /\ m.pc = "push" /\ m.mine = n /\ m.explicit = l.explicit
      /\ m.index = l.index /\ m.main = l.main
  BY <1>2, <1>5 DEF ThreadType, ThreadPcs, Getting
<1>8. th'[t] = m /\ (\A u \in Threads : u # t => th'[u] = th[u]) /\ th' \in [Threads -> ThreadType]
  BY <1>2, <1>6, <1>7 DEF ProducersTypes
<1>9. /\ producerList' = producerList /\ hashes' = hashes /\ hashCount' = hashCount
      /\ owned' = owned /\ listeners' = listeners /\ Main' = Main
      /\ 1 .. producerCount \subseteq 1 .. n /\ 0 .. producerCount \subseteq 0 .. n /\ n \in 1 .. n
  BY <1>2, <1>3, <1>6 DEF hashVars, Main
<1>10. /\ prod' = [w \in 1 .. n |-> prod'[w]] /\ prod'[n] = e
       /\ \A w \in 1 .. producerCount : prod'[w] = prod[w]
  <2>1. prod = [w \in 1 .. producerCount |-> prod[w]]
    BY <1>2 DEF ProducersTypes
  <2> QED BY <1>2, <1>3, <1>6, <2>1, AppendTo
<1>11. KindsFit(prod', n) /\ \A w \in 1 .. producerCount : prod'[w].explicit = prod[w].explicit
  <2>1. ASSUME NEW w \in 1 .. n
        PROVE  /\ prod'[w] = [explicit |-> prod'[w].explicit, inactive |-> prod'[w].inactive,
                              items |-> prod'[w].items]
               /\ prod'[w].explicit \in BOOLEAN /\ prod'[w].inactive \in BOOLEAN
    <3>1. CASE w = n
      <4>1. /\ e = [explicit |-> e.explicit, inactive |-> e.inactive, items |-> e.items]
            /\ e.explicit \in BOOLEAN /\ e.inactive \in BOOLEAN
        BY <1>2, <1>4
      <4> QED BY <1>10, <3>1, <4>1
    <3>2. CASE w # n
      <4>1. w \in 1 .. producerCount
        BY <1>2, <1>3, <3>2
      <4> QED BY <1>2, <1>10, <4>1 DEF ProducersTypes
    <3> QED BY <3>1, <3>2
  <2> QED BY <1>10, <2>1 DEF KindsFit
<1>12. ProducersTypes'
  <2>1. producerList \in Seq(1 .. n)
    <3>1. producerList \in Seq(1 .. producerCount)
      BY <1>2 DEF ProducersTypes
    <3> QED BY <1>9, <3>1, SeqMonotonic
  <2>2. owned' \in [Threads -> 0 .. n] /\ listeners' \in [Threads -> SUBSET (1 .. n)]
    BY <1>2, <1>9 DEF ProducersTypes
  <2>3. hashes' \in Seq(Tables) /\ hashes' # <<>> /\ hashCount' \in Int
    BY <1>2, <1>9 DEF ProducersTypes
  <2> QED BY <1>3, <1>6, <1>8, <1>9, <1>11, <2>1, <2>2, <2>3 DEF ProducersTypes, KindsFit
<1>13. LocalsFit(t)'
  <2>1. prod'[n].explicit = l.explicit
    BY <1>4, <1>10
  <2> QED BY <1>2, <1>6, <1>7, <1>8, <1>9, <2>1 DEF LocalsFit, LocalFit, Searching, Getting
<1>14. OwnsFit(t)'
  <2>1. owned[t] \in 0 .. producerCount /\ listeners[t] \subseteq 1 .. producerCount
    BY <1>2 DEF ProducersTypes
  <2> QED BY <1>1, <1>2, <1>7, <1>8, <1>9, <1>11, <2>1 DEF OwnsFit
<1>15. \A w \in 1 .. producerCount' : UsedOnce(w)'
  <2> SUFFICES ASSUME NEW w \in 1 .. n PROVE UsedOnce(w)'
    BY <1>6
  <2>1. \A u \in Threads : Uses(u, w)' <=> (Uses(u, w) \/ (u = t /\ w = n))
    <3> TAKE u \in Threads
    <3>1. Having(th'[u], w) <=> Having(th[u], w) \/ (u = t /\ w = n)
      BY <1>1, <1>2, <1>7, <1>8 DEF Having
    <3> QED BY <1>9, <3>1 DEF Uses, Having
  <2>2. CASE w = n
    <3>1. ASSUME NEW u \in Threads PROVE ~Uses(u, n)
      <4>1. n \notin listeners[u] /\ owned[u] # n
        BY <1>2, <1>3 DEF ProducersTypes
      <4>2. ~Having(th[u], n)
        BY <1>2, <1>3, Before DEF Having, LocalFit
      <4> QED BY <4>1, <4>2 DEF Uses
    <3>2. ~prod'[n].inactive
      BY <1>4, <1>10
    <3> QED BY <2>1, <2>2, <3>1, <3>2 DEF UsedOnce
  <2>3. CASE w # n
    <3>1. w \in 1 .. producerCount
      BY <1>2, <1>3, <2>3
    <3>2. UsedOnce(w) /\ prod'[w] = prod[w]
      BY <1>10, <3>1 DEF ProducersInv
    <3> QED BY <2>1, <2>3, <3>2 DEF UsedOnce
  <2> QED BY <2>2, <2>3
<1>16. producerCount <= producerCount' /\ listeners[t] \subseteq listeners'[t]
  BY <1>2, <1>3, <1>6, <1>9
<1> QED BY <1>8, <1>9, <1>11, <1>12, <1>13, <1>14, <1>15, <1>16, UseStep

LEMMA PushKeeps ==
    ASSUME ProducersInv, NEW t \in Threads, Push(t)
    PROVE  ProducersInv'
<1>1. PICK l : l = th[t]
  OBVIOUS
<1>2. /\ l \in ThreadType /\ LocalFit(t, l) /\ l.pc = "push" /\ OwnsFit(t)
      /\ ProducersTypes /\ producerCount \in Nat /\ l.mine \in 1 .. producerCount
  BY <1>1, Before DEF Push, ThreadAt, LocalFit
<1>3. PICK m : m = [l EXCEPT !.pc = "have"]
  OBVIOUS
<1>4. /\ th' = [th EXCEPT ![t] = m] /\ producerList' = <<l.mine>> \o producerList
      /\ UNCHANGED <<producerCount, prod, hashVars, owned, listeners>>
  BY <1>1, <1>3 DEF Push, Go
<1>5. /\ m \in ThreadType /\ m.pc = "have" /\ m.mine = l.mine /\ m.explicit = l.explicit
      /\ m.index = l.index /\ m.main = l.main
  BY <1>2, <1>3 DEF ThreadType, ThreadPcs, Getting
<1>6. th'[t] = m /\ (\A u \in Threads : u # t => th'[u] = th[u]) /\ th' \in [Threads -> ThreadType]
  BY <1>2, <1>4, <1>5 DEF ProducersTypes
<1>7. /\ producerCount' = producerCount /\ prod' = prod /\ hashes' = hashes /\ hashCount' = hashCount
      /\ owned' = owned /\ listeners' = listeners /\ Main' = Main
  BY <1>4 DEF hashVars, Main
<1>8. /\ producerList' \in Seq(1 .. producerCount)
      /\ \A i \in DOMAIN producerList : \E j \in DOMAIN producerList' : producerList'[j] = producerList[i]
  <2>1. producerList \in Seq(1 .. producerCount) /\ <<l.mine>> \in Seq(1 .. producerCount) /\ Len(<<l.mine>>) = 1
    BY <1>2 DEF ProducersTypes
  <2>2. /\ producerList' \in Seq(1 .. producerCount) /\ Len(producerList') = 1 + Len(producerList)
        /\ \A i \in 1 .. 1 + Len(producerList) :
             producerList'[i] = IF i <= 1 THEN <<l.mine>>[i] ELSE producerList[i - 1]
    BY <1>4, <2>1, ConcatProperties
  <2>3. DOMAIN producerList = 1 .. Len(producerList) /\ Len(producerList) \in Nat
    BY <2>1, LenProperties
  <2>4. DOMAIN producerList' = 1 .. Len(producerList')
    BY <2>2, LenProperties
  <2>5. ASSUME NEW i \in DOMAIN producerList
        PROVE  \E j \in DOMAIN producerList' : producerList'[j] = producerList[i]
    <3>1. PICK j \in Nat : j = i + 1
      BY <2>3
    <3>2. i \in 1 .. Len(producerList)
      BY <2>3
    <3>3. ~(j <= 1) /\ j - 1 = i /\ j \in 1 .. 1 + Len(producerList)
      BY <2>3, <3>1, <3>2
    <3>4. j \in DOMAIN producerList'
      BY <2>2, <2>4, <3>3
    <3> QED BY <2>2, <3>3, <3>4
  <2> QED BY <2>2, <2>5
<1>9. ProducersTypes'
  BY <1>2, <1>6, <1>7, <1>8 DEF ProducersTypes
<1>10. LocalsFit(t)'
  BY <1>2, <1>5, <1>6, <1>7 DEF LocalsFit, LocalFit, Searching, Getting
<1>11. OwnsFit(t)'
  BY <1>1, <1>2, <1>5, <1>6, <1>7 DEF OwnsFit
<1>12. \A w \in 1 .. producerCount' : UsedOnce(w)'
  <2>1. ASSUME NEW u \in Threads, NEW q \in 1 .. producerCount PROVE Uses(u, q)' <=> Uses(u, q)
    <3>1. Having(th'[u], q) <=> Having(th[u], q)
      BY <1>1, <1>2, <1>5, <1>6 DEF Having
    <3> QED BY <1>7, <3>1 DEF Uses, Having
  <2> QED BY <1>7, <2>1, SameUse
<1>13. producerCount <= producerCount' /\ listeners[t] \subseteq listeners'[t]
  BY <1>2, <1>7
<1> QED BY <1>6, <1>7, <1>8, <1>9, <1>10, <1>11, <1>12, <1>13, UseStep
LEMMA TokenKeeps ==
    ASSUME ProducersInv, NEW t \in Threads, TakeToken(t)
    PROVE  ProducersInv'
<1>1. PICK l, q : l = th[t] /\ q = l.mine
  OBVIOUS
<1>2. /\ LocalFit(t, l) /\ l.pc = "have" /\ OwnsFit(t) /\ l.explicit /\ ProducersTypes
      /\ producerCount \in Nat /\ q \in 1 .. producerCount /\ prod[q].explicit /\ owned[t] = 0
  BY <1>1, Before DEF TakeToken, ThreadAt, LocalFit, Getting
<1>3. th' = [th EXCEPT ![t] = Rest] /\ owned' = [owned EXCEPT ![t] = q]
      /\ UNCHANGED <<listVars, prod, hashVars, listeners>>
  BY <1>1 DEF TakeToken, Go
<1>4. /\ th'[t] = Rest /\ (\A u \in Threads : u # t => th'[u] = th[u]) /\ th' \in [Threads -> ThreadType]
      /\ owned'[t] = q /\ (\A u \in Threads : u # t => owned'[u] = owned[u])
      /\ owned' \in [Threads -> 0 .. producerCount]
  BY <1>2, <1>3, RestIs DEF ProducersTypes
<1>5. /\ producerList' = producerList /\ producerCount' = producerCount /\ prod' = prod
      /\ hashes' = hashes /\ hashCount' = hashCount /\ listeners' = listeners /\ Main' = Main
  BY <1>3 DEF listVars, hashVars, Main
<1>6. ProducersTypes'
  BY <1>2, <1>4, <1>5 DEF ProducersTypes
<1>7. LocalsFit(t)'
  BY <1>4, RestIs DEF LocalsFit, LocalFit, Searching, Getting
<1>8. OwnsFit(t)'
  BY <1>1, <1>2, <1>4, <1>5 DEF OwnsFit
<1>9. \A w \in 1 .. producerCount' : UsedOnce(w)'
  <2>1. ASSUME NEW u \in Threads, NEW w \in 1 .. producerCount PROVE Uses(u, w)' <=> Uses(u, w)
    <3>1. CASE u = t
      BY <1>1, <1>2, <1>4, <1>5, <3>1, RestIs DEF Uses, Having
    <3>2. CASE u # t
      BY <1>4, <1>5, <3>2 DEF Uses, Having
    <3> QED BY <3>1, <3>2
  <2> QED BY <1>5, <2>1, SameUse
<1>10. producerCount <= producerCount' /\ listeners[t] \subseteq listeners'[t]
  BY <1>2, <1>5
<1> QED BY <1>4, <1>5, <1>6, <1>7, <1>8, <1>9, <1>10, UseStep

LEMMA SubscribeKeeps ==
    ASSUME ProducersInv, NEW t \in Threads, Subscribe(t)
    PROVE  ProducersInv'
<1>1. PICK l, q : l = th[t] /\ q = l.mine
  OBVIOUS
<1>2. /\ l \in ThreadType /\ l.pc = "have" /\ OwnsFit(t) /\ ~l.explicit /\ ProducersTypes
      /\ producerCount \in Nat /\ q \in 1 .. producerCount /\ ~prod[q].explicit
      /\ l.index = HashOf[t] /\ l.main \in 1 .. Main /\ listeners[t] = {}
      /\ hashes[l.main] \in Tables
  BY <1>1, Before DEF Subscribe, ThreadAt, LocalFit, Getting
<1>3. PICK m : m = [l EXCEPT !.pc = "insert"]
  OBVIOUS
<1>4. th' = [th EXCEPT ![t] = m] /\ listeners' = [listeners EXCEPT ![t] = @ \cup {q}]
      /\ UNCHANGED <<listVars, prod, hashVars, owned>>
  BY <1>1, <1>3 DEF Subscribe, Go
<1>5. /\ m \in ThreadType /\ m.pc = "insert" /\ m.mine = q /\ m.explicit = l.explicit
      /\ m.index = l.index /\ m.main = l.main
  BY <1>1, <1>2, <1>3 DEF ThreadType, ThreadPcs
<1>6. /\ th'[t] = m /\ (\A u \in Threads : u # t => th'[u] = th[u]) /\ th' \in [Threads -> ThreadType]
      /\ listeners'[t] = {q} /\ (\A u \in Threads : u # t => listeners'[u] = listeners[u])
      /\ listeners' \in [Threads -> SUBSET (1 .. producerCount)]
  BY <1>2, <1>4, <1>5 DEF ProducersTypes
<1>7. /\ producerList' = producerList /\ producerCount' = producerCount /\ prod' = prod
      /\ hashes' = hashes /\ hashCount' = hashCount /\ owned' = owned /\ Main' = Main
  BY <1>4 DEF listVars, hashVars, Main
<1>8. ProducersTypes'
  BY <1>2, <1>6, <1>7 DEF ProducersTypes
<1>9. LocalsFit(t)'
  <2>1. Reached(hashes[l.main], t, l.index % Slots(hashes[l.main]))
    BY <1>2, ReachedFirst
  <2> QED BY <1>2, <1>5, <1>6, <1>7, <2>1 DEF LocalsFit, LocalFit, Searching, Getting
<1>10. OwnsFit(t)'
  BY <1>1, <1>2, <1>5, <1>6, <1>7 DEF OwnsFit
<1>11. \A w \in 1 .. producerCount' : UsedOnce(w)'
  <2>1. ASSUME NEW u \in Threads, NEW w \in 1 .. producerCount PROVE Uses(u, w)' <=> Uses(u, w)
    <3>1. CASE u = t
      BY <1>1, <1>2, <1>5, <1>6, <1>7, <3>1 DEF Uses, Having
    <3>2. CASE u # t
      BY <1>6, <1>7, <3>2 DEF Uses, Having
    <3> QED BY <3>1, <3>2
  <2> QED BY <1>7, <2>1, SameUse
<1>12. producerCount <= producerCount' /\ listeners[t] \subseteq listeners'[t]
  BY <1>2, <1>7
<1> QED BY <1>6, <1>7, <1>8, <1>9, <1>10, <1>11, <1>12, UseStep

(* A producer that nobody has is inactive.                                   *)
LEMMA Released ==
    ASSUME ProducersInv, NEW t \in Threads, NEW S \in SUBSET (1 .. producerCount),
           \A w \in S : Uses(t, w), \A w \in 1 .. producerCount : Uses(t, w)' <=> Uses(t, w) /\ w \notin S,
           \A u \in Threads : u # t =>
             th'[u] = th[u] /\ owned'[u] = owned[u] /\ listeners'[u] = listeners[u],
           prod' = [w \in DOMAIN prod |-> IF w \in S THEN [prod[w] EXCEPT !.inactive = TRUE] ELSE prod[w]],
           producerCount' = producerCount
    PROVE  /\ KindsFit(prod', producerCount)
           /\ \A w \in 1 .. producerCount : prod'[w].explicit = prod[w].explicit
           /\ \A w \in 1 .. producerCount' : UsedOnce(w)'
<1>1. /\ KindsFit(prod', producerCount)
      /\ \A w \in 1 .. producerCount : /\ prod'[w].explicit = prod[w].explicit
                                       /\ w \notin S => prod'[w].inactive = prod[w].inactive
                                       /\ w \in S => prod'[w].inactive = TRUE
  BY InactiveOnly DEF ProducersInv
<1>2. ASSUME NEW w \in 1 .. producerCount PROVE UsedOnce(w)'
  <2>1. UsedOnce(w)
    BY DEF ProducersInv
  <2>2. \A u \in Threads : u # t => (Uses(u, w)' <=> Uses(u, w))
    BY DEF Uses, Having
  <2>3. CASE w \in S
    BY <1>1, <2>1, <2>2, <2>3 DEF UsedOnce
  <2>4. CASE w \notin S
    BY <1>1, <2>1, <2>2, <2>4 DEF UsedOnce
  <2> QED BY <2>3, <2>4
<1> QED BY <1>1, <1>2

LEMMA DropKeeps ==
    ASSUME ProducersInv, NEW t \in Threads, DropToken(t)
    PROVE  ProducersInv'
<1>1. PICK q : q = owned[t]
  OBVIOUS
<1>2. /\ LocalFit(t, th[t]) /\ th[t].pc = "idle" /\ OwnsFit(t) /\ ProducersTypes /\ producerCount \in Nat
      /\ q \in 1 .. producerCount /\ prod[q].explicit
      /\ \A w \in listeners[t] : ~prod[w].explicit
  <2>1. th[t].pc = "idle" /\ q # 0
    BY <1>1 DEF DropToken, ThreadAt
  <2>2. LocalFit(t, th[t]) /\ OwnsFit(t) /\ ProducersTypes /\ producerCount \in Nat
    BY Before
  <2>3. q \in 0 .. producerCount
    BY <1>1, <2>2 DEF ProducersTypes
  <2>4. prod[q].explicit /\ \A w \in listeners[t] : ~prod[w].explicit
    BY <1>1, <2>1, <2>2 DEF OwnsFit
  <2> QED BY <2>1, <2>2, <2>3, <2>4
<1>3. /\ prod' = [w \in DOMAIN prod |-> IF w \in {q} THEN [prod[w] EXCEPT !.inactive = TRUE] ELSE prod[w]]
      /\ owned' = [owned EXCEPT ![t] = 0] /\ UNCHANGED <<listVars, hashVars, th, listeners>>
  BY <1>1, <1>2 DEF DropToken, ProducersTypes
<1>4. /\ owned'[t] = 0 /\ (\A u \in Threads : u # t => owned'[u] = owned[u])
      /\ owned' \in [Threads -> 0 .. producerCount]
  BY <1>2, <1>3 DEF ProducersTypes
<1>5. /\ producerList' = producerList /\ producerCount' = producerCount /\ th' = th
      /\ hashes' = hashes /\ hashCount' = hashCount /\ listeners' = listeners /\ Main' = Main
  BY <1>3 DEF listVars, hashVars, Main
<1>6. /\ KindsFit(prod', producerCount)
      /\ \A w \in 1 .. producerCount : prod'[w].explicit = prod[w].explicit
      /\ \A w \in 1 .. producerCount' : UsedOnce(w)'
  <2>1. \A w \in {q} : Uses(t, w)
    BY <1>1 DEF Uses
  <2>2. \A w \in 1 .. producerCount : Uses(t, w)' <=> Uses(t, w) /\ w \notin {q}
    BY <1>1, <1>2, <1>4, <1>5 DEF Uses, Having
  <2>3. {q} \in SUBSET (1 .. producerCount)
    BY <1>2
  <2> QED BY <1>3, <1>4, <1>5, <2>1, <2>2, <2>3, Released
<1>7. ProducersTypes'
  BY <1>2, <1>4, <1>5, <1>6 DEF ProducersTypes, KindsFit
<1>8. LocalsFit(t)'
  BY <1>2, <1>5 DEF LocalsFit, LocalFit, Searching, Getting
<1>9. OwnsFit(t)'
  <2>1. listeners[t] \subseteq 1 .. producerCount
    BY <1>2 DEF ProducersTypes
  <2> QED BY <1>2, <1>4, <1>5, <1>6, <2>1 DEF OwnsFit
<1>10. producerCount <= producerCount' /\ listeners[t] \subseteq listeners'[t]
  BY <1>2, <1>5
<1> QED BY <1>4, <1>5, <1>6, <1>7, <1>8, <1>9, <1>10, UseStep

LEMMA LeaveProducerKeeps ==
    ASSUME ProducersInv, NEW t \in Threads, LeaveProducer(t)
    PROVE  ProducersInv'
<1>1. PICK S : S = listeners[t]
  OBVIOUS
<1>2. /\ LocalFit(t, th[t]) /\ th[t].pc = "exit" /\ th[t].main = 0 /\ OwnsFit(t) /\ ProducersTypes
      /\ producerCount \in Nat /\ S \in SUBSET (1 .. producerCount) /\ owned[t] \in 0 .. producerCount
      /\ Main \in Nat \ {0}
  BY <1>1, Before DEF LeaveProducer, ThreadAt, ProducersTypes
<1>3. /\ prod' = [w \in DOMAIN prod |-> IF w \in S THEN [prod[w] EXCEPT !.inactive = TRUE] ELSE prod[w]]
      /\ listeners' = [listeners EXCEPT ![t] = {}] /\ th' = [th EXCEPT ![t] = Rest]
      /\ UNCHANGED <<listVars, hashVars, owned>>
  BY <1>1, <1>2 DEF LeaveProducer, Go
<1>4. /\ th'[t] = Rest /\ (\A u \in Threads : u # t => th'[u] = th[u]) /\ th' \in [Threads -> ThreadType]
      /\ listeners'[t] = {} /\ (\A u \in Threads : u # t => listeners'[u] = listeners[u])
      /\ listeners' \in [Threads -> SUBSET (1 .. producerCount)]
  BY <1>2, <1>3, RestIs DEF ProducersTypes
<1>5. /\ producerList' = producerList /\ producerCount' = producerCount /\ owned' = owned
      /\ hashes' = hashes /\ hashCount' = hashCount /\ Main' = Main
  BY <1>3 DEF listVars, hashVars, Main
<1>6. /\ KindsFit(prod', producerCount)
      /\ \A w \in 1 .. producerCount : prod'[w].explicit = prod[w].explicit
      /\ \A w \in 1 .. producerCount' : UsedOnce(w)'
  <2>1. \A w \in S : Uses(t, w)
    BY <1>1 DEF Uses
  <2>2. \A w \in S : owned[t] # w
    BY <1>1, <1>2 DEF OwnsFit
  <2>3. \A w \in 1 .. producerCount : Uses(t, w)' <=> Uses(t, w) /\ w \notin S
    BY <1>1, <1>2, <1>4, <1>5, <2>2, RestIs DEF Uses, Having
  <2> QED BY <1>2, <1>3, <1>4, <1>5, <2>1, <2>3, Released
<1>7. ProducersTypes'
  BY <1>2, <1>4, <1>5, <1>6 DEF ProducersTypes, KindsFit
<1>8. LocalsFit(t)'
  BY <1>4, RestIs DEF LocalsFit, LocalFit, Searching, Getting
<1>9. OwnsFit(t)'
  BY <1>2, <1>4, <1>5, <1>6 DEF OwnsFit
<1>10. producerCount <= producerCount' /\ \A h \in 1 .. Main : ~HasKey(hashes[h], t)
  <2>1. th[t].main + 1 .. Main = 1 .. Main
    BY <1>2
  <2> QED BY <1>2, <1>5, <2>1 DEF LocalFit
<1> QED BY <1>4, <1>5, <1>6, <1>7, <1>8, <1>9, <1>10, UseStep

(* Consumers change nothing but the number of elements.                      *)
LEMMA ItemsKeep ==
    ASSUME ProducersInv, SameKinds,
           UNCHANGED <<producerList, producerCount, hashes, hashCount, th, owned, listeners>>
    PROVE  ProducersInv'
<1>1. /\ ProducersTypes /\ Main' = Main /\ Main \in Nat \ {0} /\ producerCount \in Nat
  BY HashesAre DEF ProducersInv, ProducersTypes, Main
<1>2. ProducersTypes'
  BY <1>1 DEF ProducersTypes, SameKinds
<1>3. \A h \in 1 .. Main' : TableFits(hashes[h])'
  BY <1>1 DEF ProducersInv, TableFits
<1>4. ASSUME NEW t \in Threads PROVE LocalsFit(t)' /\ OwnsFit(t)'
  <2>1. LocalsFit(t)'
    BY <1>1 DEF ProducersInv, LocalsFit, LocalFit, SameKinds
  <2>2. owned[t] \in 0 .. producerCount /\ listeners[t] \subseteq 1 .. producerCount
    BY <1>1 DEF ProducersTypes
  <2>3. OwnsFit(t)'
    BY <1>1, <2>2 DEF ProducersInv, OwnsFit, SameKinds
  <2> QED BY <2>1, <2>3
<1>5. \A q \in 1 .. producerCount' : UsedOnce(q)'
  <2>1. ASSUME NEW u \in Threads, NEW q \in 1 .. producerCount PROVE Uses(u, q)' <=> Uses(u, q)
    BY DEF Uses, Having
  <2> QED BY <2>1, SameUse DEF SameKinds
<1> QED BY <1>2, <1>3, <1>4, <1>5 DEF ProducersInv

LEMMA TakersKeep ==
    ASSUME ProducersInv, NEW c \in Takers, TakerSteps(c)
    PROVE  ProducersInv'
<1>1. UNCHANGED <<listVars, hashVars, th, owned, listeners>>
  BY DEF TakerSteps, TryDequeue, Score, TakeBest, TryDequeueBulk, TakeNext, ReturnNothing,
         TryDequeueToken, UpdateCurrentProducer, TakeCurrent, TakeAround, BeginTake
<1>2. UNCHANGED prod \/ \E q, n : prod' = [prod EXCEPT ![q].items = n]
  BY DEF TakerSteps, TryDequeue, Score, TakeBest, TryDequeueBulk, TakeNext, ReturnNothing,
         TryDequeueToken, UpdateCurrentProducer, TakeCurrent, TakeAround, BeginTake, Takes
<1>3. SameKinds
  <2>1. CASE UNCHANGED prod
    BY <1>1, <2>1 DEF ProducersInv, ProducersTypes, SameKinds, listVars
  <2>2. CASE \E q, n : prod' = [prod EXCEPT ![q].items = n]
    BY <1>1, <2>2, ItemsOnly DEF listVars
  <2> QED BY <1>2, <2>1, <2>2
<1> QED BY <1>1, <1>3, ItemsKeep DEF listVars, hashVars

LEMMA ProducersInvStep ==
    ProducersInv /\ [ProducersNext]_producersVars => ProducersInv'
<1> SUFFICES ASSUME ProducersInv, [ProducersNext]_producersVars
             PROVE  ProducersInv'
  OBVIOUS
<1>1. CASE UNCHANGED producersVars
  <2>1. SameKinds
    BY <1>1 DEF ProducersInv, ProducersTypes, SameKinds, producersVars
  <2> QED BY <1>1, <2>1, ItemsKeep DEF producersVars
<1>2. ASSUME NEW t \in Threads, ThreadSteps(t) PROVE ProducersInv'
  <2>1. CASE CountSlot(t) \/ BeginResize(t) \/ Resize(t) \/ Double(t) \/ RoomOrWait(t)
    BY <2>1, Unread
  <2>2. CASE NewTableFails(t) \/ CreateFails(t) \/ Put(t)
               \/ NewProducerToken(t) \/ PutByToken(t) \/ ThreadExit(t)
    BY <2>2, BeginOrEnd
  <2>3. CASE CopyToMain(t) \/ Insert(t)
    BY <2>3, SearchSlot
  <2>4. CASE Recycle(t)
    BY <2>4, RecycleNext, RecycleTakes
  <2>5. CASE Lookup(t) \/ NewTable(t) \/ LeaveTable(t)
    BY <2>5, LookupKeeps, NewTableKeeps, LeaveKeeps
  <2>6. CASE Create(t) \/ Push(t) \/ TakeToken(t) \/ Subscribe(t) \/ DropToken(t) \/ LeaveProducer(t)
    BY <2>6, CreateKeeps, PushKeeps, TokenKeeps, SubscribeKeeps, DropKeeps, LeaveProducerKeeps
  <2> QED BY <1>2, <2>1, <2>2, <2>3, <2>4, <2>5, <2>6 DEF ThreadSteps
<1> QED BY <1>1, <1>2, TakersKeep DEF ProducersNext

LEMMA ProducersInvInit == ProducersInit => ProducersInv
<1> SUFFICES ASSUME ProducersInit PROVE ProducersInv
  OBVIOUS
<1>1. /\ producerList = <<>> /\ producerCount = 0 /\ prod = <<>> /\ hashCount = 0
      /\ hashes = <<EmptyTable(HashSize)>> /\ th = [t \in Threads |-> Rest]
      /\ owned = [t \in Threads |-> 0] /\ listeners = [t \in Threads |-> {}]
  BY DEF ProducersInit
<1>2. PICK x \in Tables : x = EmptyTable(HashSize) /\ \A i \in DOMAIN x.key : x.key[i] = Vacant
  BY EmptyTableIs, ProducersAssumption
<1>3. hashes \in Seq(Tables) /\ hashes # <<>> /\ Main = 1 /\ hashes[1] = x
  BY <1>1, <1>2 DEF Main
<1>4. 1 .. producerCount = {}
  BY <1>1
<1>5. ProducersTypes
  <2>1. producerList \in Seq(1 .. producerCount)
    BY <1>1, EmptySeq
  <2>2. prod = [q \in 1 .. producerCount |-> [explicit |-> prod[q].explicit,
                                              inactive |-> prod[q].inactive, items |-> prod[q].items]]
    BY <1>1, <1>4
  <2> QED BY <1>1, <1>3, <1>4, <2>1, <2>2, RestIs DEF ProducersTypes
<1>6. \A h \in 1 .. Main : TableFits(hashes[h])
  BY <1>2, <1>3, ProducersAssumption DEF TableFits
<1>7. \A t \in Threads : LocalsFit(t) /\ OwnsFit(t)
  BY <1>1, RestIs DEF LocalsFit, LocalFit, OwnsFit, Searching, Getting
<1> QED BY <1>4, <1>5, <1>6, <1>7 DEF ProducersInv

LEMMA ProducersInvAlways == ProducersSpec => []ProducersInv
BY ProducersInvInit, ProducersInvStep, PTL DEF ProducersSpec

LEMMA ProducersInvMeans ==
    ASSUME ProducersInv
    PROVE  ProducersOwnedOnce
<1>1. ASSUME NEW q \in 1 .. producerCount PROVE Cardinality(Users(q)) = IF prod[q].inactive THEN 0 ELSE 1
  <2>1. UsedOnce(q)
    BY DEF ProducersInv
  <2>2. Users(q) = {t \in Threads : Uses(t, q)}
    <3>1. ASSUME NEW t \in Threads, th[t].mine = q, th[t].pc \in {"insert", "copy", "put"} PROVE Uses(t, q)
      BY <3>1, Before DEF LocalFit, Uses
    <3> QED BY <3>1 DEF Users, Uses, Having
  <2>3. CASE prod[q].inactive
    <3>1. Users(q) = {}
      BY <2>1, <2>2, <2>3 DEF UsedOnce
    <3> QED BY <2>3, <3>1, FS_EmptySet
  <2>4. CASE ~prod[q].inactive
    <3>1. PICK t \in Threads : Uses(t, q)
      BY <2>1, <2>4 DEF UsedOnce
    <3>2. Users(q) = {t}
      BY <2>1, <2>2, <3>1 DEF UsedOnce
    <3> QED BY <2>4, <3>2, FS_Singleton
  <2> QED BY <2>3, <2>4
<1>2. ASSUME NEW t \in Threads
      PROVE  /\ Cardinality(listeners[t]) <= 1
             /\ listeners[t] # {} /\ ThreadAt(t, "idle") =>
                  FoundIn(t) # {} /\ Finds(Newest(FoundIn(t)), t) \in listeners[t]
  <2>1. OwnsFit(t) /\ ProducersTypes /\ Main \in Nat \ {0} /\ \A h \in 1 .. Main : TableFits(hashes[h])
    BY Before
  <2>2. Cardinality(listeners[t]) <= 1
    <3>1. CASE listeners[t] = {}
      BY <3>1, FS_EmptySet
    <3>2. ASSUME NEW q \in listeners[t] PROVE Cardinality(listeners[t]) <= 1
      <4>1. listeners[t] = {q}
        BY <2>1 DEF OwnsFit
      <4>2. Cardinality({q}) = 1
        BY FS_Singleton
      <4> QED BY <4>1, <4>2
    <3> QED BY <3>1, <3>2
  <2>3. ASSUME listeners[t] # {}, ThreadAt(t, "idle")
        PROVE  FoundIn(t) # {} /\ Finds(Newest(FoundIn(t)), t) \in listeners[t]
    <3>1. \A h \in 1 .. Main : /\ Finds(h, t) # 0 <=> HasKey(hashes[h], t)
                               /\ HasKey(hashes[h], t) => Finds(h, t) \in listeners[t]
      BY <2>1, FindsIs
    <3>2. PICK h \in 1 .. Main : HasKey(hashes[h], t)
      BY <2>1, <2>3 DEF OwnsFit, ThreadAt
    <3>3. FoundIn(t) \in SUBSET (1 .. Main) /\ FoundIn(t) # {}
      BY <3>1, <3>2 DEF FoundIn
    <3>4. PICK n \in Nat : n = Main /\ FoundIn(t) \in SUBSET (1 .. n) /\ FoundIn(t) # {}
      BY <2>1, <3>3
    <3>5. Newest(FoundIn(t)) \in FoundIn(t)
      BY <3>4, NewestIs
    <3>6. PICK g \in 1 .. Main : g = Newest(FoundIn(t)) /\ Finds(g, t) # 0
      BY <3>4, <3>5 DEF FoundIn
    <3> QED BY <3>1, <3>3, <3>6
  <2> QED BY <2>2, <2>3
<1> QED BY <1>1, <1>2 DEF ProducersOwnedOnce

(* No two threads fill one sub-queue, and a thread finds its own again,      *)
(* whatever tables others make, fill and leave at the same time.             *)
THEOREM ProducersAlwaysOwnedOnce == ProducersSpec => []ProducersOwnedOnce
BY ProducersInvAlways, ProducersInvMeans, PTL

(* In every state of free list and producers, a node and a producer have one *)
(* owner each, and no thread loses what it owns.                             *)
THEOREM AlwaysOwnedOnce == FreeListSpec /\ ProducersSpec => []OwnedOnce
BY NodesAlwaysOwnedOnce, ProducersAlwaysOwnedOnce, PTL DEF OwnedOnce
-----------------------------------------------------------------------------
(***************************************************************************)
(* The dequeues.  What is on the list from a producer on, and what a       *)
(* consumer that goes around has still before it.                          *)
(***************************************************************************)
OnList == {producerList[i] : i \in DOMAIN producerList}
Onward(q) == {w \in OnList : \E i, j \in DOMAIN producerList :
                             i <= j /\ producerList[i] = q /\ producerList[j] = w}
Left(at, best, current) ==
    IF at \in Onward(current) /\ at # current THEN Onward(at) \cup (Onward(best) \ Onward(current))
    ELSE Onward(at) \ Onward(current)

TakePcs == {"idle", "score", "rest", "fail", "current", "take", "around"}
CallType == [pc : TakePcs, at : Nat, best : Nat, size : Nat, seen : Nat, max : Nat, count : Nat,
             steady : SUBSET Nat]
TokenType == [initialOffset : Int, lastKnown : Int, consumed : Int, current : Nat, desired : Nat]

(* No producer is on the list twice, and one that is to be put on it is not  *)
(* there yet.                                                                *)
ListFits ==
    /\ \A i, j \in DOMAIN producerList : producerList[i] = producerList[j] => i = j
    /\ \A t \in Threads : th[t].pc = "push" => th[t].mine \notin OnList

(* What a call that found nothing so far has seen: the rest is still ahead.  *)
TakeFits(k, a) ==
    /\ k.steady \subseteq {q \in OnList : prod[q].items > 0}
    /\ {k.at, k.best, a.current, a.desired} \subseteq OnList \cup {0}
    /\ a.desired # 0 => a.current # 0
    /\ k.pc \in {"idle", "fail"} => k.steady = {}
    /\ k.pc = "score" => /\ k.count < k.max
                         /\ IF k.seen = 0 THEN k.size = 0 /\ k.steady \subseteq Onward(k.at) ELSE k.best # 0
    /\ k.pc = "rest" => /\ k.count < k.max /\ k.best \notin k.steady
                        /\ k.count = 0 => k.steady \subseteq Onward(k.at)
    /\ k.pc \in {"current", "take", "around"} => k.max # 0
    /\ k.pc = "take" => a.current # 0
    /\ k.pc = "around" => /\ k.at # 0 /\ k.best # 0 /\ a.current # 0
                          /\ k.count = 0 => /\ a.current \in Onward(k.best)
                                            /\ k.steady \subseteq Left(k.at, k.best, a.current)

TakersInv ==
    /\ ListFits
    /\ \A q \in 1 .. producerCount : prod[q].items \in Nat
    /\ globalOffset \in Int
    /\ taker \in [Takers -> [call : CallType, token : TokenType]]
    /\ \A c \in Takers : TakeFits(Call(c), Token(c))

-----------------------------------------------------------------------------
(* The list.                                                                 *)
LEMMA ListIs ==
    ASSUME ProducersTypes
    PROVE  /\ producerList \in Seq(1 .. producerCount) /\ producerCount \in Nat
           /\ DOMAIN producerList = 1 .. Len(producerList) /\ Len(producerList) \in Nat
           /\ \A i \in DOMAIN producerList : producerList[i] \in 1 .. producerCount
           /\ OnList \subseteq 1 .. producerCount /\ OnList \subseteq Nat /\ 0 \notin OnList
           /\ Onward(0) = {} /\ \A q : Onward(q) \subseteq OnList
           /\ OnList = ToSet(producerList)
<1>1. /\ producerList \in Seq(1 .. producerCount) /\ producerCount \in Nat
      /\ DOMAIN producerList = 1 .. Len(producerList) /\ Len(producerList) \in Nat
      /\ \A i \in DOMAIN producerList : producerList[i] \in 1 .. producerCount
  BY LenProperties DEF ProducersTypes
<1>2. OnList \subseteq 1 .. producerCount
  BY <1>1 DEF OnList
<1>3. 0 \notin OnList /\ OnList \subseteq Nat
  BY <1>1, <1>2
<1>4. Onward(0) = {}
  BY <1>3 DEF Onward, OnList
<1>5. OnList = ToSet(producerList)
  BY DEF OnList, ToSet
<1> QED BY <1>1, <1>2, <1>3, <1>4, <1>5 DEF Onward

LEMMA PositionIs ==
    ASSUME ListFits, NEW i \in DOMAIN producerList
    PROVE  Position(producerList[i]) = i
BY DEF ListFits, Position

(* The order of the list.                                                    *)
LEMMA OnwardOrder ==
    ASSUME ProducersTypes, ListFits, NEW a \in OnList, NEW b \in OnList
    PROVE  /\ a \in Onward(a)
           /\ a \in Onward(b) \/ b \in Onward(a)
           /\ a \in Onward(b) => Onward(a) \subseteq Onward(b)
           /\ a \in Onward(b) /\ b \in Onward(a) => a = b
<1>1. DOMAIN producerList \subseteq Nat
  BY ListIs
<1>2. PICK i \in DOMAIN producerList : producerList[i] = a
  BY DEF OnList
<1>3. PICK j \in DOMAIN producerList : producerList[j] = b
  BY DEF OnList
<1>4. \A k \in DOMAIN producerList : (producerList[k] = a => k = i) /\ (producerList[k] = b => k = j)
  BY <1>2, <1>3 DEF ListFits
<1>5. /\ \A w \in OnList : w \in Onward(a) <=> \E k \in DOMAIN producerList : i <= k /\ producerList[k] = w
      /\ \A w \in OnList : w \in Onward(b) <=> \E k \in DOMAIN producerList : j <= k /\ producerList[k] = w
  BY <1>2, <1>3, <1>4 DEF Onward
<1>6. a \in Onward(b) <=> j <= i
  BY <1>2, <1>4, <1>5
<1>7. b \in Onward(a) <=> i <= j
  BY <1>3, <1>4, <1>5
<1>8. a \in Onward(a)
  BY <1>1, <1>2, <1>5
<1>9. ASSUME j <= i PROVE Onward(a) \subseteq Onward(b)
  <2>1. \A k \in DOMAIN producerList : i <= k => j <= k
    BY <1>1, <1>9
  <2>2. \A w \in Onward(a) : w \in OnList
    BY DEF Onward
  <2> QED BY <1>5, <2>1, <2>2
<1>10. (j <= i \/ i <= j) /\ (j <= i /\ i <= j => i = j)
  BY <1>1
<1> QED BY <1>2, <1>3, <1>6, <1>7, <1>8, <1>9, <1>10

LEMMA OnwardNext ==
    ASSUME ProducersTypes, ListFits, NEW q \in OnList
    PROVE  /\ NextProducer(q) \in OnList \cup {0}
           /\ Onward(q) = {q} \cup Onward(NextProducer(q)) /\ q \notin Onward(NextProducer(q))
<1>1. PICK n \in Nat : n = Len(producerList) /\ DOMAIN producerList = 1 .. n
  BY ListIs
<1>2. PICK i \in DOMAIN producerList : producerList[i] = q
  BY DEF OnList
<1>3. /\ Position(q) = i /\ i \in 1 .. n
      /\ \A k \in DOMAIN producerList : producerList[k] = q => k = i
  BY <1>1, <1>2, PositionIs DEF ListFits
<1>4. CASE i = n
  <2>1. NextProducer(q) = 0 /\ Onward(0) = {}
    BY <1>1, <1>3, <1>4, ListIs DEF NextProducer
  <2>2. \A w \in Onward(q) : w = q
    <3>1. ASSUME NEW w \in Onward(q) PROVE w = q
      <4>1. PICK k, j \in DOMAIN producerList : k <= j /\ producerList[k] = q /\ producerList[j] = w
        BY DEF Onward
      <4>2. k = i /\ j = i
        BY <1>1, <1>3, <1>4, <4>1
      <4> QED BY <1>2, <4>1, <4>2
    <3> QED BY <3>1
  <2> QED BY <2>1, <2>2, OnwardOrder
<1>5. CASE i # n
  <2>1. PICK m \in 1 .. n : m = i + 1
    BY <1>3, <1>5
  <2>2. NextProducer(q) = producerList[m] /\ m \in DOMAIN producerList /\ producerList[m] \in OnList
    BY <1>1, <1>3, <1>5, <2>1 DEF NextProducer, OnList
  <2>3. PICK w \in OnList : w = producerList[m] /\ NextProducer(q) = w
    BY <2>2
  <2>4. \A k \in DOMAIN producerList : producerList[k] = w => k = m
    BY <2>2, <2>3 DEF ListFits
  <2>5. /\ \A v \in OnList : v \in Onward(q) <=> \E k \in DOMAIN producerList : i <= k /\ producerList[k] = v
        /\ \A v \in OnList : v \in Onward(w) <=> \E k \in DOMAIN producerList : m <= k /\ producerList[k] = v
    BY <1>2, <1>3, <2>2, <2>3, <2>4 DEF Onward
  <2>6. \A k \in DOMAIN producerList : i <= k <=> k = i \/ m <= k
    BY <1>1, <1>3, <2>1
  <2>7. ~(m <= i)
    BY <1>3, <2>1
  <2>8. Onward(q) \subseteq OnList /\ Onward(w) \subseteq OnList
    BY DEF Onward
  <2>9. \A v \in OnList : v \in Onward(q) <=> v = q \/ v \in Onward(w)
    BY <1>2, <1>3, <2>5, <2>6
  <2>10. q \notin Onward(w)
    BY <1>3, <2>5, <2>7
  <2> QED BY <2>3, <2>8, <2>9, <2>10
<1> QED BY <1>4, <1>5

LEMMA OnwardTail ==
    ASSUME ProducersTypes
    PROVE  Tail0 \in OnList \cup {0} /\ Onward(Tail0) = OnList /\ (Tail0 = 0 => OnList = {})
<1>1. DOMAIN producerList = 1 .. Len(producerList) /\ Len(producerList) \in Nat
  BY ListIs
<1>2. CASE producerList = <<>>
  <2>1. OnList = {} /\ Tail0 = 0
    BY <1>2 DEF OnList, Tail0
  <2> QED BY <2>1, ListIs
<1>3. CASE producerList # <<>>
  <2>1. 1 \in DOMAIN producerList /\ Tail0 = producerList[1]
    BY <1>1, <1>3, EmptySeq, ListIs DEF Tail0
  <2>2. Tail0 \in OnList /\ Tail0 # 0
    BY <2>1, ListIs DEF OnList
  <2>3. OnList \subseteq Onward(Tail0)
    <3>1. \A i \in DOMAIN producerList : 1 <= i
      BY <1>1
    <3> QED BY <2>1, <3>1 DEF OnList, Onward
  <2> QED BY <2>2, <2>3, ListIs
<1> QED BY <1>2, <1>3

LEMMA AlongIs ==
    ASSUME ProducersTypes, ListFits, NEW q \in OnList, NEW n \in Int
    PROVE  Along(n, q) \in OnList
<1>1. PICK l \in Nat : l = Len(producerList) /\ DOMAIN producerList = 1 .. l
  BY ListIs
<1>2. PICK i \in DOMAIN producerList : producerList[i] = q
  BY DEF OnList
<1>3. Position(q) = i /\ i \in 1 .. l /\ l \in Nat \ {0}
  BY <1>1, <1>2, PositionIs
<1>4. i - 1 + n \in Int
  BY <1>3
<1>5. PICK r \in 0 .. l - 1 : r = (i - 1 + n) % l
  BY <1>3, <1>4, ModRange
<1>6. r + 1 \in DOMAIN producerList
  BY <1>1, <1>3, <1>5
<1>7. Along(n, q) = producerList[r + 1]
  BY <1>1, <1>3, <1>5 DEF Along
<1> QED BY <1>6, <1>7 DEF OnList

(* Once around the list.                                                     *)
LEMMA AroundBegins ==
    ASSUME ProducersTypes, ListFits, NEW q \in OnList, NEW S \in SUBSET OnList, q \notin S
    PROVE  LET onward == IF NextProducer(q) = 0 THEN Tail0 ELSE NextProducer(q) IN
           onward \in OnList /\ Tail0 \in OnList /\ q \in Onward(Tail0) /\ S \subseteq Left(onward, Tail0, q)
<1>1. Tail0 \in OnList /\ Onward(Tail0) = OnList
  BY OnwardTail
<1>2. /\ NextProducer(q) \in OnList \cup {0} /\ 0 \notin OnList /\ Onward(0) = {}
      /\ Onward(q) = {q} \cup Onward(NextProducer(q)) /\ q \notin Onward(NextProducer(q))
  BY OnwardNext, ListIs
<1>3. CASE NextProducer(q) = 0
  <2>1. Onward(q) = {q}
    BY <1>2, <1>3
  <2> QED BY <1>1, <1>2, <1>3, <2>1 DEF Left
<1>4. CASE NextProducer(q) # 0
  <2>1. NextProducer(q) \in OnList /\ NextProducer(q) \in Onward(NextProducer(q))
    BY <1>2, <1>4, OnwardOrder
  <2>2. NextProducer(q) \in Onward(q) /\ NextProducer(q) # q
    BY <1>2, <2>1
  <2> QED BY <1>1, <1>2, <1>4, <2>1, <2>2 DEF Left
<1> QED BY <1>3, <1>4

LEMMA AroundGoesOn ==
    ASSUME ProducersTypes, ListFits, NEW at \in OnList, NEW best \in OnList, NEW current \in OnList,
           at # current, current \in Onward(best),
           NEW S \in SUBSET OnList, S \subseteq Left(at, best, current), at \notin S
    PROVE  LET onward == IF NextProducer(at) = 0 THEN best ELSE NextProducer(at) IN
           onward \in OnList /\ S \subseteq Left(onward, best, current)
<1>1. PICK onward : onward = NextProducer(at)
  OBVIOUS
<1>2. /\ onward \in OnList \cup {0} /\ 0 \notin OnList /\ Onward(0) = {}
      /\ Onward(at) = {at} \cup Onward(onward) /\ at \notin Onward(onward)
  BY <1>1, OnwardNext, ListIs
<1>3. CASE at \in Onward(current)
  <2>1. S \subseteq Onward(onward) \cup (Onward(best) \ Onward(current))
    BY <1>2, <1>3 DEF Left
  <2>2. CASE onward = 0
    <3>1. best \in Onward(current) => best = current
      BY OnwardOrder
    <3> QED BY <1>1, <1>2, <2>1, <2>2, <3>1 DEF Left
  <2>3. CASE onward # 0
    <3>1. onward \in Onward(onward) /\ onward \in Onward(current)
      BY <1>2, <1>3, <2>3, OnwardOrder
    <3>2. onward # current
      BY <1>2, <1>3
    <3> QED BY <1>1, <1>2, <2>1, <2>3, <3>1, <3>2 DEF Left
  <2> QED BY <2>2, <2>3
<1>4. CASE at \notin Onward(current)
  <2>1. S \subseteq Onward(at) \ Onward(current)
    BY <1>4 DEF Left
  <2>2. current \in Onward(onward)
    BY <1>2, <1>4, OnwardOrder
  <2>3. onward # 0 /\ onward \in OnList
    BY <1>2, <2>2
  <2>4. ~(onward \in Onward(current) /\ onward # current)
    BY <2>2, <2>3, OnwardOrder
  <2>5. S \subseteq Onward(onward) \ Onward(current)
    BY <1>2, <2>1
  <2> QED BY <1>1, <2>3, <2>4, <2>5 DEF Left
<1> QED BY <1>3, <1>4

(* The list has not changed, or has grown at its head.                       *)
Kept == OnList \subseteq OnList' /\ \A q \in OnList \cup {0} : Onward(q)' = Onward(q)

LEMMA SameListKept ==
    ASSUME UNCHANGED producerList
    PROVE  Kept /\ OnList' = OnList
BY DEF Kept, OnList, Onward

LEMMA FitsLater ==
    ASSUME NEW k \in CallType, NEW a \in TokenType, TakeFits(k, a), Kept,
           NEW S \in SUBSET k.steady, \A q \in S : prod'[q].items > 0
    PROVE  TakeFits([k EXCEPT !.steady = S], a)' /\ [k EXCEPT !.steady = S] \in CallType
<1>1. PICK m : m = [k EXCEPT !.steady = S]
  OBVIOUS
<1>2. /\ m \in CallType /\ m.pc = k.pc /\ m.at = k.at /\ m.best = k.best /\ m.size = k.size
      /\ m.seen = k.seen /\ m.max = k.max /\ m.count = k.count /\ m.steady = S
  BY <1>1 DEF CallType
<1>3. OnList \subseteq OnList' /\ \A q \in OnList \cup {0} : Onward(q)' = Onward(q)
  BY DEF Kept
<1>4. m.steady \subseteq {q \in OnList' : prod'[q].items > 0}
  BY <1>2, <1>3 DEF TakeFits
<1>5. {m.at, m.best, a.current, a.desired} \subseteq OnList' \cup {0}
  BY <1>2, <1>3 DEF TakeFits
<1>6. m.pc = "score" =>
        /\ m.count < m.max
        /\ IF m.seen = 0 THEN m.size = 0 /\ m.steady \subseteq Onward(m.at)' ELSE m.best # 0
  BY <1>2, <1>3 DEF TakeFits
<1>7. m.pc = "rest" => /\ m.count < m.max /\ m.best \notin m.steady
                       /\ m.count = 0 => m.steady \subseteq Onward(m.at)'
  BY <1>2, <1>3 DEF TakeFits
<1>8. m.pc = "around" => /\ m.at # 0 /\ m.best # 0 /\ a.current # 0
                         /\ m.count = 0 => /\ a.current \in Onward(m.best)'
                                           /\ m.steady \subseteq Left(m.at, m.best, a.current)'
  BY <1>2, <1>3 DEF TakeFits, Left
<1>9. /\ a.desired # 0 => a.current # 0
      /\ m.pc \in {"idle", "fail"} => m.steady = {}
      /\ m.pc \in {"current", "take", "around"} => m.max # 0
      /\ m.pc = "take" => a.current # 0
  BY <1>2 DEF TakeFits
<1>10. TakeFits(m, a)'
  BY <1>4, <1>5, <1>6, <1>7, <1>8, <1>9 DEF TakeFits
<1> QED BY <1>1, <1>2, <1>10

(* What others do leaves a call fit.                                         *)
LEMMA OthersTake ==
    ASSUME NEW k \in CallType, NEW a \in TokenType, TakeFits(k, a), Kept,
           \A q \in k.steady : prod'[q].items > 0
    PROVE  TakeFits(k, a)'
<1>1. [k EXCEPT !.steady = k.steady] = k
  BY DEF CallType
<1> QED BY <1>1, FitsLater

LEMMA TakerIs ==
    ASSUME TakersInv, NEW d \in Takers
    PROVE  /\ Call(d) \in CallType /\ Token(d) \in TokenType /\ TakeFits(Call(d), Token(d))
           /\ taker[d] = [call |-> Call(d), token |-> Token(d)]
BY DEF TakersInv, Call, Token

(* A consumer moves on and takes nothing.                                    *)
LEMMA MovingKeeps ==
    ASSUME ProducersInv, TakersInv, NEW c \in Takers, NEW k \in CallType, NEW a \in TokenType, TakeFits(k, a),
           taker' = [taker EXCEPT ![c] = [call |-> k, token |-> a]],
           UNCHANGED <<producerList, producerCount, prod, th>>, globalOffset' \in Int
    PROVE  TakersInv'
<1>1. Kept /\ OnList' = OnList
  BY SameListKept
<1>2. ListFits'
  BY <1>1 DEF TakersInv, ListFits
<1>3. taker' \in [Takers -> [call : CallType, token : TokenType]]
  BY DEF TakersInv
<1>4. ASSUME NEW d \in Takers PROVE TakeFits(Call(d), Token(d))'
  <2>1. PICK m, b : m = Call(d) /\ b = Token(d)
    OBVIOUS
  <2>2. m \in CallType /\ b \in TokenType /\ TakeFits(m, b)
    BY <2>1, TakerIs
  <2>3. CASE d = c
    <3>1. Call(d)' = k /\ Token(d)' = a
      BY <2>3 DEF TakersInv, Call, Token
    <3>2. \A q \in k.steady : prod'[q].items > 0
      BY DEF TakeFits
    <3>3. TakeFits(k, a)'
      BY <1>1, <3>2, OthersTake
    <3> QED BY <3>1, <3>3
  <2>4. CASE d # c
    <3>1. Call(d)' = m /\ Token(d)' = b
      BY <2>1, <2>4 DEF TakersInv, Call, Token
    <3>2. \A q \in m.steady : prod'[q].items > 0
      BY <2>2 DEF TakeFits
    <3>3. TakeFits(m, b)'
      BY <1>1, <2>2, <3>2, OthersTake
    <3> QED BY <3>1, <3>3
  <2> QED BY <2>3, <2>4
<1> QED BY <1>2, <1>3, <1>4 DEF TakersInv

(* It takes n elements of q: who counts on q to be there hears of its end.   *)
LEMMA TakingKeeps ==
    ASSUME ProducersInv, TakersInv, NEW c \in Takers, NEW k \in CallType, NEW a \in TokenType,
           NEW q \in OnList, NEW n \in Nat, n <= prod[q].items,
           Takes(c, q, n, k, a), UNCHANGED <<producerList, producerCount, th>>, globalOffset' \in Int,
           k.steady \subseteq Call(c).steady,
           \A S \in SUBSET k.steady :
             (prod[q].items = n => q \notin S) => TakeFits([k EXCEPT !.steady = S], a)
    PROVE  TakersInv'
<1>1. Kept /\ OnList' = OnList
  BY SameListKept
<1>2. ProducersTypes /\ OnList \subseteq 1 .. producerCount /\ DOMAIN prod = 1 .. producerCount
  BY ListIs DEF ProducersInv, ProducersTypes
<1>3. PICK left : left = prod[q].items - n
  OBVIOUS
<1>4. left \in Nat /\ (left = 0 <=> prod[q].items = n) /\ q \in 1 .. producerCount
  BY <1>2, <1>3 DEF TakersInv
<1>5. prod' = [prod EXCEPT ![q].items = left]
  BY <1>3 DEF Takes
<1>6. /\ \A w \in 1 .. producerCount : w # q => prod'[w] = prod[w]
      /\ prod'[q].items = left
  BY <1>2, <1>4, <1>5 DEF ProducersTypes
<1>7. PICK hears \in BOOLEAN : hears <=> left = 0 /\ n > 0
  OBVIOUS
<1>8. ASSUME NEW m \in CallType
      PROVE  (IF left = 0 /\ n > 0 THEN [m EXCEPT !.steady = @ \ {q}] ELSE m)
               = [m EXCEPT !.steady = IF hears THEN m.steady \ {q} ELSE m.steady]
  BY <1>7 DEF CallType
<1>9. ASSUME NEW m \in CallType, NEW b, NEW S, m.steady \subseteq {w \in OnList : prod[w].items > 0},
             S = IF hears THEN m.steady \ {q} ELSE m.steady
      PROVE  S \subseteq m.steady /\ (prod[q].items = n => q \notin S) /\ \A w \in S : prod'[w].items > 0
  <2>1. prod[q].items = n => q \notin S
    <3>1. CASE n = 0
      BY <1>9, <3>1
    <3>2. CASE n # 0
      BY <1>4, <1>7, <1>9, <3>2
    <3> QED BY <3>1, <3>2
  <2>2. S \subseteq m.steady
    BY <1>9
  <2>3. ASSUME NEW w \in S PROVE prod'[w].items > 0
    <3>1. CASE w = q
      BY <1>4, <1>6, <2>1, <3>1
    <3>2. CASE w # q
      BY <1>2, <1>6, <1>9, <2>2, <3>2
    <3> QED BY <3>1, <3>2
  <2> QED BY <2>1, <2>2, <2>3
<1>10. PICK now : now = IF hears THEN k.steady \ {q} ELSE k.steady
  OBVIOUS
<1>11. ASSUME NEW d \in Takers
       PROVE  taker'[d] = IF d = c THEN [call |-> [k EXCEPT !.steady = now], token |-> a]
                          ELSE [call |-> [Call(d) EXCEPT !.steady = IF hears THEN Call(d).steady \ {q}
                                                                    ELSE Call(d).steady],
                                token |-> Token(d)]
  <2>1. PICK m, b : m = Call(d) /\ b = Token(d)
    OBVIOUS
  <2>2. m \in CallType /\ taker[d] = [call |-> m, token |-> b]
    BY <2>1, TakerIs
  <2>3. CASE d = c
    BY <1>3, <1>8, <1>10, <2>3 DEF Takes
  <2>4. CASE d # c
    <3>1. taker'[d] = [taker[d] EXCEPT !.call = IF left = 0 /\ n > 0
                                                THEN [taker[d].call EXCEPT !.steady = taker[d].call.steady \ {q}]
                                                ELSE taker[d].call]
      BY <1>3, <2>4 DEF Takes
    <3>2. taker'[d] = [call |-> IF left = 0 /\ n > 0 THEN [m EXCEPT !.steady = m.steady \ {q}] ELSE m, token |-> b]
      <4>1. taker[d].call = m
        BY <2>2
      <4>2. taker'[d] = [taker[d] EXCEPT !.call = IF left = 0 /\ n > 0 THEN [m EXCEPT !.steady = m.steady \ {q}] ELSE m]
        BY <3>1, <4>1
      <4> QED BY <2>2, <4>2
    <3> QED BY <1>8, <2>1, <2>2, <2>4, <3>2
  <2> QED BY <2>3, <2>4
<1>12. ASSUME NEW d \in Takers
       PROVE  taker'[d] \in [call : CallType, token : TokenType] /\ TakeFits(Call(d), Token(d))'
  <2>1. PICK m, b, r : /\ m = (IF d = c THEN k ELSE Call(d)) /\ b = (IF d = c THEN a ELSE Token(d))
                       /\ r = IF hears THEN m.steady \ {q} ELSE m.steady
    OBVIOUS
  <2>2. m \in CallType /\ b \in TokenType /\ Call(d) \in CallType /\ TakeFits(Call(d), Token(d))
    BY <2>1, TakerIs
  <2>3. m.steady \subseteq {w \in OnList : prod[w].items > 0}
    BY <2>1, <2>2 DEF TakeFits
  <2>4. r \subseteq m.steady /\ (prod[q].items = n => q \notin r) /\ \A w \in r : prod'[w].items > 0
    BY <1>9, <2>1, <2>2, <2>3
  <2>5. taker'[d] = [call |-> [m EXCEPT !.steady = r], token |-> b]
    BY <1>10, <1>11, <2>1
  <2>6. [m EXCEPT !.steady = r] \in CallType /\ TakeFits([m EXCEPT !.steady = r], b)'
    <3>1. CASE d = c
      <4>1. PICK m2 : m2 = [m EXCEPT !.steady = r]
        OBVIOUS
      <4>2. m2 \in CallType /\ m2.steady = r /\ TakeFits(m2, b)
        BY <2>1, <2>2, <2>4, <3>1, <4>1 DEF CallType
      <4> QED BY <1>1, <2>2, <2>4, <4>1, <4>2, OthersTake
    <3>2. CASE d # c
      <4>1. TakeFits(m, b)
        BY <2>1, <2>2, <3>2
      <4> QED BY <1>1, <2>2, <2>4, <4>1, FitsLater
    <3> QED BY <3>1, <3>2
  <2> QED BY <2>2, <2>5, <2>6 DEF Call, Token
<1>13. taker' \in [Takers -> [call : CallType, token : TokenType]]
  BY <1>12 DEF Takes
<1>14. \A w \in 1 .. producerCount' : prod'[w].items \in Nat
  BY <1>4, <1>6 DEF TakersInv
<1>15. ListFits'
  BY <1>1 DEF TakersInv, ListFits
<1> QED BY <1>12, <1>13, <1>14, <1>15 DEF TakersInv

LEMMA MovesKeep ==
    ASSUME ProducersInv, TakersInv, NEW c \in Takers, NEW k \in CallType, TakeFits(k, Token(c)), Moves(c, k),
           UNCHANGED <<producerList, producerCount, prod, th, globalOffset>>
    PROVE  TakersInv'
<1>1. PICK a : a = Token(c)
  OBVIOUS
<1>2. a \in TokenType /\ taker[c] = [call |-> Call(c), token |-> a]
  BY <1>1, TakerIs
<1>3. taker' = [taker EXCEPT ![c] = [call |-> k, token |-> a]]
  <2>1. [taker[c] EXCEPT !.call = k] = [call |-> k, token |-> a]
    BY <1>2
  <2> QED BY <2>1 DEF Moves
<1>4. TakeFits(k, a) /\ globalOffset' \in Int
  BY <1>1 DEF TakersInv
<1> QED BY <1>2, <1>3, <1>4, MovingKeeps

LEMMA NoTakeIs ==
    /\ NoTake \in CallType
    /\ NoTake.pc = "idle" /\ NoTake.at = 0 /\ NoTake.best = 0 /\ NoTake.size = 0 /\ NoTake.seen = 0
    /\ NoTake.count = 0 /\ NoTake.steady = {}
BY DEF NoTake, CallType, TakePcs

(* A call begins.                                                            *)
LEMMA BeginTakeKeeps ==
    ASSUME ProducersInv, TakersInv, NEW c \in Takers, NEW pc \in {"score", "rest", "current"},
           NEW max \in Nat \ {0}, BeginTake(c, [NoTake EXCEPT !.pc = pc, !.max = max])
    PROVE  TakersInv'
<1>1. ProducersTypes /\ Tail0 \in Nat
  BY TailIs DEF ProducersInv
<1>2. PICK k : k = [NoTake EXCEPT !.pc = pc, !.max = max, !.at = Tail0, !.steady = NonEmpty]
  OBVIOUS
<1>3. NonEmpty = {q \in OnList : prod[q].items > 0} /\ OnList \subseteq Nat
  BY <1>1, ListIs DEF NonEmpty
<1>4. /\ k \in CallType /\ k.pc = pc /\ k.max = max /\ k.at = Tail0 /\ k.steady = NonEmpty /\ k.best = 0
      /\ k.size = 0 /\ k.seen = 0 /\ k.count = 0
  BY <1>1, <1>2, <1>3 DEF NoTake, CallType, TakePcs
<1>5. Tail0 \in OnList \cup {0} /\ Onward(Tail0) = OnList /\ 0 \notin OnList
  BY <1>1, OnwardTail, ListIs
<1>6. TakeFits(Call(c), Token(c))
  BY TakerIs
<1>7. TakeFits(k, Token(c))
  BY <1>3, <1>4, <1>5, <1>6 DEF TakeFits
<1>8. /\ Moves(c, [[NoTake EXCEPT !.pc = pc, !.max = max] EXCEPT !.at = Tail0, !.steady = NonEmpty])
      /\ UNCHANGED <<producerList, producerCount, prod, th, globalOffset>>
  BY DEF BeginTake, listVars
<1>9. k = [[NoTake EXCEPT !.pc = pc, !.max = max] EXCEPT !.at = Tail0, !.steady = NonEmpty]
  BY <1>2 DEF NoTake
<1> QED BY <1>4, <1>7, <1>8, <1>9, MovesKeep

LEMMA BeginsKeep ==
    ASSUME ProducersInv, TakersInv, NEW c \in Takers,
           TryDequeue(c) \/ TryDequeueBulk(c) \/ TryDequeueToken(c)
    PROVE  TakersInv'
<1>1. CASE TryDequeue(c)
  <2>1. BeginTake(c, [NoTake EXCEPT !.pc = "score", !.max = 1]) /\ 1 \in Nat \ {0}
    BY <1>1 DEF TryDequeue
  <2> QED BY <2>1, BeginTakeKeeps
<1>2. CASE TryDequeueBulk(c)
  <2>1. PICK max \in 1 .. MaxTakeBulk : BeginTake(c, [NoTake EXCEPT !.pc = "rest", !.max = max])
    BY <1>2 DEF TryDequeueBulk
  <2>2. max \in Nat \ {0}
    OBVIOUS
  <2> QED BY <2>1, <2>2, BeginTakeKeeps
<1>3. CASE TryDequeueToken(c)
  <2>1. PICK max \in 1 .. MaxTakeBulk : BeginTake(c, [NoTake EXCEPT !.pc = "current", !.max = max])
    BY <1>3 DEF TryDequeueToken
  <2>2. max \in Nat \ {0}
    OBVIOUS
  <2> QED BY <2>1, <2>2, BeginTakeKeeps
<1> QED BY <1>1, <1>2, <1>3

(* What is known of a producer a call looks at.                              *)
LEMMA LooksAt ==
    ASSUME ProducersInv, TakersInv, NEW q \in OnList
    PROVE  /\ q \in Nat \ {0} /\ prod[q].items \in Nat
           /\ NextProducer(q) \in Nat /\ NextProducer(q) \in OnList \cup {0}
           /\ Onward(q) = {q} \cup Onward(NextProducer(q))
BY ListIs, OnwardNext DEF ProducersInv, TakersInv

LEMMA ScoreKeeps ==
    ASSUME ProducersInv, TakersInv, NEW c \in Takers, Score(c)
    PROVE  TakersInv'
<1>1. PICK k, a : k = Call(c) /\ a = Token(c)
  OBVIOUS
<1>2. k \in CallType /\ TakeFits(k, a) /\ k.pc = "score" /\ k.at # 0
  BY <1>1, TakerIs DEF Score, InTake
<1>3. PICK q \in OnList : q = k.at
  BY <1>2 DEF TakeFits
<1>4. PICK n \in Nat, s \in Nat : /\ n = NextProducer(q) /\ s = prod[q].items /\ n \in OnList \cup {0}
                                  /\ Onward(q) = {q} \cup Onward(n)
  BY LooksAt
<1>5. PICK m : m = [k EXCEPT !.at = n, !.seen = IF s > 0 THEN k.seen + 1 ELSE k.seen,
                             !.best = IF s > k.size THEN q ELSE k.best, !.size = IF s > k.size THEN s ELSE k.size]
  OBVIOUS
<1>6. Moves(c, m) /\ UNCHANGED <<producerList, producerCount, prod, th, globalOffset>>
  BY <1>1, <1>3, <1>4, <1>5 DEF Score, listVars
<1>7. /\ m \in CallType /\ m.pc = "score" /\ m.at = n /\ m.seen = (IF s > 0 THEN k.seen + 1 ELSE k.seen)
      /\ m.best = (IF s > k.size THEN q ELSE k.best) /\ m.size = (IF s > k.size THEN s ELSE k.size)
      /\ m.steady = k.steady /\ m.max = k.max /\ m.count = k.count
  <2>1. q \in Nat /\ k.seen \in Nat /\ k.seen + 1 \in Nat
    BY <1>2, LooksAt DEF CallType
  <2> QED BY <1>2, <1>4, <1>5, <2>1 DEF CallType
<1>8. CASE s = 0
  <2>1. q \notin k.steady
    <3>1. k.steady \subseteq {w \in OnList : prod[w].items > 0}
      BY <1>2 DEF TakeFits
    <3>2. ~(prod[q].items > 0)
      BY <1>4, <1>8
    <3> QED BY <3>1, <3>2
  <2>2. m.seen = k.seen /\ m.best = k.best /\ m.size = k.size
    BY <1>2, <1>7, <1>8 DEF CallType
  <2>3. TakeFits(m, a)
    BY <1>2, <1>3, <1>4, <1>7, <2>1, <2>2 DEF TakeFits
  <2> QED BY <1>1, <1>6, <1>7, <2>3, MovesKeep
<1>9. CASE s # 0
  <2>1. m.seen # 0 /\ m.best # 0 /\ m.best \in OnList \cup {0}
    <3>1. k.seen \in Nat /\ k.size \in Nat /\ q # 0
      BY <1>2, LooksAt DEF CallType
    <3>2. k.seen = 0 => k.size = 0
      BY <1>2 DEF TakeFits
    <3>3. k.seen # 0 => k.best # 0
      BY <1>2 DEF TakeFits
    <3>4. k.best \in OnList \cup {0}
      BY <1>2 DEF TakeFits
    <3> QED BY <1>4, <1>7, <1>9, <3>1, <3>2, <3>3, <3>4
  <2>2. TakeFits(m, a)
    BY <1>2, <1>4, <1>7, <2>1 DEF TakeFits
  <2> QED BY <1>1, <1>6, <1>7, <2>2, MovesKeep
<1> QED BY <1>8, <1>9

(* A call that has what it wanted.                                           *)
LEMMA DoneIs ==
    ASSUME NEW k \in CallType, NEW a \in TokenType, NEW c,
           {k.at, k.best, a.current, a.desired} \subseteq OnList \cup {0}, a.desired # 0 => a.current # 0
    PROVE  /\ Done(c, k) \in CallType /\ Done(c, k).steady = {} /\ TakeFits(Done(c, k), a)
           /\ \A S \in SUBSET Done(c, k).steady : TakeFits([Done(c, k) EXCEPT !.steady = S], a)
<1>1. PICK m : m = Done(c, k)
  OBVIOUS
<1>2. m \in CallType /\ m.pc = "idle" /\ m.steady = {} /\ m.at = k.at /\ m.best = k.best
  BY <1>1 DEF Done, CallType, TakePcs
<1>3. TakeFits(m, a)
  BY <1>2 DEF TakeFits
<1>4. \A S \in SUBSET m.steady : [m EXCEPT !.steady = S] = m
  BY <1>2 DEF CallType
<1> QED BY <1>1, <1>2, <1>3, <1>4

LEMMA TakeBestKeeps ==
    ASSUME ProducersInv, TakersInv, NEW c \in Takers, TakeBest(c)
    PROVE  TakersInv'
<1>1. PICK k, a : k = Call(c) /\ a = Token(c)
  OBVIOUS
<1>2. /\ k \in CallType /\ TakeFits(k, a) /\ k.pc = "score" /\ a \in TokenType
      /\ (k.at = 0 \/ k.seen = 3) /\ UNCHANGED <<producerList, producerCount, th, globalOffset>>
      /\ Onward(0) = {} /\ globalOffset' \in Int
  BY <1>1, TakerIs, ListIs DEF TakeBest, InTake, listVars, ProducersInv, TakersInv
<1>3. CASE k.seen = 0
  <2>1. PICK m : m = [k EXCEPT !.pc = "fail"]
    OBVIOUS
  <2>2. Moves(c, m) /\ UNCHANGED prod
    BY <1>1, <1>3, <2>1 DEF TakeBest
  <2>3. m \in CallType /\ m.pc = "fail" /\ m.at = k.at /\ m.best = k.best /\ m.steady = k.steady
    BY <1>2, <2>1 DEF CallType, TakePcs
  <2>4. k.steady = {}
    BY <1>2, <1>3 DEF TakeFits
  <2>5. TakeFits(m, a)
    BY <1>2, <2>3, <2>4 DEF TakeFits
  <2> QED BY <1>1, <1>2, <2>2, <2>3, <2>5, MovesKeep
<1>4. CASE k.seen # 0
  <2>1. PICK q \in OnList : q = k.best
    BY <1>2, <1>4 DEF TakeFits
  <2>2. prod[q].items \in Nat
    BY LooksAt
  <2>3. CASE prod[q].items > 0
    <3>1. Takes(c, q, 1, Done(c, k), a)
      BY <1>1, <1>4, <2>1, <2>3 DEF TakeBest
    <3>2. /\ Done(c, k) \in CallType /\ Done(c, k).steady = {}
          /\ \A S \in SUBSET Done(c, k).steady : TakeFits([Done(c, k) EXCEPT !.steady = S], a)
      BY <1>2, DoneIs DEF TakeFits
    <3>3. PICK m : m = Done(c, k)
      OBVIOUS
    <3>4. 1 <= prod[q].items
      BY <2>2, <2>3
    <3> QED BY <1>2, <3>1, <3>2, <3>3, <3>4, TakingKeeps
  <2>4. CASE ~(prod[q].items > 0)
    <3>1. PICK m : m = [k EXCEPT !.pc = "rest", !.at = Tail0]
      OBVIOUS
    <3>2. Moves(c, m) /\ UNCHANGED prod
      BY <1>1, <1>4, <2>1, <2>4, <3>1 DEF TakeBest
    <3>3. Tail0 \in OnList \cup {0} /\ Onward(Tail0) = OnList /\ Tail0 \in Nat
      BY OnwardTail, TailIs DEF ProducersInv
    <3>4. /\ m \in CallType /\ m.pc = "rest" /\ m.at = Tail0 /\ m.best = q /\ m.steady = k.steady
          /\ m.max = k.max /\ m.count = k.count
      BY <1>2, <2>1, <3>1, <3>3 DEF CallType, TakePcs
    <3>5. q \notin k.steady
      BY <1>2, <2>4 DEF TakeFits
    <3>6. k.count < k.max
      BY <1>2 DEF TakeFits
    <3>7. TakeFits(m, a)
      BY <1>2, <3>3, <3>4, <3>5, <3>6 DEF TakeFits
    <3> QED BY <1>1, <1>2, <3>2, <3>4, <3>7, MovesKeep
  <2> QED BY <2>3, <2>4
<1> QED BY <1>3, <1>4

LEMMA LeastIs ==
    ASSUME NEW a \in Nat, NEW b \in Nat
    PROVE  Least(a, b) \in Nat /\ Least(a, b) <= a /\ Least(a, b) <= b /\ (Least(a, b) = a \/ Least(a, b) = b)
BY DEF Least

LEMMA TakeNextKeeps ==
    ASSUME ProducersInv, TakersInv, NEW c \in Takers, TakeNext(c)
    PROVE  TakersInv'
<1>1. PICK k, a : k = Call(c) /\ a = Token(c)
  OBVIOUS
<1>2. /\ k \in CallType /\ TakeFits(k, a) /\ k.pc = "rest" /\ a \in TokenType
      /\ UNCHANGED <<producerList, producerCount, th, globalOffset>> /\ Onward(0) = {} /\ globalOffset' \in Int
  BY <1>1, TakerIs, ListIs DEF TakeNext, InTake, listVars, ProducersInv, TakersInv
<1>3. /\ k.count \in Nat /\ k.max \in Nat /\ k.count < k.max /\ k.best \notin k.steady
      /\ (k.count = 0 => k.steady \subseteq Onward(k.at)) /\ k.at \in OnList \cup {0}
      /\ {k.best, a.current, a.desired} \subseteq OnList \cup {0} /\ (a.desired # 0 => a.current # 0)
      /\ k.steady \subseteq {w \in OnList : prod[w].items > 0}
  BY <1>2 DEF TakeFits, CallType
<1>4. CASE k.at = 0
  <2>1. UNCHANGED prod /\ Moves(c, IF k.count = 0 THEN [k EXCEPT !.pc = "fail"] ELSE Done(c, k))
    BY <1>1, <1>4 DEF TakeNext
  <2>2. CASE k.count = 0
    <3>1. PICK m : m = [k EXCEPT !.pc = "fail"]
      OBVIOUS
    <3>2. m \in CallType /\ m.pc = "fail" /\ m.at = k.at /\ m.best = k.best /\ m.steady = k.steady
      BY <1>2, <3>1 DEF CallType, TakePcs
    <3>3. k.steady = {}
      BY <1>2, <1>3, <1>4, <2>2
    <3>4. TakeFits(m, a)
      BY <1>3, <3>2, <3>3 DEF TakeFits
    <3> QED BY <1>1, <1>2, <2>1, <2>2, <3>1, <3>2, <3>4, MovesKeep
  <2>3. CASE k.count # 0
    <3>1. Done(c, k) \in CallType /\ TakeFits(Done(c, k), a)
      BY <1>2, <1>3, DoneIs
    <3>2. PICK m : m = Done(c, k)
      OBVIOUS
    <3> QED BY <1>1, <1>2, <2>1, <2>3, <3>1, <3>2, MovesKeep
  <2> QED BY <2>2, <2>3
<1>5. CASE k.at # 0
  <2>1. PICK q \in OnList : q = k.at /\ q # 0
    BY <1>3, <1>5
  <2>2. PICK onward \in Nat, s \in Nat : /\ onward = NextProducer(q) /\ s = prod[q].items /\ onward \in OnList \cup {0}
                                        /\ Onward(q) = {q} \cup Onward(onward)
    BY LooksAt
  <2>3. k.max - k.count \in Nat
    BY <1>3
  <2>4. PICK n \in Nat : n = IF q = 0 \/ q = k.best THEN 0 ELSE Least(s, k.max - k.count)
    BY <2>2, <2>3, LeastIs
  <2>5. /\ n <= s /\ k.count + n <= k.max
        /\ n = 0 => q = k.best \/ s = 0
    <3>1. CASE q = k.best
      BY <1>3, <2>2, <2>4, <3>1
    <3>2. CASE q # k.best
      <4>1. PICK d \in Nat : d = k.max - k.count
        BY <2>3
      <4>2. n = Least(s, d)
        BY <2>1, <2>4, <3>2, <4>1
      <4>3. n <= s /\ n <= d /\ (n = s \/ n = d)
        BY <2>2, <4>2, LeastIs
      <4> QED BY <1>3, <4>1, <4>3
    <3> QED BY <3>1, <3>2
  <2>6. PICK after : after = [k EXCEPT !.count = k.count + n, !.at = onward]
    OBVIOUS
  <2>7. /\ after \in CallType /\ after.pc = "rest" /\ after.at = onward /\ after.best = k.best
        /\ after.max = k.max /\ after.count = k.count + n /\ after.steady = k.steady
    <3>1. PICK total \in Nat : total = k.count + n
      BY <1>3
    <3>2. after = [k EXCEPT !.count = total, !.at = onward]
      BY <2>6, <3>1
    <3> QED BY <1>2, <2>2, <3>1, <3>2 DEF CallType
  <2>8. Takes(c, q, n, IF after.count = k.max THEN Done(c, after) ELSE after, a)
    BY <1>1, <2>1, <2>2, <2>4, <2>6 DEF TakeNext
  <2>9. CASE after.count = k.max
    <3>1. /\ Done(c, after) \in CallType /\ Done(c, after).steady = {}
          /\ \A S \in SUBSET Done(c, after).steady : TakeFits([Done(c, after) EXCEPT !.steady = S], a)
      <4>1. {after.at, after.best, a.current, a.desired} \subseteq OnList \cup {0}
        BY <1>3, <2>2, <2>7
      <4> QED BY <1>2, <1>3, <2>7, <4>1, DoneIs
    <3>2. PICK m : m = Done(c, after)
      OBVIOUS
    <3> QED BY <1>2, <2>2, <2>5, <2>8, <2>9, <3>1, <3>2, TakingKeeps
  <2>10. CASE after.count # k.max
    <3>1. ASSUME NEW S \in SUBSET after.steady, prod[q].items = n => q \notin S
          PROVE  TakeFits([after EXCEPT !.steady = S], a)
      <4>1. PICK m : m = [after EXCEPT !.steady = S]
        OBVIOUS
      <4>2. /\ m.pc = "rest" /\ m.at = onward /\ m.best = k.best
            /\ m.max = k.max /\ m.count = k.count + n /\ m.steady = S
        BY <2>7, <4>1 DEF CallType
      <4>3. m.count < m.max /\ m.best \notin m.steady
        BY <1>3, <2>5, <2>7, <2>10, <4>2
      <4>4. ASSUME m.count = 0 PROVE m.steady \subseteq Onward(onward)
        <5>1. k.count = 0 /\ n = 0
          BY <1>3, <4>2, <4>4
        <5>2. q \notin S
          BY <1>3, <2>2, <2>5, <2>7, <3>1, <5>1
        <5> QED BY <1>3, <2>1, <2>2, <2>7, <4>2, <5>1, <5>2
      <4>5. TakeFits(m, a)
        BY <1>3, <2>2, <2>7, <4>2, <4>3, <4>4 DEF TakeFits
      <4> QED BY <4>1, <4>5
    <3> QED BY <1>1, <1>2, <2>2, <2>5, <2>7, <2>8, <2>10, <3>1, TakingKeeps
  <2> QED BY <2>9, <2>10
<1> QED BY <1>4, <1>5

LEMMA ReturnKeeps ==
    ASSUME ProducersInv, TakersInv, NEW c \in Takers, ReturnNothing(c)
    PROVE  TakersInv'
<1>1. TakeFits(Call(c), Token(c))
  BY TakerIs
<1>2. TakeFits(NoTake, Token(c))
  BY <1>1, NoTakeIs DEF TakeFits
<1> QED BY <1>2, NoTakeIs, MovesKeep DEF ReturnNothing, listVars

(* With a token: first to the producer that the rotation gives it.           *)
LEMMA UpdateKeeps ==
    ASSUME ProducersInv, TakersInv, NEW c \in Takers, UpdateCurrentProducer(c)
    PROVE  TakersInv'
<1>1. PICK k, a : k = Call(c) /\ a = Token(c)
  OBVIOUS
<1>2. /\ k \in CallType /\ TakeFits(k, a) /\ k.pc = "current" /\ a \in TokenType /\ globalOffset \in Int
      /\ UNCHANGED <<producerList, producerCount, prod, th, globalOffset>> /\ globalOffset' \in Int
      /\ ProducersTypes /\ ListFits /\ taker[c] = [call |-> k, token |-> a]
  BY <1>1, TakerIs DEF UpdateCurrentProducer, InTake, listVars, ProducersInv, TakersInv
<1>3. /\ k.max # 0 /\ {k.at, k.best, a.current, a.desired} \subseteq OnList \cup {0}
      /\ k.steady \subseteq {w \in OnList : prod[w].items > 0} /\ (a.desired # 0 => a.current # 0)
  BY <1>2 DEF TakeFits
<1>4. /\ Tail0 \in OnList \cup {0} /\ (Tail0 = 0 => OnList = {}) /\ OnList \subseteq 1 .. producerCount
      /\ producerCount \in Nat /\ OnList \subseteq Nat /\ 0 \notin OnList
  BY <1>2, OnwardTail, ListIs
<1>5. CASE a.desired = 0 /\ Tail0 = 0
  <2>1. PICK m : m = [k EXCEPT !.pc = "fail"]
    OBVIOUS
  <2>2. Moves(c, m)
    BY <1>1, <1>5, <2>1 DEF UpdateCurrentProducer
  <2>3. m \in CallType /\ m.pc = "fail" /\ m.at = k.at /\ m.best = k.best /\ m.steady = k.steady
    BY <1>2, <2>1 DEF CallType, TakePcs
  <2>4. k.steady = {}
    BY <1>3, <1>4, <1>5
  <2>5. TakeFits(m, a)
    BY <1>3, <2>3, <2>4 DEF TakeFits
  <2> QED BY <1>1, <1>2, <2>2, <2>3, <2>5, MovesKeep
<1>6. CASE ~(a.desired = 0 /\ Tail0 = 0)
  <2>1. PICK first : first = IF a.desired # 0 THEN a.desired
                             ELSE Along(producerCount - 1 - (a.initialOffset % producerCount), Tail0)
    OBVIOUS
  <2>2. producerCount \in Nat \ {0}
    <3>1. a.desired \in OnList \/ Tail0 \in OnList
      BY <1>3, <1>4, <1>6
    <3>2. PICK q \in 1 .. producerCount : TRUE
      BY <1>4, <3>1
    <3> QED BY <1>4, <3>2
  <2>3. first \in OnList
    <3>1. CASE a.desired # 0
      BY <1>3, <2>1, <3>1
    <3>2. CASE a.desired = 0
      <4>1. Tail0 \in OnList
        BY <1>4, <1>6, <3>2
      <4>2. a.initialOffset \in Int
        BY <1>2 DEF TokenType
      <4>3. producerCount - 1 - (a.initialOffset % producerCount) \in Int
        BY <2>2, <4>2
      <4> QED BY <1>2, <2>1, <3>2, <4>1, <4>3, AlongIs
    <3> QED BY <3>1, <3>2
  <2>4. PICK delta \in Int : delta = ((globalOffset - a.lastKnown) % OffsetRange) % producerCount
    <3>1. PICK d \in Int : d = globalOffset - a.lastKnown
      BY <1>2 DEF TokenType
    <3>2. PICK r \in Int : r = d % OffsetRange
      BY ProducersAssumption, ModRange
    <3>3. r % producerCount \in Int
      BY <2>2, ModRange
    <3> QED BY <3>1, <3>2, <3>3
  <2>5. PICK place \in OnList : place = Along(delta, first)
    BY <1>2, <2>3, AlongIs
  <2>6. PICK m, b : /\ m = [k EXCEPT !.pc = "take"]
                    /\ b = [a EXCEPT !.desired = place, !.current = place, !.lastKnown = globalOffset, !.consumed = 0]
    OBVIOUS
  <2>7. /\ m \in CallType /\ m.pc = "take" /\ m.at = k.at /\ m.best = k.best /\ m.steady = k.steady /\ m.max = k.max
        /\ b \in TokenType /\ b.current = place /\ b.desired = place /\ place # 0
    <3>1. /\ m \in CallType /\ m.pc = "take" /\ m.at = k.at /\ m.best = k.best /\ m.steady = k.steady
          /\ m.max = k.max
      BY <1>2, <2>6 DEF CallType, TakePcs
    <3>2. place \in Nat /\ place # 0
      BY <1>4
    <3>3. b = [initialOffset |-> a.initialOffset, lastKnown |-> globalOffset, consumed |-> 0,
               current |-> place, desired |-> place]
      BY <1>2, <2>6 DEF TokenType
    <3>4. b \in TokenType /\ b.current = place /\ b.desired = place
      BY <1>2, <3>2, <3>3 DEF TokenType
    <3> QED BY <3>1, <3>2, <3>4
  <2>8. taker' = [taker EXCEPT ![c].call.pc = "take",
                               ![c].token = [@ EXCEPT !.desired = place, !.current = place,
                                                      !.lastKnown = globalOffset, !.consumed = 0]]
    BY <1>1, <1>6, <2>1, <2>4, <2>5 DEF UpdateCurrentProducer
  <2>9. taker' = [taker EXCEPT ![c] = [call |-> m, token |-> b]]
    <3>1. taker \in [Takers -> [call : CallType, token : TokenType]]
      BY DEF TakersInv
    <3>2. PICK x : x = [taker EXCEPT ![c].call.pc = "take"]
      OBVIOUS
    <3>3. x[c] = [call |-> m, token |-> a]
      BY <1>2, <2>6, <3>1, <3>2
    <3>4. x = [taker EXCEPT ![c] = [call |-> m, token |-> a]]
      BY <3>1, <3>2, <3>3
    <3>5. taker' = [x EXCEPT ![c].token = [x[c].token EXCEPT !.desired = place, !.current = place,
                                                             !.lastKnown = globalOffset, !.consumed = 0]]
      BY <2>8, <3>2
    <3>6. taker' = [x EXCEPT ![c].token = b]
      BY <2>6, <3>3, <3>5
    <3>7. [x[c] EXCEPT !.token = b] = [call |-> m, token |-> b]
      BY <3>3
    <3>8. taker' = [x EXCEPT ![c] = [x[c] EXCEPT !.token = b]]
      BY <3>6
    <3> QED BY <3>1, <3>4, <3>7, <3>8
  <2>10. TakeFits(m, b)
    BY <1>3, <2>7 DEF TakeFits
  <2> QED BY <1>2, <2>7, <2>9, <2>10, MovingKeeps
<1> QED BY <1>5, <1>6

LEMMA TakeCurrentKeeps ==
    ASSUME ProducersInv, TakersInv, NEW c \in Takers, TakeCurrent(c)
    PROVE  TakersInv'
<1>1. PICK k, a : k = Call(c) /\ a = Token(c)
  OBVIOUS
<1>2. /\ k \in CallType /\ TakeFits(k, a) /\ a \in TokenType /\ globalOffset \in Int
      /\ (k.pc = "take" \/ (k.pc = "current" /\ a.desired # 0))
      /\ UNCHANGED <<producerList, producerCount, th>> /\ ProducersTypes /\ ListFits
  BY <1>1, TakerIs DEF TakeCurrent, MustRotate, InTake, listVars, ProducersInv, TakersInv
<1>3. /\ k.max \in Nat \ {0} /\ {k.at, k.best, a.current, a.desired} \subseteq OnList \cup {0}
      /\ k.steady \subseteq {w \in OnList : prod[w].items > 0} /\ (a.desired # 0 => a.current # 0)
      /\ a.current # 0
  BY <1>2 DEF TakeFits, CallType
<1>4. PICK q \in OnList : q = a.current /\ q # 0
  BY <1>3
<1>5. PICK s \in Nat, n \in Nat : s = prod[q].items /\ n = Least(s, k.max) /\ n <= s /\ n <= k.max
                                  /\ (n = 0 => s = 0)
  <2>1. PICK s \in Nat : s = prod[q].items
    BY LooksAt
  <2>2. PICK n : n = Least(s, k.max)
    OBVIOUS
  <2>3. n \in Nat /\ n <= s /\ n <= k.max /\ (n = s \/ n = k.max)
    BY <1>3, <2>1, <2>2, LeastIs
  <2>4. n = 0 => s = 0
    BY <1>3, <2>3
  <2> QED BY <2>1, <2>2, <2>3, <2>4
<1>6. PICK onward \in OnList : onward = (IF NextProducer(q) = 0 THEN Tail0 ELSE NextProducer(q)) /\ onward \in Nat \ {0}
  <2>1. NextProducer(q) \in OnList \cup {0} /\ Tail0 \in OnList /\ OnList \subseteq Nat /\ 0 \notin OnList
    BY <1>2, OnwardNext, OnwardTail, ListIs
  <2> QED BY <2>1
<1>7. Tail0 \in Nat \ {0} /\ Tail0 \in OnList
  BY <1>2, OnwardTail, ListIs
<1>8. PICK total \in Int : total = a.consumed + n
  BY <1>2 DEF TokenType
<1>9. PICK b : b = [a EXCEPT !.consumed = total]
  OBVIOUS
<1>10. b \in TokenType /\ b.current = q /\ b.desired = a.desired
  BY <1>2, <1>4, <1>8, <1>9 DEF TokenType
<1>11. PICK max \in Nat : max = k.max - n
  BY <1>3, <1>5
<1>12. PICK m : m = [k EXCEPT !.pc = "around", !.at = onward, !.best = Tail0, !.count = n, !.max = max]
  OBVIOUS
<1>13. /\ m \in CallType /\ m.pc = "around" /\ m.at = onward /\ m.best = Tail0 /\ m.count = n /\ m.max = max
       /\ m.steady = k.steady
  BY <1>2, <1>6, <1>7, <1>11, <1>12 DEF CallType, TakePcs
<1>14. Takes(c, q, n, IF n = k.max THEN Done(c, k) ELSE m, b)
  BY <1>1, <1>4, <1>5, <1>6, <1>8, <1>9, <1>11, <1>12 DEF TakeCurrent
<1>15. globalOffset' \in Int
  <2>1. globalOffset' = (globalOffset + 1) % OffsetRange \/ globalOffset' = globalOffset
    BY DEF TakeCurrent
  <2> QED BY <1>2, <2>1, ProducersAssumption, ModRange
<1>16. CASE n = k.max
  <2>1. /\ Done(c, k) \in CallType /\ Done(c, k).steady = {}
        /\ \A S \in SUBSET Done(c, k).steady : TakeFits([Done(c, k) EXCEPT !.steady = S], b)
    <3>1. {k.at, k.best, b.current, b.desired} \subseteq OnList \cup {0} /\ (b.desired # 0 => b.current # 0)
      BY <1>3, <1>4, <1>10
    <3> QED BY <1>2, <1>10, <3>1, DoneIs
  <2>2. PICK d : d = Done(c, k)
    OBVIOUS
  <2> QED BY <1>2, <1>5, <1>10, <1>14, <1>15, <1>16, <2>1, <2>2, TakingKeeps
<1>17. CASE n # k.max
  <2>1. max # 0
    BY <1>3, <1>5, <1>11, <1>17
  <2>2. ASSUME NEW S \in SUBSET m.steady, prod[q].items = n => q \notin S
        PROVE  TakeFits([m EXCEPT !.steady = S], b)
    <3>1. PICK r : r = [m EXCEPT !.steady = S]
      OBVIOUS
    <3>2. /\ r.pc = "around" /\ r.at = onward /\ r.best = Tail0 /\ r.count = n /\ r.max = max /\ r.steady = S
      BY <1>13, <3>1 DEF CallType
    <3>3. S \subseteq {w \in OnList : prod[w].items > 0}
      BY <1>3, <1>13
    <3>4. ASSUME n = 0
          PROVE  q \in Onward(Tail0) /\ S \subseteq Left(onward, Tail0, q)
      <4>1. q \notin S
        BY <1>5, <2>2, <3>4
      <4>2. S \in SUBSET OnList
        BY <3>3
      <4> QED BY <1>2, <1>6, <4>1, <4>2, AroundBegins
    <3>5. TakeFits(r, b)
      BY <1>3, <1>4, <1>6, <1>7, <1>10, <2>1, <3>2, <3>3, <3>4 DEF TakeFits
    <3> QED BY <3>1, <3>5
  <2> QED BY <1>1, <1>2, <1>5, <1>10, <1>13, <1>14, <1>15, <1>17, <2>2, TakingKeeps
<1> QED BY <1>16, <1>17

LEMMA TakeAroundKeeps ==
    ASSUME ProducersInv, TakersInv, NEW c \in Takers, TakeAround(c)
    PROVE  TakersInv'
<1>1. PICK k, a : k = Call(c) /\ a = Token(c)
  OBVIOUS
<1>2. /\ k \in CallType /\ TakeFits(k, a) /\ a \in TokenType /\ k.pc = "around" /\ globalOffset' \in Int
      /\ UNCHANGED <<producerList, producerCount, th, globalOffset>> /\ ProducersTypes /\ ListFits
  BY <1>1, TakerIs DEF TakeAround, InTake, listVars, ProducersInv, TakersInv
<1>3. /\ k.max \in Nat \ {0} /\ k.count \in Nat
      /\ k.at \in OnList /\ k.best \in OnList /\ a.current \in OnList /\ a.desired \in OnList \cup {0}
      /\ k.steady \subseteq {w \in OnList : prod[w].items > 0}
      /\ (k.count = 0 => a.current \in Onward(k.best) /\ k.steady \subseteq Left(k.at, k.best, a.current))
  BY <1>2 DEF TakeFits, CallType
<1>4. OnList \subseteq Nat /\ 0 \notin OnList
  BY <1>2, ListIs
<1>5. PICK q \in OnList : q = k.at /\ q # 0 /\ q \in Nat
  BY <1>3, <1>4
<1>6. CASE q = a.current
  <2>1. UNCHANGED prod /\ Moves(c, IF k.count = 0 THEN [k EXCEPT !.pc = "fail"] ELSE Done(c, k))
    BY <1>1, <1>5, <1>6 DEF TakeAround
  <2>2. CASE k.count = 0
    <3>1. PICK m : m = [k EXCEPT !.pc = "fail"]
      OBVIOUS
    <3>2. m \in CallType /\ m.pc = "fail" /\ m.at = k.at /\ m.best = k.best /\ m.steady = k.steady
      BY <1>2, <3>1 DEF CallType, TakePcs
    <3>3. k.steady = {}
      BY <1>3, <1>5, <1>6, <2>2 DEF Left
    <3>4. TakeFits(m, a)
      BY <1>3, <1>4, <3>2, <3>3 DEF TakeFits
    <3> QED BY <1>1, <1>2, <2>1, <2>2, <3>1, <3>2, <3>4, MovesKeep
  <2>3. CASE k.count # 0
    <3>1. Done(c, k) \in CallType /\ TakeFits(Done(c, k), a)
      <4>1. {k.at, k.best, a.current, a.desired} \subseteq OnList \cup {0} /\ (a.desired # 0 => a.current # 0)
        BY <1>3, <1>4
      <4> QED BY <1>2, <4>1, DoneIs
    <3>2. PICK m : m = Done(c, k)
      OBVIOUS
    <3> QED BY <1>1, <1>2, <2>1, <2>3, <3>1, <3>2, MovesKeep
  <2> QED BY <2>2, <2>3
<1>7. CASE q # a.current
  <2>1. PICK s \in Nat, n \in Nat : s = prod[q].items /\ n = Least(s, k.max) /\ n <= s /\ n <= k.max
                                    /\ (n = 0 => s = 0)
    <3>1. PICK s \in Nat : s = prod[q].items
      BY LooksAt
    <3>2. PICK n : n = Least(s, k.max)
      OBVIOUS
    <3>3. n \in Nat /\ n <= s /\ n <= k.max /\ (n = s \/ n = k.max)
      BY <1>3, <3>1, <3>2, LeastIs
    <3>4. n = 0 => s = 0
      BY <1>3, <3>3
    <3> QED BY <3>1, <3>2, <3>3, <3>4
  <2>2. PICK onward \in OnList : onward = (IF NextProducer(q) = 0 THEN k.best ELSE NextProducer(q)) /\ onward \in Nat \ {0}
    <3>1. NextProducer(q) \in OnList \cup {0}
      BY <1>2, OnwardNext
    <3> QED BY <1>3, <1>4, <3>1
  <2>3. PICK total \in Nat, max \in Nat : total = k.count + n /\ max = k.max - n
    BY <1>3, <2>1
  <2>4. PICK b : b = IF n > 0 THEN [a EXCEPT !.current = q, !.consumed = n] ELSE a
    OBVIOUS
  <2>5. b \in TokenType /\ b.desired = a.desired /\ b.current = IF n > 0 THEN q ELSE a.current
    <3>1. CASE n > 0
      <4>1. b = [a EXCEPT !.current = q, !.consumed = n] /\ n \in Int
        BY <2>4, <3>1
      <4> QED BY <1>2, <1>5, <3>1, <4>1 DEF TokenType
    <3>2. CASE ~(n > 0)
      BY <1>2, <2>4, <3>2
    <3> QED BY <3>1, <3>2
  <2>6. PICK m : m = [k EXCEPT !.at = onward, !.count = total, !.max = max]
    OBVIOUS
  <2>7. /\ m \in CallType /\ m.pc = "around" /\ m.at = onward /\ m.best = k.best /\ m.count = total /\ m.max = max
        /\ m.steady = k.steady
    BY <1>2, <2>2, <2>6 DEF CallType
  <2>8. Takes(c, q, n, IF n = k.max THEN Done(c, m) ELSE m, b)
    BY <1>1, <1>5, <1>7, <2>1, <2>2, <2>3, <2>4, <2>6 DEF TakeAround
  <2>9. {m.at, m.best, b.current, b.desired} \subseteq OnList \cup {0} /\ b.current # 0
    BY <1>3, <1>4, <1>5, <2>2, <2>5, <2>7
  <2>10. CASE n = k.max
    <3>1. /\ Done(c, m) \in CallType /\ Done(c, m).steady = {}
          /\ \A S \in SUBSET Done(c, m).steady : TakeFits([Done(c, m) EXCEPT !.steady = S], b)
      BY <2>5, <2>7, <2>9, DoneIs
    <3>2. PICK d : d = Done(c, m)
      OBVIOUS
    <3> QED BY <1>2, <2>1, <2>5, <2>8, <2>10, <3>1, <3>2, TakingKeeps
  <2>11. CASE n # k.max
    <3>1. max # 0
      BY <1>3, <2>1, <2>3, <2>11
    <3>2. ASSUME NEW S \in SUBSET m.steady, prod[q].items = n => q \notin S
          PROVE  TakeFits([m EXCEPT !.steady = S], b)
      <4>1. PICK r : r = [m EXCEPT !.steady = S]
        OBVIOUS
      <4>2. /\ r.pc = "around" /\ r.at = onward /\ r.best = k.best /\ r.count = total /\ r.max = max /\ r.steady = S
        BY <2>7, <4>1 DEF CallType
      <4>3. S \subseteq {w \in OnList : prod[w].items > 0}
        BY <1>3, <2>7
      <4>4. ASSUME total = 0
            PROVE  b.current \in Onward(k.best) /\ S \subseteq Left(onward, k.best, b.current)
        <5>1. k.count = 0 /\ n = 0 /\ b.current = a.current
          BY <1>3, <2>3, <2>5, <4>4
        <5>2. q \notin S
          BY <2>1, <3>2, <5>1
        <5>3. S \in SUBSET OnList /\ S \subseteq Left(q, k.best, a.current) /\ a.current \in Onward(k.best)
          BY <1>3, <1>5, <2>7, <4>3, <5>1
        <5> QED BY <1>2, <1>3, <1>7, <2>2, <5>1, <5>2, <5>3, AroundGoesOn
      <4>5. {r.at, r.best, b.current, b.desired} \subseteq OnList \cup {0} /\ r.best # 0 /\ r.at # 0
        BY <1>3, <1>4, <2>2, <2>7, <2>9, <4>2
      <4>6. TakeFits(r, b)
        BY <2>9, <3>1, <4>2, <4>3, <4>4, <4>5 DEF TakeFits
      <4> QED BY <4>1, <4>6
    <3> QED BY <1>1, <1>2, <2>1, <2>5, <2>7, <2>8, <2>11, <3>2, TakingKeeps
  <2> QED BY <2>10, <2>11
<1> QED BY <1>6, <1>7

LEMMA TakersFit ==
    ASSUME ProducersInv, TakersInv, NEW c \in Takers, TakerSteps(c)
    PROVE  TakersInv'
BY BeginsKeep, ScoreKeeps, TakeBestKeeps, TakeNextKeeps, ReturnKeeps, UpdateKeeps, TakeCurrentKeeps,
   TakeAroundKeeps DEF TakerSteps

(* A thread adds elements and, at the head, producers.                       *)
LEMMA AddingKeeps ==
    ASSUME ProducersInv, TakersInv, Kept, ListFits', UNCHANGED <<taker, globalOffset>>,
           \A q \in 1 .. producerCount' : prod'[q].items \in Nat,
           \A q \in 1 .. producerCount : prod'[q].items \in Nat /\ prod'[q].items >= prod[q].items
    PROVE  TakersInv'
<1>1. OnList \subseteq 1 .. producerCount
  BY ListIs DEF ProducersInv
<1>2. ASSUME NEW d \in Takers PROVE TakeFits(Call(d), Token(d))'
  <2>1. PICK k, a : k = Call(d) /\ a = Token(d)
    OBVIOUS
  <2>2. k \in CallType /\ a \in TokenType /\ TakeFits(k, a)
    BY <2>1, TakerIs
  <2>3. ASSUME NEW q \in k.steady PROVE prod'[q].items > 0
    <3>1. q \in 1 .. producerCount /\ prod[q].items > 0 /\ prod[q].items \in Nat
      BY <1>1, <2>2 DEF TakeFits, TakersInv
    <3>2. prod'[q].items \in Nat /\ prod'[q].items >= prod[q].items
      BY <3>1
    <3> QED BY <3>1, <3>2
  <2>4. TakeFits(k, a)'
    BY <2>2, <2>3, OthersTake
  <2> QED BY <2>1, <2>4 DEF Call, Token
<1> QED BY <1>2 DEF TakersInv

(* Nobody sets out to put another producer on the list.                      *)
NoneToPush == \A u \in Threads : th'[u].pc = "push" => th[u].pc = "push" /\ th'[u].mine = th[u].mine

LEMMA NoneToPushIs ==
    ASSUME ProducersTypes, NEW t \in Threads, NEW l, l.pc # "push", Go(t, l)
    PROVE  NoneToPush
<1>1. th'[t] = l /\ \A u \in Threads : u # t => th'[u] = th[u]
  BY DEF Go, ProducersTypes
<1> QED BY <1>1 DEF NoneToPush

LEMMA SearchersDoNotPush ==
    ASSUME ProducersInv, NEW t \in Threads,
           \/ Lookup(t) \/ CopyToMain(t) \/ CountSlot(t) \/ BeginResize(t) \/ Resize(t) \/ Double(t)
           \/ NewTable(t) \/ NewTableFails(t) \/ RoomOrWait(t) \/ Insert(t)
    PROVE  NoneToPush /\ UNCHANGED <<listVars, prod, taker, globalOffset>>
<1>1. PICK l : l = th[t]
  OBVIOUS
<1>2. l \in ThreadType /\ ProducersTypes
  BY <1>1, Before
<1>3. UNCHANGED <<listVars, prod, taker, globalOffset>>
  BY DEF Lookup, CopyToMain, CountSlot, BeginResize, Resize, Double, NewTable, NewTableFails, RoomOrWait,
         Insert, takeVars
<1>4. \E m : Go(t, m) /\ m.pc # "push"
  <2>1. CASE Lookup(t)
    <3>1. PICK x : x = [Rest EXCEPT !.main = Main, !.index = HashOf[t]]
      OBVIOUS
    <3>2. \/ Go(t, [x EXCEPT !.pc = "count"])
          \/ \E g : Go(t, [x EXCEPT !.mine = g, !.pc = "put"])
          \/ \E g : Go(t, [x EXCEPT !.mine = g, !.pc = "copy"])
      <4>1. CASE FoundIn(t) = {}
        BY <2>1, <3>1, <4>1 DEF Lookup
      <4>2. CASE FoundIn(t) # {} /\ Newest(FoundIn(t)) = Main
        <5>1. Go(t, [x EXCEPT !.mine = Finds(Newest(FoundIn(t)), t), !.pc = "put"])
          BY <2>1, <3>1, <4>2 DEF Lookup
        <5> QED BY <5>1
      <4>3. CASE FoundIn(t) # {} /\ Newest(FoundIn(t)) # Main
        <5>1. Go(t, [x EXCEPT !.mine = Finds(Newest(FoundIn(t)), t), !.pc = "copy"])
          BY <2>1, <3>1, <4>3 DEF Lookup
        <5> QED BY <5>1
      <4> QED BY <4>1, <4>2, <4>3
    <3>3. /\ [x EXCEPT !.pc = "count"].pc # "push"
          /\ \A g : [x EXCEPT !.mine = g, !.pc = "put"].pc # "push" /\ [x EXCEPT !.mine = g, !.pc = "copy"].pc # "push"
      BY <3>1 DEF Rest
    <3> QED BY <3>2, <3>3
  <2>2. CASE CopyToMain(t) \/ Insert(t)
    <3>1. PICK i : i = (l.index + 1) % Capacity(l.main)
      OBVIOUS
    <3>2. Go(t, [l EXCEPT !.pc = "put"]) \/ Go(t, [l EXCEPT !.index = i])
      BY <1>1, <2>2, <3>1 DEF CopyToMain, Insert, NextSlot
    <3>3. [l EXCEPT !.pc = "put"].pc # "push" /\ [l EXCEPT !.index = i].pc # "push"
      BY <1>1, <1>2, <2>2 DEF ThreadType, CopyToMain, Insert, ThreadAt
    <3> QED BY <3>2, <3>3
  <2>3. CASE CountSlot(t) \/ BeginResize(t) \/ Resize(t) \/ Double(t) \/ NewTable(t)
    <3>1. PICK n, x, y : n = hashCount + 1 /\ x = 2 * Capacity(l.main) /\ y = 2 * l.capacity
      OBVIOUS
    <3>2. \/ Go(t, [l EXCEPT !.pc = "room", !.count = n])
          \/ Go(t, [l EXCEPT !.pc = "resize", !.main = Main])
          \/ Go(t, [l EXCEPT !.pc = "double", !.capacity = x])
          \/ Go(t, [l EXCEPT !.pc = "add"])
          \/ Go(t, [l EXCEPT !.capacity = y]) /\ l.pc = "double"
          \/ Go(t, [l EXCEPT !.pc = "add", !.main = Main + 1])
      BY <1>1, <2>3, <3>1 DEF CountSlot, BeginResize, Resize, Double, NewTable, ThreadAt
    <3>3. /\ [l EXCEPT !.pc = "room", !.count = n].pc = "room"
          /\ [l EXCEPT !.pc = "resize", !.main = Main].pc = "resize"
          /\ [l EXCEPT !.pc = "double", !.capacity = x].pc = "double"
          /\ [l EXCEPT !.pc = "add"].pc = "add"
          /\ [l EXCEPT !.capacity = y].pc = l.pc
          /\ [l EXCEPT !.pc = "add", !.main = Main + 1].pc = "add"
      BY <1>2 DEF ThreadType
    <3> QED BY <3>2, <3>3
  <2>4. CASE NewTableFails(t) \/ RoomOrWait(t)
    <3>1. \/ Go(t, Rest) \/ Go(t, [l EXCEPT !.pc = "room", !.main = Main])
          \/ Go(t, [l EXCEPT !.pc = "recycle", !.at = Tail0])
      BY <1>1, <2>4 DEF NewTableFails, RoomOrWait
    <3>2. /\ Rest.pc # "push" /\ [l EXCEPT !.pc = "room", !.main = Main].pc = "room"
          /\ [l EXCEPT !.pc = "recycle", !.at = Tail0].pc = "recycle"
      BY <1>2 DEF ThreadType, Rest
    <3> QED BY <3>1, <3>2
  <2> QED BY <2>1, <2>2, <2>3, <2>4
<1> QED BY <1>2, <1>3, <1>4, NoneToPushIs

LEMMA OwnersDoNotPush ==
    ASSUME ProducersInv, NEW t \in Threads,
           \/ Recycle(t) \/ CreateFails(t) \/ TakeToken(t) \/ Subscribe(t) \/ Put(t) \/ NewProducerToken(t)
           \/ PutByToken(t) \/ DropToken(t) \/ ThreadExit(t) \/ LeaveTable(t) \/ LeaveProducer(t)
    PROVE  NoneToPush /\ UNCHANGED <<listVars, taker, globalOffset>>
<1>1. PICK l : l = th[t]
  OBVIOUS
<1>2. l \in ThreadType /\ ProducersTypes
  BY <1>1, Before
<1>3. UNCHANGED <<listVars, taker, globalOffset>>
  BY DEF Recycle, CreateFails, TakeToken, Subscribe, Put, NewProducerToken, PutByToken, DropToken, ThreadExit,
         LeaveTable, LeaveProducer, takeVars
<1>4. CASE DropToken(t)
  BY <1>3, <1>4 DEF DropToken, NoneToPush
<1>5. CASE ~DropToken(t)
  <2>1. PICK n, h, o : n = NextProducer(l.at) /\ h = l.main - 1 /\ o = owned[t]
    OBVIOUS
  <2>2. CASE Recycle(t)
    <3>1. Go(t, [l EXCEPT !.pc = "have", !.mine = l.at]) \/ Go(t, [l EXCEPT !.at = n])
      BY <1>1, <2>1, <2>2 DEF Recycle
    <3>2. [l EXCEPT !.pc = "have", !.mine = l.at].pc # "push" /\ [l EXCEPT !.at = n].pc # "push"
      BY <1>1, <1>2, <2>2 DEF ThreadType, Recycle, ThreadAt
    <3> QED BY <1>2, <1>3, <3>1, <3>2, NoneToPushIs
  <2>3. CASE LeaveTable(t) \/ Subscribe(t)
    <3>1. (Go(t, [l EXCEPT !.main = h]) /\ l.pc = "exit") \/ Go(t, [l EXCEPT !.pc = "insert"])
      BY <1>1, <2>1, <2>3 DEF LeaveTable, Subscribe, ThreadAt
    <3>2. [l EXCEPT !.main = h].pc = l.pc /\ [l EXCEPT !.pc = "insert"].pc # "push"
      BY <1>2 DEF ThreadType
    <3> QED BY <1>2, <1>3, <3>1, <3>2, NoneToPushIs
  <2>4. CASE \/ CreateFails(t) \/ TakeToken(t) \/ Put(t) \/ NewProducerToken(t) \/ PutByToken(t)
             \/ ThreadExit(t) \/ LeaveProducer(t)
    <3>1. \/ Go(t, Rest) \/ Go(t, [Rest EXCEPT !.pc = "recycle", !.explicit = TRUE, !.at = Tail0])
          \/ Go(t, [Rest EXCEPT !.pc = "put", !.mine = o]) \/ Go(t, [Rest EXCEPT !.pc = "exit", !.main = Main])
      BY <2>1, <2>4 DEF CreateFails, TakeToken, Put, NewProducerToken, PutByToken, ThreadExit, LeaveProducer
    <3>2. /\ Rest.pc # "push" /\ [Rest EXCEPT !.pc = "recycle", !.explicit = TRUE, !.at = Tail0].pc # "push"
          /\ [Rest EXCEPT !.pc = "put", !.mine = o].pc # "push" /\ [Rest EXCEPT !.pc = "exit", !.main = Main].pc # "push"
      BY DEF Rest
    <3> QED BY <1>2, <1>3, <3>1, <3>2, NoneToPushIs
  <2> QED BY <1>5, <2>2, <2>3, <2>4
<1> QED BY <1>4, <1>5

(* The number of elements does not fall.                                     *)
LEMMA ItemsGrow ==
    ASSUME ProducersInv, TakersInv, NEW t \in Threads,
           \/ Recycle(t) \/ CreateFails(t) \/ TakeToken(t) \/ Subscribe(t) \/ Put(t) \/ NewProducerToken(t)
           \/ PutByToken(t) \/ DropToken(t) \/ ThreadExit(t) \/ LeaveTable(t) \/ LeaveProducer(t)
    PROVE  \A q \in 1 .. producerCount : prod'[q].items \in Nat /\ prod'[q].items >= prod[q].items
<1>1. ASSUME NEW q \in 1 .. producerCount
      PROVE  prod'[q].items \in Nat /\ prod'[q].items >= prod[q].items
  <2>1. PICK x, w : x = prod[q] /\ w = th[t].mine
    OBVIOUS
  <2>2. /\ x = [explicit |-> x.explicit, inactive |-> x.inactive, items |-> x.items] /\ x.items \in Nat
        /\ DOMAIN prod = 1 .. producerCount
    BY <2>1, Before DEF ProducersTypes, TakersInv
  <2>3. CASE Put(t)
    <3>1. prod' = [prod EXCEPT ![w].items = prod[w].items + 1]
      BY <2>1, <2>3 DEF Put
    <3>2. prod'[q].items = x.items + 1 \/ prod'[q].items = x.items
      BY <2>1, <2>2, <3>1
    <3> QED BY <2>1, <2>2, <3>2
  <2>4. CASE Recycle(t) \/ DropToken(t) \/ LeaveProducer(t)
    <3>1. PICK o, v : o = owned[t] /\ v = th[t].at
      OBVIOUS
    <3>2. \/ UNCHANGED prod \/ prod' = [prod EXCEPT ![v].inactive = FALSE] \/ prod' = [prod EXCEPT ![o].inactive = TRUE]
          \/ prod' = [r \in DOMAIN prod |-> IF r \in listeners[t] THEN [prod[r] EXCEPT !.inactive = TRUE] ELSE prod[r]]
      BY <2>4, <3>1 DEF Recycle, DropToken, LeaveProducer
    <3>3. prod'[q] = x \/ prod'[q] = [x EXCEPT !.inactive = FALSE] \/ prod'[q] = [x EXCEPT !.inactive = TRUE]
      BY <2>1, <2>2, <3>2
    <3>4. prod'[q].items = x.items
      BY <2>2, <3>3
    <3> QED BY <2>1, <2>2, <3>4
  <2>5. CASE ~Put(t) /\ ~(Recycle(t) \/ DropToken(t) \/ LeaveProducer(t))
    <3>1. UNCHANGED prod
      BY <2>5 DEF CreateFails, TakeToken, Subscribe, NewProducerToken, PutByToken, ThreadExit, LeaveTable
    <3> QED BY <2>1, <2>2, <3>1
  <2> QED BY <2>3, <2>4, <2>5
<1> QED BY <1>1

LEMMA CreateSpares ==
    ASSUME ProducersInv, TakersInv, NEW t \in Threads, Create(t)
    PROVE  TakersInv'
<1>1. ProducersTypes /\ OnList \subseteq 1 .. producerCount /\ ListFits /\ Kept /\ OnList' = OnList
  BY ListIs, SameListKept DEF ProducersInv, TakersInv, Create
<1>2. PICK n, m : n \in Nat /\ n = producerCount + 1 /\ m = [th[t] EXCEPT !.pc = "push", !.mine = n]
  <2>1. producerCount + 1 \in Nat
    BY <1>1 DEF ProducersTypes
  <2> QED BY <2>1
<1>3. /\ producerCount' = n /\ prod' = Append(prod, [explicit |-> th[t].explicit, inactive |-> FALSE, items |-> 0])
      /\ Go(t, m) /\ UNCHANGED <<producerList, taker, globalOffset>>
  BY <1>2 DEF Create, takeVars
<1>4. producerCount \in Nat /\ prod = [w \in 1 .. producerCount |-> prod[w]]
  BY <1>1 DEF ProducersTypes
<1>5. /\ \A q \in 1 .. producerCount : prod'[q] = prod[q]
      /\ prod'[n] = [explicit |-> th[t].explicit, inactive |-> FALSE, items |-> 0]
  BY <1>2, <1>3, <1>4, AppendTo
<1>6. \A q \in 1 .. producerCount : prod'[q].items \in Nat /\ prod'[q].items >= prod[q].items
  BY <1>5 DEF TakersInv
<1>7. \A q \in 1 .. producerCount' : prod'[q].items \in Nat
  <2>1. prod'[n].items = 0
    BY <1>5
  <2>2. ASSUME NEW q \in 1 .. n PROVE prod'[q].items \in Nat
    <3>1. q = n \/ q \in 1 .. producerCount
      BY <1>2, <1>4
    <3> QED BY <1>6, <2>1, <3>1
  <2> QED BY <1>3, <2>2
<1>8. ListFits'
  <2>1. th'[t].mine = n /\ \A u \in Threads : u # t => th'[u] = th[u]
    BY <1>1, <1>2, <1>3 DEF Go, ProducersTypes, ThreadType
  <2>2. n \notin OnList
    BY <1>1, <1>2, <1>4
  <2> QED BY <1>1, <1>3, <2>1, <2>2 DEF ListFits
<1> QED BY <1>1, <1>3, <1>6, <1>7, <1>8, AddingKeeps

LEMMA PushSpares ==
    ASSUME ProducersInv, TakersInv, NEW t \in Threads, Push(t)
    PROVE  TakersInv'
<1>1. ProducersTypes /\ ListFits
  BY DEF ProducersInv, TakersInv
<1>2. PICK q : q = th[t].mine
  OBVIOUS
<1>3. /\ q \in 1 .. producerCount /\ q \notin OnList /\ th[t].pc = "push"
      /\ producerList' = <<q>> \o producerList /\ Go(t, [th[t] EXCEPT !.pc = "have"])
      /\ UNCHANGED <<producerCount, prod, taker, globalOffset>>
  BY <1>1, <1>2, Before DEF Push, ThreadAt, LocalFit, ListFits, takeVars
<1>4. PICK n \in Nat : /\ n = Len(producerList) /\ DOMAIN producerList = 1 .. n
                       /\ DOMAIN producerList' = 1 .. n + 1 /\ producerList'[1] = q
                       /\ \A i \in 1 .. n : producerList'[i + 1] = producerList[i]
                       /\ \A i \in 2 .. n + 1 : producerList'[i] = producerList[i - 1]
  <2>1. producerList \in Seq(1 .. producerCount) /\ <<q>> \in Seq(1 .. producerCount) /\ Len(<<q>>) = 1
    BY <1>1, <1>3 DEF ProducersTypes
  <2>2. /\ producerList' \in Seq(1 .. producerCount) /\ Len(producerList') = 1 + Len(producerList)
        /\ \A i \in 1 .. 1 + Len(producerList) :
             producerList'[i] = IF i <= 1 THEN <<q>>[i] ELSE producerList[i - 1]
    BY <1>3, <2>1, ConcatProperties
  <2>3. PICK n \in Nat : n = Len(producerList) /\ DOMAIN producerList = 1 .. n
    BY <2>1, LenProperties
  <2>4. DOMAIN producerList' = 1 .. n + 1
    BY <2>2, <2>3, LenProperties
  <2>5. producerList'[1] = q
    BY <2>2, <2>3
  <2>6. \A i \in 2 .. n + 1 : producerList'[i] = producerList[i - 1]
    BY <2>2, <2>3
  <2>7. ASSUME NEW i \in 1 .. n PROVE producerList'[i + 1] = producerList[i]
    <3>1. i + 1 \in 2 .. n + 1 /\ (i + 1) - 1 = i
      OBVIOUS
    <3> QED BY <2>6, <3>1
  <2> QED BY <2>3, <2>4, <2>5, <2>6, <2>7
<1>5. OnList' = OnList \cup {q}
  <2>1. OnList \cup {q} \subseteq OnList'
    <3>1. 1 \in 1 .. n + 1 /\ \A i \in 1 .. n : i + 1 \in 1 .. n + 1
      BY <1>4
    <3> QED BY <1>4, <3>1 DEF OnList
  <2>2. OnList' \subseteq OnList \cup {q}
    <3>1. \A i \in 1 .. n + 1 : i = 1 \/ (i \in 2 .. n + 1 /\ i - 1 \in 1 .. n)
      BY <1>4
    <3> QED BY <1>4, <3>1 DEF OnList
  <2> QED BY <2>1, <2>2
<1>6. ASSUME NEW i \in DOMAIN producerList', NEW j \in DOMAIN producerList', producerList'[i] = producerList'[j]
      PROVE  i = j
  <2>1. /\ i = 1 \/ (i \in 2 .. n + 1 /\ i - 1 \in 1 .. n)
        /\ j = 1 \/ (j \in 2 .. n + 1 /\ j - 1 \in 1 .. n)
    BY <1>4
  <2>2. ASSUME NEW k \in 2 .. n + 1 PROVE producerList'[k] # q
    <3>1. k - 1 \in DOMAIN producerList /\ producerList'[k] = producerList[k - 1]
      BY <1>4
    <3> QED BY <1>3, <3>1 DEF OnList
  <2>3. CASE i = 1 \/ j = 1
    BY <1>4, <1>6, <2>1, <2>2, <2>3
  <2>4. CASE i # 1 /\ j # 1
    <3>1. i - 1 = j - 1
      BY <1>1, <1>4, <1>6, <2>1, <2>4 DEF ListFits
    <3> QED BY <2>1, <2>4, <3>1
  <2> QED BY <2>3, <2>4
<1>7. ListFits'
  <2>1. th'[t].pc = "have" /\ \A u \in Threads : u # t => th'[u] = th[u]
    BY <1>1, <1>3 DEF Go, ProducersTypes, ThreadType
  <2>2. ASSUME NEW u \in Threads, th'[u].pc = "push" PROVE th'[u].mine \notin OnList'
    <3>1. u # t /\ th[u].pc = "push" /\ th'[u] = th[u]
      BY <2>1, <2>2
    <3>2. th[u].mine # q
      <4>1. UsedOnce(q) /\ Uses(t, q)
        BY <1>2, <1>3 DEF ProducersInv, Uses, Having
      <4>2. th[u].mine = q => Uses(u, q)
        BY <3>1 DEF Uses, Having
      <4> QED BY <3>1, <4>1, <4>2 DEF UsedOnce
    <3> QED BY <1>1, <1>5, <3>1, <3>2 DEF ListFits
  <2> QED BY <1>6, <2>2 DEF ListFits
<1>8. Kept
  <2>1. Onward(0)' = Onward(0)
    <3>1. Onward(0) = {} /\ Onward(0)' = {}
      <4>1. 0 \notin OnList'
        BY <1>1, <1>3, <1>5, ListIs
      <4>2. Onward(0)' = {}
        BY <4>1 DEF Onward, OnList
      <4> QED BY <1>1, <4>2, ListIs
    <3> QED BY <3>1
  <2>2. ASSUME NEW a \in OnList PROVE Onward(a)' = Onward(a)
    <3>1. a # q
      BY <1>3
    <3>2. ASSUME NEW w \in Onward(a) PROVE w \in Onward(a)'
      <4>1. PICK i, j \in 1 .. n : i <= j /\ producerList[i] = a /\ producerList[j] = w
        BY <1>4 DEF Onward
      <4>2. /\ i + 1 \in DOMAIN producerList' /\ j + 1 \in DOMAIN producerList' /\ i + 1 <= j + 1
            /\ producerList'[i + 1] = a /\ producerList'[j + 1] = w
        BY <1>4, <4>1
      <4>3. w \in OnList'
        BY <4>2 DEF OnList
      <4> QED BY <4>2, <4>3 DEF Onward
    <3>3. ASSUME NEW w \in Onward(a)' PROVE w \in Onward(a)
      <4>1. PICK i, j \in 1 .. n + 1 : i <= j /\ producerList'[i] = a /\ producerList'[j] = w
        BY <1>4 DEF Onward
      <4>2. i # 1
        BY <1>4, <3>1, <4>1
      <4>3. /\ i - 1 \in DOMAIN producerList /\ j - 1 \in DOMAIN producerList /\ i - 1 <= j - 1
            /\ producerList[i - 1] = a /\ producerList[j - 1] = w
        BY <1>4, <4>1, <4>2
      <4>4. w \in OnList
        BY <4>3 DEF OnList
      <4> QED BY <4>3, <4>4 DEF Onward
    <3> QED BY <3>2, <3>3
  <2> QED BY <1>5, <2>1, <2>2 DEF Kept
<1>9. \A q2 \in 1 .. producerCount : prod'[q2].items \in Nat /\ prod'[q2].items >= prod[q2].items
  BY <1>3 DEF TakersInv
<1> QED BY <1>3, <1>7, <1>8, <1>9, AddingKeeps

LEMMA ThreadsFit ==
    ASSUME ProducersInv, TakersInv, NEW t \in Threads, ThreadSteps(t)
    PROVE  TakersInv'
<1>1. CASE Create(t) \/ Push(t)
  BY <1>1, CreateSpares, PushSpares
<1>2. CASE ~(Create(t) \/ Push(t))
  <2>1. \/ Lookup(t) \/ CopyToMain(t) \/ CountSlot(t) \/ BeginResize(t) \/ Resize(t) \/ Double(t)
        \/ NewTable(t) \/ NewTableFails(t) \/ RoomOrWait(t) \/ Insert(t)
        \/ Recycle(t) \/ CreateFails(t) \/ TakeToken(t) \/ Subscribe(t) \/ Put(t) \/ NewProducerToken(t)
        \/ PutByToken(t) \/ DropToken(t) \/ ThreadExit(t) \/ LeaveTable(t) \/ LeaveProducer(t)
    BY <1>2 DEF ThreadSteps
  <2>2. NoneToPush /\ UNCHANGED <<listVars, taker, globalOffset>>
    BY <2>1, SearchersDoNotPush, OwnersDoNotPush
  <2>3. \A q \in 1 .. producerCount : prod'[q].items \in Nat /\ prod'[q].items >= prod[q].items
    <3>1. CASE UNCHANGED prod
      BY <3>1 DEF TakersInv
    <3> QED BY <2>1, <3>1, SearchersDoNotPush, ItemsGrow
  <2>4. Kept /\ OnList' = OnList
    BY <2>2, SameListKept DEF listVars
  <2>5. ListFits'
    BY <2>2, <2>4 DEF TakersInv, ListFits, NoneToPush, listVars
  <2> QED BY <2>2, <2>3, <2>4, <2>5, AddingKeeps DEF listVars
<1> QED BY <1>1, <1>2

LEMMA TakersInvStep ==
    ProducersInv /\ TakersInv /\ [ProducersNext]_producersVars => TakersInv'
<1> SUFFICES ASSUME ProducersInv, TakersInv, [ProducersNext]_producersVars
             PROVE  TakersInv'
  OBVIOUS
<1>1. CASE UNCHANGED producersVars
  <2>1. Kept /\ OnList' = OnList
    BY <1>1, SameListKept DEF producersVars
  <2>2. ListFits'
    BY <1>1, <2>1 DEF TakersInv, ListFits, producersVars
  <2>3. \A q \in 1 .. producerCount : prod'[q].items \in Nat /\ prod'[q].items >= prod[q].items
    BY <1>1 DEF TakersInv, producersVars
  <2> QED BY <1>1, <2>1, <2>2, <2>3, AddingKeeps DEF producersVars
<1> QED BY <1>1, ThreadsFit, TakersFit DEF ProducersNext

LEMMA TakersInvInit == ProducersInit => TakersInv
<1> SUFFICES ASSUME ProducersInit PROVE TakersInv
  OBVIOUS
<1>1. PICK number \in [Takers -> 0 .. Cardinality(Takers) - 1] :
        taker = [c \in Takers |-> [call |-> NoTake, token |-> NewToken(number[c])]]
  BY DEF ProducersInit
<1>2. Cardinality(Takers) \in Nat
  BY ProducersAssumption, FS_CardinalityType
<1>3. ASSUME NEW c \in Takers
      PROVE  /\ NewToken(number[c]) \in TokenType
             /\ NewToken(number[c]).current = 0 /\ NewToken(number[c]).desired = 0
  <2>1. PICK n \in Int : n = number[c]
    BY <1>2
  <2>2. NewToken(n) \in TokenType /\ NewToken(n).current = 0 /\ NewToken(n).desired = 0
    BY ProducersAssumption DEF NewToken, TokenType
  <2> QED BY <2>1, <2>2
<1>4. taker \in [Takers -> [call : CallType, token : TokenType]]
  BY <1>1, <1>3, NoTakeIs
<1>5. ASSUME NEW c \in Takers PROVE TakeFits(Call(c), Token(c))
  <2>1. Call(c) = NoTake /\ Token(c) = NewToken(number[c])
    BY <1>1 DEF Call, Token
  <2> QED BY <1>3, <2>1, NoTakeIs DEF TakeFits
<1>6. producerList = <<>> /\ producerCount = 0 /\ globalOffset = 0 /\ \A t \in Threads : th[t].pc = "idle"
  BY RestIs DEF ProducersInit
<1>7. ListFits
  BY <1>6 DEF ListFits
<1> QED BY <1>4, <1>5, <1>6, <1>7 DEF TakersInv

(* A dequeue that returns nothing, with a token or without, of one element or *)
(* of many, overlooked no producer: each that was on the list was empty at    *)
(* some time since the call began, however the list grew, whatever others     *)
(* took and however the tokens rotated meanwhile.                             *)
THEOREM NeverOverlooked == ProducersSpec => []NotOverlooked
<1>1. TakersInv => NotOverlooked
  BY TakerIs DEF NotOverlooked, InTake, TakeFits
<1> QED BY <1>1, ProducersInvAlways, TakersInvInit, TakersInvStep, PTL DEF ProducersSpec
=============================================================================
