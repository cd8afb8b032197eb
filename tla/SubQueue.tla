------------------------------ MODULE SubQueue ------------------------------
(* One sub-queue of moodycamel::ConcurrentQueue: a single producer enqueues, *)
(* any number of consumers dequeue.  An explicit producer (of a token) and   *)
(* an implicit one (of a thread) share the counters; they differ in how      *)
(* blocks are reused and in the index that leads from a position to its      *)
(* block.  A position is never reused here, so indices do not wrap.          *)
EXTENDS Naturals, Integers, FiniteSets, Sequences, SequencesExt

CONSTANTS Consumers,
          Blocks,      \* all the memory there is
          BlockSize,   \* BLOCK_SIZE
          IndexSize,   \* the initial size of a block index
          MaxElements, \* bound: elements enqueued
          MaxBulk,     \* bound: elements of one enqueue_bulk
          MaxDequeue,  \* bound: elements of one dequeue_bulk
          MaxOvercommit, \* bound: attempts that find nothing after all
          BulkMayFail, \* whether an explicit bulk may run out of memory
          None

VARIABLES isExplicit,
          tailIndex, headIndex, dequeueOptimisticCount, dequeueOvercommit,
          slots,     \* the elements of each block
          emptied,   \* the positions of a block that are empty again
          next,      \* the ring (explicit), or the chain (implicit) of blocks
          free,      \* the blocks a producer can requisition
          tailBlock,
          entry,     \* block index entries: [base, block]
          headers,   \* block indices, the last one is current: [front, index]
          used,      \* pr_blockIndexSlotsUsed
          prFront,   \* pr_blockIndexFront
          p,         \* the producer's locals
          con,       \* each consumer's locals
          got,       \* the elements consumers were given
          destroyed  \* elements the destructor found

counters == <<isExplicit, tailIndex, headIndex, dequeueOptimisticCount, dequeueOvercommit>>
blockVars == <<slots, emptied, next, free, tailBlock>>
indexVars == <<entry, headers, used, prFront>>
subQueueVars == <<counters, blockVars, indexVars, p, con, got, destroyed>>

Offsets == 0 .. BlockSize - 1
Offset(i) == i % BlockSize
Base(i) == (i \div BlockSize) * BlockSize
IsEmpty(b) == emptied[b] = Offsets
Header == headers[Len(headers)]
Size(h) == Len(headers[h].index)
EntryAt(h, slot) == headers[h].index[(slot % Size(h)) + 1]
Current == Len(headers)

IdleProducer == [pc |-> "idle", count |-> 0, need |-> 0, base |-> 0, chain |-> <<>>,
                 startBlock |-> None, startFront |-> 0, startUsed |-> 0]
IdleConsumer == [pc |-> "idle", max |-> 0, over |-> 0, desired |-> 0, excess |-> 0, my |-> 0,
                 from |-> 0, at |-> 0, end |-> 0, hdr |-> 0, slot |-> 0, block |-> None]

(* An index of unused entries: the explicit producer's holds no block, the   *)
(* implicit one's entries have an invalid key.                               *)
SubQueueInit ==
    /\ isExplicit \in BOOLEAN
    /\ tailIndex = 0 /\ headIndex = 0
    /\ dequeueOptimisticCount = 0 /\ dequeueOvercommit = 0
    /\ slots = [b \in Blocks |-> [o \in Offsets |-> 0]]
    /\ emptied = [b \in Blocks |-> {}]
    /\ next = [b \in Blocks |-> None]
    /\ free = Blocks /\ tailBlock = None
    /\ entry = [i \in 1 .. IndexSize |-> [base |-> -1, block |-> None]]
    /\ headers = <<[front |-> -1, index |-> [i \in 1 .. IndexSize |-> i]]>>
    /\ used = 0 /\ prFront = 0
    /\ p = IdleProducer
    /\ con = [c \in Consumers |-> IdleConsumer]
    /\ got = {}
    /\ destroyed = {}

-----------------------------------------------------------------------------
(* Enqueuing n elements: enqueue() is the case n = 1.  First the blocks.     *)

BlocksNeeded(n) == (Base(tailIndex + n - 1) - Base(tailIndex - 1)) \div BlockSize

StartEnqueue(n) ==
    /\ p.pc = "idle" /\ tailIndex + n <= MaxElements
    /\ p' = [IdleProducer EXCEPT
               !.pc = IF BlocksNeeded(n) = 0 THEN "fill" ELSE IF isExplicit THEN "reuse" ELSE "insert",
               !.count = n, !.need = BlocksNeeded(n), !.base = Base(tailIndex - 1),
               !.startBlock = tailBlock, !.startFront = prFront, !.startUsed = used]
    /\ UNCHANGED <<counters, blockVars, indexVars, con, got, destroyed>>

First == IF p.chain = <<>> THEN None ELSE Head(p.chain)

(* One more block of the bulk, and whether it was the last.                  *)
Took(b, more) == [p EXCEPT !.base = @ + BlockSize, !.need = @ - 1,
                           !.chain = Append(@, b),
                           !.pc = IF p.need > 1 THEN more
                                  ELSE IF isExplicit THEN "expose" ELSE "fill"]
Enter(b) ==
    /\ entry' = [entry EXCEPT ![EntryAt(Current, prFront)] = [base |-> p.base + BlockSize, block |-> b]]
    /\ prFront' = (prFront + 1) % Size(Current)

CanReuseFull == tailBlock # None /\ next[tailBlock] # First \* (mutant) elements or not
CanReuse == /\ tailBlock # None /\ next[tailBlock] # First
            /\ IsEmpty(next[tailBlock])

(* The block ahead in the ring is empty: use it again.                       *)
ReuseBlock ==
    /\ p.pc = "reuse" /\ CanReuse
    /\ tailBlock' = next[tailBlock]
    /\ Enter(tailBlock')
    /\ p' = Took(tailBlock', "reuse")
    /\ UNCHANGED <<counters, slots, emptied, next, free, headers, used, con, got, destroyed>>

(* From the first block on that is not, new ones are taken.                  *)
Fresh == p.pc = "fresh" \/ (p.pc = "reuse" /\ ~CanReuse)

(* The index is full: the entries in use go to one of twice the size.        *)
NewExplicitIndex ==
    /\ Fresh /\ used = Size(Current)
    /\ LET fresh == Len(entry)
           old(j) == entry[EntryAt(Current, prFront - used + j - 1)] IN
       /\ entry' = entry \o [j \in 1 .. 2 * Size(Current) |->
                               IF j <= used THEN old(j) ELSE [base |-> -1, block |-> None]]
       /\ headers' = Append(headers, [front |-> p.startUsed - 1,
                                      index |-> [j \in 1 .. 2 * Size(Current) |-> fresh + j]])
    /\ prFront' = used
    /\ p' = [p EXCEPT !.startFront = p.startUsed, !.pc = "fresh"]
    /\ UNCHANGED <<counters, blockVars, used, con, got, destroyed>>

Requisition(b) == b \in free /\ free' = free \ {b}

(* A new block goes into the ring behind the tail.                           *)
FreshBlock ==
    /\ Fresh /\ used < Size(Current)
    /\ \E b \in Blocks :
         /\ Requisition(b)
         /\ emptied' = [emptied EXCEPT ![b] = Offsets]
         /\ next' = IF tailBlock = None THEN [next EXCEPT ![b] = b]
                    ELSE [next EXCEPT ![b] = next[tailBlock], ![tailBlock] = b]
         /\ tailBlock' = b
         /\ Enter(b)
         /\ p' = Took(b, "fresh")
    /\ used' = used + 1
    /\ UNCHANGED <<counters, slots, headers, con, got, destroyed>>

(* No memory, at any time: the call fails.  Blocks that are in the ring stay *)
(* there, but are no longer counted as used.                                 *)
UndoExplicit ==
    /\ Fresh /\ used < Size(Current)
    /\ p.count > 1 => BulkMayFail
    /\ prFront' = p.startFront /\ used' = p.startUsed
    /\ tailBlock' = IF p.startBlock = None THEN First ELSE p.startBlock
    /\ p' = IdleProducer
    /\ UNCHANGED <<counters, slots, emptied, next, free, entry, headers, con, got, destroyed>>

(* All blocks are there: they count as full of elements, and consumers may   *)
(* see them in the index.                                                    *)
Expose ==
    /\ p.pc = "expose"
    /\ emptied' = [b \in Blocks |-> IF b \in ToSet(p.chain) THEN {} ELSE emptied[b]]
    /\ headers' = [headers EXCEPT ![Current].front = (prFront - 1) % Size(Current)]
    /\ p' = [p EXCEPT !.pc = "fill"]
    /\ UNCHANGED <<counters, slots, next, free, tailBlock, entry, used, prFront, con, got, destroyed>>

-----------------------------------------------------------------------------
(* The implicit producer enters a block into the index before it has it.     *)

NextEntry == EntryAt(Current, Header.front + 1)
Usable(e) == entry[e].base = -1 \/ entry[e].block = None

InsertIndexEntry ==
    /\ p.pc = "insert" /\ Usable(NextEntry)
    /\ entry' = [entry EXCEPT ![NextEntry].base = p.base + BlockSize]
    /\ headers' = [headers EXCEPT ![Current].front = (@ + 1) % Size(Current)]
    /\ p' = [p EXCEPT !.pc = "requisition"]
    /\ UNCHANGED <<counters, blockVars, used, prFront, con, got, destroyed>>

(* The new index has the old entries themselves, from the oldest on, and as  *)
(* many new ones behind them.                                                *)
NewImplicitIndex ==
    /\ p.pc = "insert" /\ ~Usable(NextEntry)
    /\ entry' = entry \o [i \in 1 .. Size(Current) |-> [base |-> -1, block |-> None]]
    /\ headers' = Append(headers,
         [front |-> Size(Current) - 1,
          index |-> [i \in 1 .. 2 * Size(Current) |->
                       IF i <= Size(Current) THEN EntryAt(Current, Header.front + i)
                       ELSE Len(entry) + i - Size(Current)]])
    /\ UNCHANGED <<counters, blockVars, used, prFront, p, con, got, destroyed>>

CurrentEntry == EntryAt(Current, Header.front)

ImplicitBlock ==
    /\ p.pc = "requisition"
    /\ \E b \in Blocks :
         /\ Requisition(b)
         /\ emptied' = [emptied EXCEPT ![b] = {}]
         /\ entry' = [entry EXCEPT ![CurrentEntry].block = b]
         /\ p' = Took(b, "insert")
         /\ tailBlock' = b
    /\ UNCHANGED <<counters, slots, next, headers, used, prFront, con, got, destroyed>>

(* No memory: every entry and block of this call is given back.              *)
UndoImplicit ==
    /\ p.pc = "requisition"
    /\ LET n == Len(p.chain) IN
       /\ entry' = [e \in DOMAIN entry |->
            IF \E k \in 0 .. n : e = EntryAt(Current, Header.front - k)
            THEN [entry[e] EXCEPT !.block = None] ELSE entry[e]]
       /\ headers' = [headers EXCEPT ![Current].front = (@ - n - 1) % Size(Current)]
    /\ free' = free \cup ToSet(p.chain)
    /\ tailBlock' = p.startBlock
    /\ p' = IdleProducer
    /\ UNCHANGED <<counters, slots, emptied, next, used, prFront, con, got, destroyed>>

-----------------------------------------------------------------------------
(* Then the elements, and at last the tail, which makes them visible.        *)

BlockOf(i) == IF Base(i) = Base(tailIndex - 1) THEN p.startBlock
              ELSE p.chain[(Base(i) - Base(tailIndex - 1)) \div BlockSize]

Fill ==
    /\ p.pc = "fill"
    /\ slots' = [b \in Blocks |-> [o \in Offsets |->
         LET is == {i \in tailIndex .. tailIndex + p.count - 1 : BlockOf(i) = b /\ Offset(i) = o} IN
         IF is = {} THEN slots[b][o] ELSE 1 + CHOOSE i \in is : TRUE]]
    /\ p' = [p EXCEPT !.pc = "publish"]
    /\ UNCHANGED <<counters, emptied, next, free, tailBlock, indexVars, con, got, destroyed>>

PublishTail ==
    /\ p.pc = "publish"
    /\ tailIndex' = tailIndex + p.count
    /\ p' = IdleProducer
    /\ UNCHANGED <<isExplicit, headIndex, dequeueOptimisticCount, dequeueOvercommit,
                   blockVars, indexVars, con, got, destroyed>>

AddElements == Fill \/ PublishTail
ExplicitBlocks == ReuseBlock \/ NewExplicitIndex \/ FreshBlock \/ UndoExplicit \/ Expose
ImplicitBlocks == InsertIndexEntry \/ NewImplicitIndex \/ ImplicitBlock \/ UndoImplicit

ExplicitEnqueue == isExplicit /\ (StartEnqueue(1) \/ (p.count = 1 /\ (ExplicitBlocks \/ AddElements)))
ExplicitEnqueueBulk ==
    isExplicit /\ (\/ \E n \in 2 .. MaxBulk : StartEnqueue(n)
                   \/ p.count > 1 /\ (ExplicitBlocks \/ AddElements))
ImplicitEnqueue == ~isExplicit /\ (StartEnqueue(1) \/ (p.count = 1 /\ (ImplicitBlocks \/ AddElements)))
ImplicitEnqueueBulk ==
    ~isExplicit /\ (\/ \E n \in 2 .. MaxBulk : StartEnqueue(n)
                    \/ p.count > 1 /\ (ImplicitBlocks \/ AddElements))

-----------------------------------------------------------------------------
(* Dequeuing up to max elements: dequeue() is the case max = 1.              *)

Min2(a, b) == IF a < b THEN a ELSE b
At(c, pc) == con[c].pc = pc
Goto(c, pc) == con' = [con EXCEPT ![c].pc = pc]

(* Is there anything to dequeue?  The code reads the counters one by one, but *)
(* tail and count only grow: what it lets through was there to dequeue when  *)
(* it read the overcommit.                                                   *)
StartDequeue(c, max) ==
    LET n == tailIndex - (dequeueOptimisticCount - dequeueOvercommit) IN
    /\ At(c, "idle") /\ n > 0 /\ dequeueOvercommit < MaxOvercommit
    /\ con' = [con EXCEPT ![c] = [IdleConsumer EXCEPT !.pc = "commit", !.max = max,
                  !.over = dequeueOvercommit, !.desired = Min2(n, max)]]
    /\ UNCHANGED <<counters, blockVars, indexVars, p, got, destroyed>>

Commit(c) ==
    /\ At(c, "commit")
    /\ dequeueOptimisticCount' = dequeueOptimisticCount + con[c].desired
    /\ con' = [con EXCEPT ![c].pc = "recount", ![c].my = dequeueOptimisticCount]
    /\ UNCHANGED <<isExplicit, tailIndex, headIndex, dequeueOvercommit,
                   blockVars, indexVars, p, got, destroyed>>

(* The tail is read again: what is beyond it is paid back.                   *)
Actual(c) == LET n == tailIndex - (con[c].my - con[c].over) IN
             IF n <= 0 THEN 0 ELSE Min2(n, con[c].desired)
Recount(c) ==
    /\ At(c, "recount")
    /\ con' = [con EXCEPT ![c].pc = IF Actual(c) < con[c].desired THEN "overcommit" ELSE "claim",
                          ![c].desired = Actual(c), ![c].excess = con[c].desired - Actual(c)]
    /\ UNCHANGED <<counters, blockVars, indexVars, p, got, destroyed>>

PayBackNothing(c) ==  \* (mutant) the overcommit is forgotten
    /\ At(c, "overcommit")
    /\ con' = [con EXCEPT ![c] = IF @.desired = 0 THEN IdleConsumer ELSE [@ EXCEPT !.pc = "claim"]]
    /\ UNCHANGED <<counters, blockVars, indexVars, p, got, destroyed>>

PayBack(c) ==
    /\ At(c, "overcommit")
    /\ dequeueOvercommit' = dequeueOvercommit + con[c].excess
    /\ IF con[c].desired = 0 THEN con' = [con EXCEPT ![c] = IdleConsumer]
       ELSE Goto(c, "claim")
    /\ UNCHANGED <<isExplicit, tailIndex, headIndex, dequeueOptimisticCount,
                   blockVars, indexVars, p, got, destroyed>>

Claim(c) ==
    /\ At(c, "claim")
    /\ headIndex' = headIndex + con[c].desired
    /\ con' = [con EXCEPT ![c].pc = "locate", ![c].at = headIndex, ![c].end = headIndex']
    /\ UNCHANGED <<isExplicit, tailIndex, dequeueOptimisticCount, dequeueOvercommit,
                   blockVars, indexVars, p, got, destroyed>>

(* Where is the block?  The index may be replaced, and its front may move,   *)
(* before the entry is used.                                                 *)
FindEntry(c) ==
    LET frontBase == entry[EntryAt(Current, Header.front)].base IN
    /\ At(c, "locate")
    /\ con' = [con EXCEPT ![c].pc = "take", ![c].hdr = Current,
                  ![c].slot = Header.front + (Base(con[c].at) - frontBase) \div BlockSize]
    /\ UNCHANGED <<counters, blockVars, indexVars, p, got, destroyed>>

EntryOf(c) == EntryAt(con[c].hdr, con[c].slot)
BlockEnd(c) == Min2(con[c].end, Base(con[c].at) + BlockSize)

TakeElements(c) ==
    LET b == entry[EntryOf(c)].block
        value(i) == IF b = None THEN 0 ELSE slots[b][Offset(i)] IN
    /\ At(c, "take")
    /\ got' = got \cup {value(i) : i \in con[c].at .. BlockEnd(c) - 1}
    /\ con' = [con EXCEPT ![c].pc = "empty", ![c].block = b,
                          ![c].from = con[c].at, ![c].at = BlockEnd(c)]
    /\ UNCHANGED <<counters, blockVars, indexVars, p, destroyed>>

Emptied(c) == {Offset(i) : i \in con[c].from .. con[c].at - 1}
(* On to the next block, or done.                                            *)
NextBlock(c) ==
    con' = [con EXCEPT ![c] = IF @.at = @.end THEN IdleConsumer
                              ELSE [@ EXCEPT !.pc = "take", !.slot = @ + 1]]

(* set_empty, set_many_empty: in an implicit producer, who empties the last  *)
(* position of a block gives it back.                                        *)
SetEmpty(c) ==
    /\ At(c, "empty")
    /\ emptied' = [emptied EXCEPT ![con[c].block] = @ \cup Emptied(c)]
    /\ IF ~isExplicit /\ emptied'[con[c].block] = Offsets THEN Goto(c, "release")
       ELSE NextBlock(c)
    /\ UNCHANGED <<counters, slots, next, free, tailBlock, indexVars, p, got, destroyed>>

ReleaseBlock(c) ==
    /\ At(c, "release")
    /\ entry' = [entry EXCEPT ![EntryOf(c)].block = None]
    /\ free' = free \cup {con[c].block}
    /\ NextBlock(c)
    /\ UNCHANGED <<counters, slots, emptied, next, tailBlock, headers, used, prFront, p, got, destroyed>>

DequeueStep(c) == \/ Commit(c) \/ Recount(c) \/ PayBack(c) \/ Claim(c)
                  \/ FindEntry(c) \/ TakeElements(c)

Dequeue(c) == StartDequeue(c, 1) \/ (con[c].max = 1 /\ DequeueStep(c))
DequeueBulk(c) == \/ \E max \in 2 .. MaxDequeue : StartDequeue(c, max)
                  \/ con[c].max > 1 /\ DequeueStep(c)
ExplicitDequeue(c) == isExplicit /\ (Dequeue(c) \/ (con[c].max = 1 /\ SetEmpty(c)))
ExplicitDequeueBulk(c) == isExplicit /\ (DequeueBulk(c) \/ (con[c].max > 1 /\ SetEmpty(c)))
ImplicitDequeue(c) ==
    ~isExplicit /\ (Dequeue(c) \/ (con[c].max = 1 /\ (SetEmpty(c) \/ ReleaseBlock(c))))
ImplicitDequeueBulk(c) ==
    ~isExplicit /\ (DequeueBulk(c) \/ (con[c].max > 1 /\ (SetEmpty(c) \/ ReleaseBlock(c))))

-----------------------------------------------------------------------------
(* The destructors, when nobody uses the queue any more.                     *)

AtRest == p.pc = "idle" /\ \A c \in Consumers : At(c, "idle")

(* The first entry, from the oldest on, whose block reaches up to the head.  *)
HalfDequeued ==
    LET e(k) == entry[EntryAt(Current, prFront - used + k)]
        k == CHOOSE k \in 0 .. Len(entry) : /\ e(k).base + BlockSize >= headIndex
                                /\ \A j \in 0 .. k - 1 : e(j).base + BlockSize < headIndex
    IN IF Offset(headIndex) = 0 THEN None ELSE e(k).block

Ring == {b \in Blocks : next[b] # None /\ b \notin free}

DestroyExplicit ==
    /\ isExplicit /\ AtRest /\ tailBlock # None
    /\ destroyed' = UNION {LET first == IF b = HalfDequeued THEN Offset(headIndex) ELSE 0
                               last == IF b = tailBlock /\ Offset(tailIndex) # 0
                                       THEN Offset(tailIndex) - 1 ELSE BlockSize - 1
                           IN {slots[b][o] : o \in first .. last} : b \in {r \in Ring : ~IsEmpty(r)}}
    /\ free' = free \cup Ring

DestroyImplicit ==
    LET blockOf(i) == entry[EntryAt(Current, Header.front + (Base(i) - entry[CurrentEntry].base) \div BlockSize)].block
        left == headIndex .. tailIndex - 1 IN
    /\ ~isExplicit /\ AtRest
    /\ destroyed' = {slots[blockOf(i)][Offset(i)] : i \in left}
    /\ free' = free \cup {blockOf(i) : i \in left}
                    \cup (IF left # {} \/ Offset(tailIndex) # 0 THEN {tailBlock} \ {None} ELSE {})

Destroy ==
    /\ DestroyExplicit \/ DestroyImplicit
    /\ p' = [IdleProducer EXCEPT !.pc = "dead"]
    /\ con' = [c \in Consumers |-> [IdleConsumer EXCEPT !.pc = "dead"]]
    /\ UNCHANGED <<counters, slots, emptied, next, tailBlock, indexVars, got>>

SubQueueNext ==
    \/ ExplicitEnqueue \/ ExplicitEnqueueBulk \/ ImplicitEnqueue \/ ImplicitEnqueueBulk
    \/ \E c \in Consumers : \/ ExplicitDequeue(c) \/ ExplicitDequeueBulk(c)
                            \/ ImplicitDequeue(c) \/ ImplicitDequeueBulk(c)
    \/ Destroy

SubQueueSpec == SubQueueInit /\ [][SubQueueNext]_subQueueVars
=============================================================================
