------------------------------ MODULE Producers ------------------------------
(* How moodycamel::ConcurrentQueue gives each thread a sub-queue of its own: *)
(* a lock-free list of producers that only grows, tokens that own explicit   *)
(* producers, hash tables from thread ids to implicit producers that grow    *)
(* while they are in use, and the dequeues that walk the list.  Of a         *)
(* sub-queue there is the number of its elements.                            *)
EXTENDS Naturals, Integers, Sequences, SequencesExt, FiniteSets

CONSTANTS Threads,        \* thread ids; the id of a thread that is gone is used again
          HashOf,         \* hash_thread_id
          Takers, TokenTakers, \* consumers, and those that have a token as well
          HashSize,       \* INITIAL_IMPLICIT_PRODUCER_HASH_SIZE
          Quota,          \* EXPLICIT_CONSUMER_CONSUMPTION_QUOTA_BEFORE_ROTATE
          OffsetRange,    \* the width of the global offset
          Budgets,        \* bound: calls of threads and of consumers, and how often
                          \* memory runs out
          MaxProducers, MaxTakeBulk, \* bounds
          Vacant, Reusable, Nobody  \* invalid_thread_id, invalid_thread_id2, nullptr

ASSUME ProducersAssumption ==
    /\ HashOf \in [Threads -> Nat] /\ HashSize \in Nat \ {0}
    /\ Vacant \notin Threads /\ Reusable \notin Threads /\ Vacant # Reusable
    /\ IsFiniteSet(Takers) /\ OffsetRange \in Nat \ {0}

VARIABLES producerList,   \* from producerListTail on
          producerCount,
          prod,           \* each producer: [explicit, inactive, items]
          hashes,         \* the tables, newest last: [key, value]
          hashCount,      \* implicitProducerHashCount
          resizing,       \* implicitProducerHashResizeInProgress
          globalOffset,   \* globalExplicitConsumerOffset
          th,             \* each thread's locals
          owned,          \* the producer of each thread's token
          listeners,      \* the producers that hear of a thread's end
          taker,          \* each consumer's locals and token
          bound           \* calls that are left, takes of each consumer: [puts, takes, fails]

producersVars == <<producerList, producerCount, prod, hashes, hashCount, resizing,
                   globalOffset, th, owned, listeners, taker, bound>>

listVars == <<producerList, producerCount>>
hashVars == <<hashes, hashCount, resizing>>
takeVars == <<globalOffset, taker>>

EmptyTable(capacity) == [key |-> [i \in 0 .. capacity - 1 |-> Vacant],
                         value |-> [i \in 0 .. capacity - 1 |-> 0]]
Capacity(h) == Cardinality(DOMAIN hashes[h].key)
Main == Len(hashes)

Rest == [pc |-> "idle", main |-> 0, count |-> 0, at |-> 0, index |-> 0, mine |-> 0, capacity |-> 0,
         explicit |-> FALSE]
NoTake == [pc |-> "idle", at |-> 0, best |-> 0, size |-> 0, seen |-> 0, max |-> 0, count |-> 0, steady |-> {}]
NewToken(n) == [initialOffset |-> n, lastKnown |-> OffsetRange - 1, consumed |-> 0,
                current |-> 0, desired |-> 0]

(* 0 stands for a null pointer; a producer is the number of its creation.    *)
ProducersInit ==
    /\ producerList = <<>> /\ producerCount = 0 /\ prod = <<>>
    /\ hashes = <<EmptyTable(HashSize)>> /\ hashCount = 0 /\ resizing = Nobody
    /\ globalOffset = 0
    /\ th = [t \in Threads |-> Rest]
    /\ owned = [t \in Threads |-> 0]
    /\ listeners = [t \in Threads |-> {}]
    /\ \E number \in [Takers -> 0 .. Cardinality(Takers) - 1] :
         /\ IsInjective(number)
         /\ taker = [c \in Takers |-> [call |-> NoTake, token |-> NewToken(number[c])]]
    /\ bound \in Budgets

ThreadAt(t, pc) == th[t].pc = pc
Go(t, l) == th' = [th EXCEPT ![t] = l]

Position(p) == CHOOSE j \in DOMAIN producerList : producerList[j] = p
NextProducer(p) == IF Position(p) = Len(producerList) THEN 0 ELSE producerList[Position(p) + 1]
Tail0 == IF producerList = <<>> THEN 0 ELSE producerList[1]

-----------------------------------------------------------------------------
(* The probe sequence of an id, and the place where a lookup finds it: the   *)
(* lookup stops at a vacant slot.                                            *)
Probe(h, id, k) == (HashOf[id] + k) % Capacity(h)
Finds(h, id) ==
    LET n == Capacity(h) IN
    IF \E k \in 0 .. n - 1 :
          /\ hashes[h].key[Probe(h, id, k)] = id
          /\ \A j \in 0 .. k - 1 : hashes[h].key[Probe(h, id, j)] # Vacant
    THEN hashes[h].value[CHOOSE i \in 0 .. n - 1 : hashes[h].key[i] = id] ELSE 0

FoundIn(id) == {h \in 1 .. Main : Finds(h, id) # 0}
Newest(S) == CHOOSE h \in S : \A g \in S : g <= h

(* enqueue without a token: find this thread's producer.  Only the thread    *)
(* itself puts its id in a table or removes it.                              *)
Lookup(t) ==
    /\ ThreadAt(t, "idle") /\ bound.puts > 0
    /\ bound' = [bound EXCEPT !.puts = @ - 1]
    /\ LET found == FoundIn(t)
           l == [Rest EXCEPT !.main = Main, !.index = HashOf[t]] IN
       Go(t, IF found = {} THEN [l EXCEPT !.pc = "count"]
             ELSE [l EXCEPT !.mine = Finds(Newest(found), t),
                            !.pc = IF Newest(found) = Main THEN "put" ELSE "copy"])
    /\ UNCHANGED <<listVars, prod, hashVars, owned, listeners, takeVars>>

Slot(t) == hashes[th[t].main].key[th[t].index % Capacity(th[t].main)]
ClaimSlot(t) ==
    LET i == th[t].index % Capacity(th[t].main) IN
    hashes' = [hashes EXCEPT ![th[t].main].key[i] = t, ![th[t].main].value[i] = th[t].mine]
NextSlot(t) == [th[t] EXCEPT !.index = (@ + 1) % Capacity(th[t].main)]

(* It was found in an older table: add it to the newest one known.           *)
CopyToMain(t) ==
    /\ ThreadAt(t, "copy")
    /\ IF Slot(t) \in {Vacant, Reusable} THEN ClaimSlot(t) /\ Go(t, [th[t] EXCEPT !.pc = "put"])
       ELSE UNCHANGED hashes /\ Go(t, NextSlot(t))
    /\ UNCHANGED <<listVars, prod, hashCount, resizing, owned, listeners, takeVars, bound>>

(* It was not: one more slot is used, whichever it will be.                  *)
CountSlot(t) ==
    /\ ThreadAt(t, "count")
    /\ hashCount' = hashCount + 1
    /\ Go(t, [th[t] EXCEPT !.pc = "room", !.count = hashCount + 1])
    /\ UNCHANGED <<listVars, prod, hashes, resizing, owned, listeners, takeVars, bound>>

HalfFull(count, h) == count >= Capacity(h) \div 2
TooFull(count, h) == count >= (Capacity(h) \div 2) + (Capacity(h) \div 4)

BeginResize(t) ==
    /\ ThreadAt(t, "room") /\ HalfFull(th[t].count, th[t].main) /\ resizing = Nobody
    /\ resizing' = t
    /\ Go(t, [th[t] EXCEPT !.pc = "resize", !.main = Main])
    /\ UNCHANGED <<listVars, prod, hashes, hashCount, owned, listeners, takeVars, bound>>

(* Unless another thread has made room: double until less than half full.    *)
Resize(t) ==
    /\ ThreadAt(t, "resize")
    /\ IF HalfFull(th[t].count, th[t].main)
       THEN /\ UNCHANGED resizing
            /\ Go(t, [th[t] EXCEPT !.pc = "double", !.capacity = 2 * Capacity(th[t].main)])
       ELSE resizing' = Nobody /\ Go(t, [th[t] EXCEPT !.pc = "add"])
    /\ UNCHANGED <<listVars, prod, hashes, hashCount, owned, listeners, takeVars, bound>>

Suffices(t) == th[t].count < th[t].capacity \div 2

Double(t) ==
    /\ ThreadAt(t, "double") /\ ~Suffices(t)
    /\ Go(t, [th[t] EXCEPT !.capacity = 2 * @])
    /\ UNCHANGED <<listVars, prod, hashVars, owned, listeners, takeVars, bound>>

NewTable(t) ==
    /\ ThreadAt(t, "double") /\ Suffices(t)
    /\ hashes' = Append(hashes, EmptyTable(th[t].capacity))
    /\ resizing' = Nobody
    /\ Go(t, [th[t] EXCEPT !.pc = "add", !.main = Main + 1])
    /\ UNCHANGED <<listVars, prod, hashCount, owned, listeners, takeVars, bound>>

NewTableFails(t) ==
    /\ bound.fails > 0 /\ bound' = [bound EXCEPT !.fails = @ - 1]
    /\ ThreadAt(t, "double") /\ Suffices(t)
    /\ resizing' = Nobody /\ hashCount' = hashCount - 1
    /\ Go(t, Rest)
    /\ UNCHANGED <<listVars, prod, hashes, owned, listeners, takeVars>>

(* Less than three quarters full will do; otherwise wait for another thread's *)
(* new table.                                                                 *)
RoomOrWait(t) ==
    /\ \/ ThreadAt(t, "add")
       \/ ThreadAt(t, "room") /\ ~(HalfFull(th[t].count, th[t].main) /\ resizing = Nobody)
    /\ Go(t, IF TooFull(th[t].count, th[t].main) THEN [th[t] EXCEPT !.pc = "room", !.main = Main]
             ELSE [th[t] EXCEPT !.pc = "recycle", !.at = Tail0])
    /\ UNCHANGED <<listVars, prod, hashVars, owned, listeners, takeVars, bound>>
-----------------------------------------------------------------------------
(* recycle_or_create_producer: the first of the kind that nobody uses, or a  *)
(* new one at the head of the list.                                          *)
Recycle(t) ==
    LET q == th[t].at IN
    /\ ThreadAt(t, "recycle") /\ q # 0
    /\ IF prod[q].inactive /\ prod[q].explicit = th[t].explicit
       THEN /\ prod' = [prod EXCEPT ![q].inactive = FALSE]
            /\ Go(t, [th[t] EXCEPT !.pc = "have", !.mine = q])
       ELSE UNCHANGED prod /\ Go(t, [th[t] EXCEPT !.at = NextProducer(q)])
    /\ UNCHANGED <<listVars, hashVars, owned, listeners, takeVars, bound>>

Create(t) ==
    /\ ThreadAt(t, "recycle") /\ th[t].at = 0 /\ producerCount < MaxProducers
    /\ producerCount' = producerCount + 1
    /\ prod' = Append(prod, [explicit |-> th[t].explicit, inactive |-> FALSE, items |-> 0])
    /\ Go(t, [th[t] EXCEPT !.pc = "push", !.mine = producerCount + 1])
    /\ UNCHANGED <<producerList, hashVars, owned, listeners, takeVars, bound>>

CreateFails(t) ==
    /\ bound.fails > 0 /\ bound' = [bound EXCEPT !.fails = @ - 1]
    /\ ThreadAt(t, "recycle") /\ th[t].at = 0
    /\ hashCount' = IF th[t].explicit THEN hashCount ELSE hashCount - 1
    /\ Go(t, Rest)
    /\ UNCHANGED <<listVars, prod, hashes, resizing, owned, listeners, takeVars>>

Push(t) ==
    /\ ThreadAt(t, "push")
    /\ producerList' = <<th[t].mine>> \o producerList
    /\ Go(t, [th[t] EXCEPT !.pc = "have"])
    /\ UNCHANGED <<producerCount, prod, hashVars, owned, listeners, takeVars, bound>>

(* The token has its producer; an implicit one is to hear of this thread's   *)
(* end.                                                                      *)
TakeToken(t) ==
    /\ ThreadAt(t, "have") /\ th[t].explicit
    /\ owned' = [owned EXCEPT ![t] = th[t].mine]
    /\ Go(t, Rest)
    /\ UNCHANGED <<listVars, prod, hashVars, listeners, takeVars, bound>>

Subscribe(t) ==
    /\ ThreadAt(t, "have") /\ ~th[t].explicit
    /\ listeners' = [listeners EXCEPT ![t] = @ \cup {th[t].mine}]
    /\ Go(t, [th[t] EXCEPT !.pc = "insert"])
    /\ UNCHANGED <<listVars, prod, hashVars, owned, takeVars, bound>>

(* A slot that is used again was counted before.                             *)
Insert(t) ==
    /\ ThreadAt(t, "insert")
    /\ IF Slot(t) \in {Vacant, Reusable}
       THEN /\ ClaimSlot(t) /\ Go(t, [th[t] EXCEPT !.pc = "put"])
            /\ hashCount' = IF Slot(t) = Reusable THEN hashCount - 1 ELSE hashCount
       ELSE UNCHANGED <<hashes, hashCount>> /\ Go(t, NextSlot(t))
    /\ UNCHANGED <<listVars, prod, resizing, owned, listeners, takeVars, bound>>

Put(t) ==
    /\ ThreadAt(t, "put")
    /\ prod' = [prod EXCEPT ![th[t].mine].items = @ + 1]
    /\ Go(t, Rest)
    /\ UNCHANGED <<listVars, hashVars, owned, listeners, takeVars, bound>>

-----------------------------------------------------------------------------
(* Explicit producers: a token is made, used and destroyed by its thread.    *)
NewProducerToken(t) ==
    /\ ThreadAt(t, "idle") /\ owned[t] = 0 /\ bound.puts > 0
    /\ bound' = [bound EXCEPT !.puts = @ - 1]
    /\ Go(t, [Rest EXCEPT !.pc = "recycle", !.explicit = TRUE, !.at = Tail0])
    /\ UNCHANGED <<listVars, prod, hashVars, owned, listeners, takeVars>>

PutByToken(t) ==
    /\ ThreadAt(t, "idle") /\ owned[t] # 0 /\ bound.puts > 0
    /\ bound' = [bound EXCEPT !.puts = @ - 1]
    /\ Go(t, [Rest EXCEPT !.pc = "put", !.mine = owned[t]])
    /\ UNCHANGED <<listVars, prod, hashVars, owned, listeners, takeVars>>

DropToken(t) ==
    /\ ThreadAt(t, "idle") /\ owned[t] # 0
    /\ prod' = [prod EXCEPT ![owned[t]].inactive = TRUE]
    /\ owned' = [owned EXCEPT ![t] = 0]
    /\ UNCHANGED <<listVars, hashVars, th, listeners, takeVars, bound>>

(* The end of a thread: its id leaves the tables, newest first, and then its *)
(* producer may be taken by another.                                         *)
ThreadExit(t) ==
    /\ ThreadAt(t, "idle") /\ owned[t] = 0 /\ listeners[t] # {}
    /\ Go(t, [Rest EXCEPT !.pc = "exit", !.main = Main])
    /\ UNCHANGED <<listVars, prod, hashVars, owned, listeners, takeVars, bound>>

LeaveTableVacant(t) ==  \* (mutant) the slot becomes vacant and breaks the probe sequence
    LET h == th[t].main IN
    /\ ThreadAt(t, "exit") /\ h > 0
    /\ hashes' = IF Finds(h, t) = 0 THEN hashes
                 ELSE [hashes EXCEPT ![h].key = [i \in DOMAIN @ |-> IF @[i] = t THEN Vacant ELSE @[i]]]
    /\ Go(t, [th[t] EXCEPT !.main = h - 1])
    /\ UNCHANGED <<listVars, prod, hashCount, resizing, owned, listeners, takeVars, bound>>

LeaveTable(t) ==
    LET h == th[t].main IN
    /\ ThreadAt(t, "exit") /\ h > 0
    /\ hashes' = IF Finds(h, t) = 0 THEN hashes
                 ELSE [hashes EXCEPT ![h].key = [i \in DOMAIN @ |-> IF @[i] = t THEN Reusable ELSE @[i]]]
    /\ Go(t, [th[t] EXCEPT !.main = h - 1])
    /\ UNCHANGED <<listVars, prod, hashCount, resizing, owned, listeners, takeVars, bound>>

LeaveProducer(t) ==
    /\ ThreadAt(t, "exit") /\ th[t].main = 0
    /\ prod' = [q \in DOMAIN prod |-> IF q \in listeners[t] THEN [prod[q] EXCEPT !.inactive = TRUE]
                                      ELSE prod[q]]
    /\ listeners' = [listeners EXCEPT ![t] = {}]
    /\ Go(t, Rest)
    /\ UNCHANGED <<listVars, hashVars, owned, takeVars, bound>>

-----------------------------------------------------------------------------
(* Dequeuing.  `steady': the producers on the list when the call began that  *)
(* have not been empty since.                                                *)
Call(c) == taker[c].call
Token(c) == taker[c].token
InTake(c, pc) == Call(c).pc = pc
NonEmpty == {q \in ToSet(producerList) : prod[q].items > 0}

(* c takes n elements of q, and is then where `call' and `token' say.        *)
Takes(c, q, n, call, token) ==
    LET left == prod[q].items - n
        now(call0) == IF left = 0 /\ n > 0 THEN [call0 EXCEPT !.steady = @ \ {q}] ELSE call0 IN
    /\ prod' = [prod EXCEPT ![q].items = left]
    /\ taker' = [d \in Takers |-> IF d = c THEN [call |-> now(call), token |-> token]
                                  ELSE [taker[d] EXCEPT !.call = now(@)]]
Moves(c, call) == taker' = [taker EXCEPT ![c].call = call]
Done(c, call) == [call EXCEPT !.pc = "idle", !.steady = {}]

BeginTake(c, call) ==
    /\ InTake(c, "idle") /\ bound.takes[c] > 0
    /\ bound' = [bound EXCEPT !.takes[c] = @ - 1]
    /\ Moves(c, [call EXCEPT !.at = Tail0, !.steady = NonEmpty])
    /\ UNCHANGED <<listVars, prod, hashVars, globalOffset, th, owned, listeners>>

(* try_dequeue(item): of the first three that are not empty, the largest.    *)
TryDequeue(c) == BeginTake(c, [NoTake EXCEPT !.pc = "score", !.max = 1])

Score(c) ==
    LET q == Call(c).at
        s == prod[q].items IN
    /\ InTake(c, "score") /\ q # 0 /\ Call(c).seen < 3
    /\ Moves(c, [Call(c) EXCEPT !.at = NextProducer(q), !.seen = IF s > 0 THEN @ + 1 ELSE @,
                                !.best = IF s > Call(c).size THEN q ELSE @,
                                !.size = IF s > Call(c).size THEN s ELSE @])
    /\ UNCHANGED <<listVars, prod, hashVars, globalOffset, th, owned, listeners, bound>>

TakeBest(c) ==
    LET q == Call(c).best IN
    /\ InTake(c, "score") /\ (Call(c).at = 0 \/ Call(c).seen = 3)
    /\ IF Call(c).seen = 0 THEN UNCHANGED prod /\ Moves(c, [Call(c) EXCEPT !.pc = "fail"])
       ELSE IF prod[q].items > 0 THEN Takes(c, q, 1, Done(c, Call(c)), Token(c))
       ELSE UNCHANGED prod /\ Moves(c, [Call(c) EXCEPT !.pc = "rest", !.at = Tail0])
    /\ UNCHANGED <<listVars, hashVars, globalOffset, th, owned, listeners, bound>>

(* try_dequeue_bulk(items, max) begins here.                                 *)
TryDequeueBulk(c) ==
    \E max \in 1 .. MaxTakeBulk : BeginTake(c, [NoTake EXCEPT !.pc = "rest", !.max = max])

Least(a, b) == IF a < b THEN a ELSE b

TakeNext(c) ==
    LET q == Call(c).at
        n == IF q = 0 \/ q = Call(c).best THEN 0 ELSE Least(prod[q].items, Call(c).max - Call(c).count)
        after == [Call(c) EXCEPT !.count = @ + n, !.at = IF q = 0 THEN 0 ELSE NextProducer(q)] IN
    /\ InTake(c, "rest")
    /\ IF q = 0 THEN UNCHANGED prod /\ Moves(c, IF Call(c).count = 0 THEN [Call(c) EXCEPT !.pc = "fail"]
                                                ELSE Done(c, Call(c)))
       ELSE Takes(c, q, n, IF after.count = Call(c).max THEN Done(c, after) ELSE after, Token(c))
    /\ UNCHANGED <<listVars, hashVars, globalOffset, th, owned, listeners, bound>>

(* Nothing was found: the call returns false, or 0.                          *)
ReturnNothing(c) ==
    /\ InTake(c, "fail")
    /\ Moves(c, NoTake)
    /\ UNCHANGED <<listVars, prod, hashVars, globalOffset, th, owned, listeners, bound>>

-----------------------------------------------------------------------------
(* With a token a consumer stays with one producer, until some consumer has  *)
(* had its quota and all move on.                                            *)
TryDequeueToken(c) ==
    /\ c \in TokenTakers
    /\ \E max \in 1 .. MaxTakeBulk : BeginTake(c, [NoTake EXCEPT !.pc = "current", !.max = max])

(* n producers further along the list, from whose end one goes on at its     *)
(* beginning.                                                                *)
Along(n, from) == producerList[((Position(from) - 1 + n) % Len(producerList)) + 1]

(* update_current_producer_after_rotation.                                   *)
MustRotate(c) == Token(c).desired = 0 \/ Token(c).lastKnown # globalOffset
UpdateCurrentProducer(c) ==
    LET first == IF Token(c).desired # 0 THEN Token(c).desired
                 ELSE Along(producerCount - 1 - (Token(c).initialOffset % producerCount), Tail0)
        delta == ((globalOffset - Token(c).lastKnown) % OffsetRange) % producerCount
        place == Along(delta, first) IN
    /\ InTake(c, "current") /\ MustRotate(c)
    /\ IF Token(c).desired = 0 /\ Tail0 = 0 THEN Moves(c, [Call(c) EXCEPT !.pc = "fail"])
       ELSE taker' = [taker EXCEPT ![c].call.pc = "take",
                                   ![c].token = [@ EXCEPT !.desired = place, !.current = place,
                                                          !.lastKnown = globalOffset, !.consumed = 0]]
    /\ UNCHANGED <<listVars, prod, hashVars, globalOffset, th, owned, listeners, bound>>

(* One element counts up to the quota; a bulk may go past it.                *)
QuotaReached(consumed, n) == IF n = 1 THEN consumed = Quota ELSE consumed >= Quota

TakeCurrentLast(c) ==  \* (mutant) behind the last producer comes none
    LET q == Token(c).current
        n == Least(prod[q].items, Call(c).max)
        onward == IF NextProducer(q) = 0 THEN q ELSE NextProducer(q) IN
    /\ InTake(c, "take") \/ (InTake(c, "current") /\ ~MustRotate(c))
    /\ Takes(c, q, n, IF n = Call(c).max THEN Done(c, Call(c))
                      ELSE [Call(c) EXCEPT !.pc = "around", !.at = onward, !.best = Tail0, !.count = n,
                                           !.max = @ - n], [Token(c) EXCEPT !.consumed = @ + n])
    /\ UNCHANGED <<listVars, hashVars, globalOffset, th, owned, listeners, bound>>

TakeCurrent(c) ==
    LET q == Token(c).current
        n == Least(prod[q].items, Call(c).max)
        token == [Token(c) EXCEPT !.consumed = @ + n]
        onward == IF NextProducer(q) = 0 THEN Tail0 ELSE NextProducer(q) IN
    /\ InTake(c, "take") \/ (InTake(c, "current") /\ ~MustRotate(c))
    /\ Takes(c, q, n, IF n = Call(c).max THEN Done(c, Call(c))
                      ELSE [Call(c) EXCEPT !.pc = "around", !.at = onward, !.best = Tail0, !.count = n,
                                           !.max = @ - n], token)
    /\ globalOffset' = IF n = Call(c).max /\ QuotaReached(token.consumed, n)
                       THEN (globalOffset + 1) % OffsetRange ELSE globalOffset
    /\ UNCHANGED <<listVars, hashVars, th, owned, listeners, bound>>

(* Around the list once, from the tail read before (`best').                 *)
TakeAround(c) ==
    LET q == Call(c).at
        n == Least(prod[q].items, Call(c).max)
        token == IF n > 0 THEN [Token(c) EXCEPT !.current = q, !.consumed = n] ELSE Token(c)
        onward == IF NextProducer(q) = 0 THEN Call(c).best ELSE NextProducer(q)
        after == [Call(c) EXCEPT !.at = onward, !.count = @ + n, !.max = @ - n] IN
    /\ InTake(c, "around")
    /\ IF q = Token(c).current
       THEN UNCHANGED prod /\ Moves(c, IF Call(c).count = 0 THEN [Call(c) EXCEPT !.pc = "fail"]
                                       ELSE Done(c, Call(c)))
       ELSE Takes(c, q, n, IF n = Call(c).max THEN Done(c, after) ELSE after, token)
    /\ UNCHANGED <<listVars, hashVars, globalOffset, th, owned, listeners, bound>>

-----------------------------------------------------------------------------
ThreadSteps(t) ==
    \/ Lookup(t) \/ CopyToMain(t) \/ CountSlot(t) \/ BeginResize(t) \/ Resize(t) \/ Double(t)
    \/ NewTable(t) \/ NewTableFails(t) \/ RoomOrWait(t) \/ Recycle(t) \/ Create(t)
    \/ CreateFails(t) \/ Push(t) \/ TakeToken(t) \/ Subscribe(t) \/ Insert(t) \/ Put(t)
    \/ NewProducerToken(t) \/ PutByToken(t) \/ DropToken(t) \/ ThreadExit(t) \/ LeaveTable(t)
    \/ LeaveProducer(t)

TakerSteps(c) ==
    \/ TryDequeue(c) \/ Score(c) \/ TakeBest(c) \/ TryDequeueBulk(c) \/ TakeNext(c) \/ ReturnNothing(c)
    \/ TryDequeueToken(c) \/ UpdateCurrentProducer(c) \/ TakeCurrent(c) \/ TakeAround(c)

ProducersNext == \/ \E t \in Threads : ThreadSteps(t)
                 \/ \E c \in Takers : TakerSteps(c)

ProducersSpec == ProducersInit /\ [][ProducersNext]_producersVars
=============================================================================
