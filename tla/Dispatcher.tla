----------------------------- MODULE Dispatcher -----------------------------
(***************************************************************************)
(* The asynchronous core of slwoggy: log lines of any number of threads     *)
(* (log_line.hpp, log_line_impl.hpp), log_line_dispatcher::dispatch, flush, *)
(* update_sink_config, shutdown and restart, and the worker thread          *)
(* (log_dispatcher_impl.hpp).                                               *)
(*                                                                         *)
(* Buffers come from Pool.  The dispatch queue is moodycamel's              *)
(* BlockingConcurrentQueue (external): one FIFO per producer, joined by a   *)
(* semaphore that is signalled after the element is in its FIFO.  dispatch  *)
(* enqueues through the thread's ProducerToken, flush and shutdown without  *)
(* a token, that is through an implicit producer of the same thread, so     *)
(* there are two FIFOs per thread and no order between them.                *)
(*                                                                         *)
(* A message is <<thread, number>>; a buffer without content (level nolog,  *)
(* len() == 0) is what is_flush_marker() recognises.                        *)
(***************************************************************************)
EXTENDS Pool, Sequences, FiniteSets

CONSTANTS Threads,        \* threads that log, flush and change sinks
          Ctl,            \* the thread that calls shutdown() and restart()
          NoBuf, NoThread, Null,
          Messages,       \* bound: Messages[t] messages are logged by t
          Flushes,        \* bound: calls of flush() by t
          Updates,        \* bound: sink changes by t
          Shutdowns,      \* bound: calls of shutdown()
          Restarts,       \* bound: calls of restart()
          MaxBatch,       \* MAX_BATCH_SIZE
          SinklessConfigs \* the sink configurations, numbered in order of
                          \* publication from 0, whose sink list is empty

ASSUME DispatcherAssumption ==
    /\ IsFiniteSet(Threads) /\ IsFiniteSet(Buffers)
    /\ Ctl \notin Threads /\ NoThread \notin Threads
    /\ NoBuf \notin Buffers /\ Null \notin Buffers
    /\ Messages \in [Threads -> Nat] /\ Flushes \in [Threads -> Nat]
    /\ Updates \in [Threads -> Nat]
    /\ Shutdowns \in Nat /\ Restarts \in Nat
    /\ MaxBatch \in Nat \ {0}
    /\ SinklessConfigs \subseteq Nat

VARIABLES
  content,    \* message in each buffer, <<>> when there is none
  pending,    \* pending_failure_report_
  misses,     \* acquire_failures_
  \* the threads
  pc,         \* where each thread is
  line,       \* buffer_ of the thread's open log line
  hand,       \* buffer_to_dispatch, or flush()'s marker
  ending,     \* the line is being destroyed (otherwise flush()/endl)
  my_seq,     \* flush()'s ticket
  logged, flushed, updated,      \* messages, flushes, sink changes so far
  \* the dispatcher
  q,          \* queue_: one FIFO per producer token
  sema,       \* queue_'s semaphore
  shutdown_, flush_seq_, flush_done_,
  flush_mutex_,                  \* its owner
  parked,     \* threads asleep in flush_cv_.wait
  current_sinks_,                \* number of the published configuration
  sink_modify_mutex_,            \* its owner
  \* the worker
  wpc,        \* where the worker thread is
  batch,      \* buffers dequeued and not yet dealt with
  config,     \* the configuration the worker has loaded
  flush_requested,
  should_shutdown,
  warning,    \* buffer of the failure report being written
  \* the thread that shuts down and restarts
  cpc, shutdowns, restarts,
  \* history
  accepted,   \* per thread: numbers of its messages, in order of enqueue
  handled     \* per thread: numbers of its messages, in order of processing

threadVars == <<pc, line, hand, ending, my_seq, logged, flushed, updated>>
queueVars  == <<q, sema>>
flushVars  == <<flush_seq_, flush_done_, flush_mutex_, parked>>
sinkVars   == <<current_sinks_, sink_modify_mutex_>>
workerVars == <<wpc, batch, config, flush_requested, should_shutdown, warning>>
ctlVars    == <<shutdown_, cpc, shutdowns, restarts>>
history    == <<accepted, handled>>
failureVars == <<pending, misses>>
vars == <<poolVars, content, failureVars, threadVars, queueVars, flushVars, sinkVars,
          workerVars, ctlVars, history>>

(* Frames of the actions below.                                             *)
elsewhere == <<sinkVars, workerVars, ctlVars>>
outside   == <<threadVars, sinkVars, ctlVars>>
store     == <<poolVars, content, failureVars>>
counters  == <<logged, flushed, updated>>

NoMsg == <<>>
Explicit(t) == <<"token", t>>
Implicit(t) == <<"implicit", t>>
Producers == {Explicit(t) : t \in Threads} \cup {Implicit(t) : t \in Threads \cup {Ctl}}

Init ==
    /\ PoolInit
    /\ content = [b \in Buffers |-> NoMsg]
    /\ pending = 0 /\ misses = 0
    /\ pc = [t \in Threads |-> "idle"]
    /\ line = [t \in Threads |-> NoBuf]
    /\ hand = [t \in Threads |-> NoBuf]
    /\ ending = [t \in Threads |-> FALSE]
    /\ my_seq = [t \in Threads |-> 0]
    /\ logged = [t \in Threads |-> 0]
    /\ flushed = [t \in Threads |-> 0]
    /\ updated = [t \in Threads |-> 0]
    /\ q = [k \in Producers |-> <<>>]
    /\ sema = 0
    /\ shutdown_ = FALSE
    /\ flush_seq_ = 0 /\ flush_done_ = 0 /\ flush_mutex_ = NoThread /\ parked = {}
    /\ current_sinks_ = 0 /\ sink_modify_mutex_ = NoThread
    /\ wpc = "report" /\ batch = <<>> /\ config = 0
    /\ flush_requested = 0 /\ should_shutdown = FALSE
    /\ warning = NoBuf
    /\ cpc = "up" /\ shutdowns = 0 /\ restarts = 0
    /\ accepted = [t \in Threads |-> <<>>]
    /\ handled = [t \in Threads |-> <<>>]

IsMarker(x) == x # Null /\ content[x] = NoMsg
IsMessage(x) == x # Null /\ content[x] # NoMsg

(* The numbers of t's messages in a sequence of buffers, in order.          *)
NumbersOf(t, s) ==
    LET N[n \in 0 .. Len(s)] ==
          IF n = 0 THEN <<>>
          ELSE IF IsMessage(s[n]) /\ content[s[n]][1] = t THEN Append(N[n - 1], content[s[n]][2])
          ELSE N[n - 1]
    IN N[Len(s)]

Goto(t, label) == pc' = [pc EXCEPT ![t] = label]
Push(k, x) == q' = [q EXCEPT ![k] = Append(@, x)]

(* release() of the buffers of a sequence: those that go back are reset.    *)
Count(s) == [b \in Buffers |-> Cardinality({i \in DOMAIN s : s[i] = b})]
ReleaseAll(s) ==
    /\ ReleaseTimes(Count(s))
    /\ content' = [b \in Buffers |-> IF GoesBack(b, Count(s)) THEN NoMsg ELSE content[b]]

Fails == /\ AcquireFails
         /\ pending' = pending + 1
         /\ misses' = misses + 1

-----------------------------------------------------------------------------
(* A log line *)

(* LOG(...): the constructor acquires a buffer, the text is written.        *)
OpenLine(t) ==
    /\ pc[t] = "idle"
    /\ logged[t] < Messages[t]
    /\ logged' = [logged EXCEPT ![t] = @ + 1]
    /\ \/ \E b \in Buffers :
             /\ Acquire(b)
             /\ content' = [content EXCEPT ![b] = <<t, logged[t] + 1>>]
             /\ line' = [line EXCEPT ![t] = b]
             /\ Goto(t, "writing")
             /\ UNCHANGED failureVars
       \/ /\ Fails
          /\ UNCHANGED <<pc, line, content>>
    /\ UNCHANGED <<hand, ending, my_seq, flushed, updated, queueVars,
                   flushVars, elsewhere, history>>

(* More text after flush()/endl: the line goes on with its fresh buffer.    *)
WriteMore(t) ==
    /\ pc[t] = "writing"
    /\ content[line[t]] = NoMsg
    /\ logged[t] < Messages[t]
    /\ logged' = [logged EXCEPT ![t] = @ + 1]
    /\ content' = [content EXCEPT ![line[t]] = <<t, logged[t] + 1>>]
    /\ UNCHANGED <<poolVars, failureVars, pc, line, hand, ending, my_seq,
                   flushed, updated, queueVars, flushVars, elsewhere, history>>

(* dispatch(): nothing is enqueued once shutdown_ is seen, and an empty     *)
(* buffer is not dispatched.  A line that is being destroyed then releases  *)
(* what it holds.                                                           *)
Dispatch(t) ==
    /\ pc[t] = "writing"
    /\ \/ /\ ~shutdown_
          /\ content[line[t]] # NoMsg
          /\ \E end \in BOOLEAN : ending' = [ending EXCEPT ![t] = end]
          /\ Goto(t, "swap")
       \/ /\ shutdown_ \/ content[line[t]] = NoMsg
          /\ Goto(t, "close")
          /\ UNCHANGED ending
    /\ UNCHANGED <<store, line, hand, my_seq, counters, queueVars, flushVars,
                   elsewhere, history>>

(* swap_buffer(): the line gets a fresh buffer before the old one is        *)
(* enqueued; without one, what is still written to the line is lost.        *)
SwapBuffer(t) ==
    /\ pc[t] = "swap"
    /\ hand' = [hand EXCEPT ![t] = line[t]]
    /\ \/ \E b \in Buffers : /\ Acquire(b)
                             /\ line' = [line EXCEPT ![t] = b]
                             /\ UNCHANGED failureVars
       \/ /\ Fails
          /\ line' = [line EXCEPT ![t] = NoBuf]
    /\ Goto(t, "enqueue")
    /\ UNCHANGED <<content, ending, my_seq, counters, queueVars, flushVars,
                   elsewhere, history>>

(* queue_.enqueue(thread_local_token, buffer): into the FIFO ...            *)
EnqueueLine(t) ==
    /\ pc[t] = "enqueue"
    /\ Push(Explicit(t), hand[t])
    /\ accepted' = [accepted EXCEPT ![t] = @ \o NumbersOf(t, <<hand[t]>>)]
    /\ hand' = [hand EXCEPT ![t] = NoBuf]
    /\ Goto(t, "signal")
    /\ UNCHANGED <<store, line, ending, my_seq, counters, sema, flushVars,
                   elsewhere, handled>>

(* ... then the semaphore.  A line left without a buffer does nothing more. *)
SignalLine(t) ==
    /\ pc[t] = "signal"
    /\ sema' = sema + 1
    /\ ending' = [ending EXCEPT ![t] = FALSE]
    /\ Goto(t, IF line[t] = NoBuf THEN "idle" ELSE IF ending[t] THEN "close" ELSE "writing")
    /\ UNCHANGED <<store, line, hand, my_seq, counters, q, flushVars,
                   elsewhere, history>>

CloseLine(t) ==
    /\ pc[t] = "close"
    /\ ReleaseAll(<<line[t]>>)
    /\ line' = [line EXCEPT ![t] = NoBuf]
    /\ Goto(t, "idle")
    /\ UNCHANGED <<failureVars, hand, ending, my_seq, counters, queueVars,
                   flushVars, elsewhere, history>>

-----------------------------------------------------------------------------
(* flush() and update_sink_config(); the updater is the owner of            *)
(* sink_modify_mutex_ until the old configuration is deleted.               *)

FlushReturnsTo(t) == IF sink_modify_mutex_ = t THEN "delete" ELSE "idle"

(* update_sink_config(): lock, copy and exchange (all others only read      *)
(* current_sinks_), then flush().                                           *)
PublishConfig(t) ==
    /\ pc[t] = "idle"
    /\ updated[t] < Updates[t]
    /\ updated' = [updated EXCEPT ![t] = @ + 1]
    /\ sink_modify_mutex_ = NoThread
    /\ sink_modify_mutex_' = t
    /\ current_sinks_' = current_sinks_ + 1
    /\ Goto(t, "flush")
    /\ UNCHANGED <<store, line, hand, ending, my_seq, logged, flushed,
                   queueVars, flushVars, workerVars, ctlVars, history>>

CallFlush(t) ==
    /\ pc[t] = "idle"
    /\ flushed[t] < Flushes[t]
    /\ flushed' = [flushed EXCEPT ![t] = @ + 1]
    /\ Goto(t, "flush")
    /\ UNCHANGED <<store, line, hand, ending, my_seq, logged, updated,
                   queueVars, flushVars, elsewhere, history>>

AcquireMarker(t) ==
    /\ pc[t] = "flush"
    /\ \/ \E b \in Buffers : /\ Acquire(b)
                             /\ hand' = [hand EXCEPT ![t] = b]
                             /\ Goto(t, "ticket")
                             /\ UNCHANGED failureVars
       \/ /\ Fails
          /\ Goto(t, FlushReturnsTo(t))
          /\ UNCHANGED hand
    /\ UNCHANGED <<content, line, ending, my_seq, counters, queueVars,
                   flushVars, elsewhere, history>>

TakeTicket(t) ==
    /\ pc[t] = "ticket"
    /\ flush_seq_' = flush_seq_ + 1
    /\ my_seq' = [my_seq EXCEPT ![t] = flush_seq_ + 1]
    /\ Goto(t, "lock")
    /\ UNCHANGED <<store, line, hand, ending, counters, queueVars, flush_done_,
                   flush_mutex_, parked, elsewhere, history>>

EnqueueMarker(t) ==
    /\ pc[t] = "lock"
    /\ flush_mutex_ = NoThread
    /\ flush_mutex_' = t
    /\ Push(Implicit(t), hand[t])
    /\ hand' = [hand EXCEPT ![t] = NoBuf]
    /\ Goto(t, "signal_marker")
    /\ UNCHANGED <<store, line, ending, my_seq, counters, sema, flush_seq_,
                   flush_done_, parked, elsewhere, history>>

SignalMarker(t) ==
    /\ pc[t] = "signal_marker"
    /\ sema' = sema + 1
    /\ Goto(t, "wait")
    /\ UNCHANGED <<store, line, hand, ending, my_seq, counters, q, flushVars,
                   elsewhere, history>>

DoneEarly(t) == flush_done_ + 1 >= my_seq[t]  \* (mutant) ticket off by one
Done(t) == flush_done_ >= my_seq[t]

(* flush_cv_.wait: test the predicate under the mutex, return or sleep.  A  *)
(* sleeper is woken by notify_all, or spuriously.                           *)
TestDone(t) ==
    /\ \/ /\ Done(t)
          /\ my_seq' = [my_seq EXCEPT ![t] = 0]
          /\ Goto(t, FlushReturnsTo(t))
          /\ UNCHANGED parked
       \/ /\ ~Done(t)
          /\ parked' = parked \cup {t}
          /\ Goto(t, "parked")
          /\ UNCHANGED my_seq
    /\ flush_mutex_' = NoThread
    /\ UNCHANGED <<store, line, hand, ending, counters, queueVars, flush_seq_,
                   flush_done_, elsewhere, history>>

WaitDone(t) == /\ pc[t] = "wait"
               /\ flush_mutex_ = t
               /\ TestDone(t)

Wake(t) == /\ pc[t] = "parked"
           /\ t \notin parked
           /\ flush_mutex_ = NoThread
           /\ TestDone(t)

SpuriousWake(t) == /\ pc[t] = "parked"
                   /\ t \in parked
                   /\ parked' = parked \ {t}
                   /\ UNCHANGED <<store, threadVars, queueVars, flush_seq_,
                                  flush_done_, flush_mutex_, elsewhere,
                                  history>>

(* delete old_config, unlock.                                               *)
DeleteConfig(t) ==
    /\ pc[t] = "delete"
    /\ sink_modify_mutex_' = NoThread
    /\ Goto(t, "idle")
    /\ UNCHANGED <<store, line, hand, ending, my_seq, counters, queueVars,
                   flushVars, current_sinks_, workerVars, ctlVars, history>>

(* The configurations that exist: an updater keeps the one it replaced.     *)
Alive == {current_sinks_} \cup
         IF sink_modify_mutex_ = NoThread THEN {} ELSE {current_sinks_ - 1}

-----------------------------------------------------------------------------
(* The worker thread *)

UsesSinks == config \notin SinklessConfigs
(* The messages process_buffer_batch deals with: up to the first marker or  *)
(* null.                                                                    *)
Run(s) == SubSeq(s, 1, Cardinality({n \in DOMAIN s : \A i \in 1..n : IsMessage(s[i])}))
Rest(s) == SubSeq(s, Len(Run(s)) + 1, Len(s))

Handle(s) == handled' = [t \in Threads |-> handled[t] \o NumbersOf(t, s)]

(* Top of worker_thread_func's loop: look for failures to report, and try   *)
(* to get a buffer for the report (a failed try counts as one more).        *)
CheckFailures ==
    /\ wpc = "report"
    /\ \/ /\ pending = 0
          /\ wpc' = "dequeue"
          /\ UNCHANGED <<poolVars, failureVars, warning>>
       \/ /\ pending > 0
          /\ \/ \E b \in Buffers : /\ Acquire(b)
                                   /\ warning' = b
                                   /\ wpc' = "warn_load"
                                   /\ UNCHANGED failureVars
             \/ /\ Fails
                /\ wpc' = "dequeue"
                /\ UNCHANGED warning
    /\ UNCHANGED <<content, outside, queueVars, flushVars, batch, config,
                   flush_requested, should_shutdown, history>>

LoadForWarning ==
    /\ wpc = "warn_load"
    /\ config' = current_sinks_
    /\ wpc' = "warn"
    /\ UNCHANGED <<store, outside, queueVars, flushVars, batch,
                   flush_requested, should_shutdown, warning, history>>

(* process_buffer_batch on the warning alone, or release() without sinks.   *)
WriteWarning ==
    /\ wpc = "warn"
    /\ ReleaseAll(<<warning>>)
    /\ warning' = NoBuf
    /\ wpc' = "warn_reset"
    /\ UNCHANGED <<failureVars, outside, queueVars, flushVars, batch, config,
                   flush_requested, should_shutdown, accepted, handled>>

ResetPendingFailures ==
    /\ wpc = "warn_reset"
    /\ pending' = 0
    /\ wpc' = "dequeue"
    /\ UNCHANGED <<poolVars, content, misses, outside, queueVars, flushVars, batch,
                   config, flush_requested, should_shutdown, warning, history>>

Room == Len(batch) < MaxBatch

TakeNewest(k) ==  \* (mutant) not first in, first out
    /\ batch' = Append(batch, q[k][Len(q[k])])
    /\ q' = [q EXCEPT ![k] = SubSeq(@, 1, Len(@) - 1)]
Take(k) == /\ batch' = Append(batch, Head(q[k]))
           /\ q' = [q EXCEPT ![k] = Tail(@)]

(* dequeue_buffers: every element costs one permit of the semaphore, which  *)
(* need not be the permit of that element.                                  *)
Collect ==
    /\ wpc \in {"dequeue", "drain"}
    /\ Room
    /\ sema > 0
    /\ sema' = sema - 1
    /\ \E k \in Producers : q[k] # <<>> /\ Take(k)
    /\ UNCHANGED <<store, outside, flushVars, wpc, config, flush_requested,
                   should_shutdown, warning, history>>

BatchFull == Len(batch) = MaxBatch  \* (mutant) no timeout: wait until it is full
BatchComplete == sema = 0 \/ Len(batch) = MaxBatch

(* The batch is complete when it is full or no permit is left; then the     *)
(* sinks are loaded, once for the batch.                                    *)
LoadSinks ==
    /\ wpc \in {"dequeue", "drain"}
    /\ batch # <<>>
    /\ BatchComplete
    /\ config' = current_sinks_
    /\ wpc' = IF wpc = "dequeue" THEN "process" ELSE "drain_process"
    /\ UNCHANGED <<store, outside, queueVars, flushVars, batch,
                   flush_requested, should_shutdown, warning, history>>

(* process_queue and drain_queue on a run of messages: the sinks write it,  *)
(* if there are any, and it is released.                                    *)
ProcessRun ==
    /\ wpc \in {"process", "drain_process"}
    /\ Run(batch) # <<>>
    /\ Handle(Run(batch))
    /\ ReleaseAll(Run(batch))
    /\ batch' = Rest(batch)
    /\ UNCHANGED <<failureVars, outside, queueVars, flushVars, wpc, config,
                   flush_requested, should_shutdown, warning, accepted>>

ProcessMarkerLeaks ==  \* (mutant) the marker's buffer is not released
    /\ wpc = "process"
    /\ batch # <<>> /\ IsMarker(Head(batch))
    /\ flush_requested' = flush_requested + 1
    /\ batch' = Tail(batch)
    /\ UNCHANGED <<store, outside, queueVars, flushVars, wpc, config,
                   should_shutdown, warning, history>>

ProcessMarker ==
    /\ wpc = "process"
    /\ batch # <<>> /\ IsMarker(Head(batch))
    /\ flush_requested' = flush_requested + 1
    /\ ReleaseAll(<<Head(batch)>>)
    /\ batch' = Tail(batch)
    /\ UNCHANGED <<failureVars, outside, queueVars, flushVars, wpc, config,
                   should_shutdown, warning, history>>

NothingBehind == <<>>  \* (mutant) the rest of the batch is dropped
RunBehind == IF UsesSinks THEN Run(Tail(batch)) ELSE <<>>

(* The shutdown sentinel: the run behind it is processed (and so released), *)
(* then everything behind the sentinel is released, the run again.          *)
ProcessNull ==
    /\ wpc = "process"
    /\ batch # <<>> /\ Head(batch) = Null
    /\ should_shutdown' = TRUE
    /\ batch' = Tail(batch)
    /\ wpc' = "release_rest"
    /\ Handle(RunBehind)
    /\ ReleaseAll(RunBehind)
    /\ UNCHANGED <<failureVars, outside, queueVars, flushVars, config,
                   flush_requested, warning, accepted>>

ReleaseRest ==
    /\ wpc = "release_rest"
    /\ ReleaseAll(SelectSeq(batch, LAMBDA x : x # Null))
    /\ batch' = <<>>
    /\ wpc' = "process"
    /\ UNCHANGED <<failureVars, outside, queueVars, flushVars, config,
                   flush_requested, should_shutdown, warning, history>>

NextRound == IF should_shutdown THEN "drain" ELSE "report"

OneMarker == IF flush_requested > 0 THEN 1 ELSE 0  \* (mutant) once per batch
MarkersDone == flush_requested

NoNotify == NextRound  \* (mutant) nobody is notified
AfterCount == IF flush_requested > 0 THEN "notify" ELSE NextRound

(* End of process_queue: count the markers, then notify under the mutex.    *)
CountMarkers ==
    /\ wpc = "process"
    /\ batch = <<>>
    /\ flush_done_' = flush_done_ + MarkersDone
    /\ flush_requested' = 0
    /\ wpc' = AfterCount
    /\ UNCHANGED <<store, outside, queueVars, flush_seq_, flush_mutex_, parked,
                   batch, config, should_shutdown, warning, history>>

Woken == parked

NotifyAll ==
    /\ wpc = "notify"
    /\ flush_mutex_ = NoThread
    /\ parked' = parked \ Woken
    /\ wpc' = NextRound
    /\ UNCHANGED <<store, outside, queueVars, flush_seq_, flush_done_,
                   flush_mutex_, batch, config, flush_requested,
                   should_shutdown, warning, history>>

Skipped(x) == IF x = Null THEN <<>> ELSE <<x>>

(* drain_queue skips sentinels and releases markers without counting them.  *)
DrainSkip ==
    /\ wpc = "drain_process"
    /\ batch # <<>> /\ ~IsMessage(Head(batch))
    /\ ReleaseAll(Skipped(Head(batch)))
    /\ batch' = Tail(batch)
    /\ UNCHANGED <<failureVars, outside, queueVars, flushVars, wpc, config,
                   flush_requested, should_shutdown, warning, history>>

DrainAgain ==
    /\ wpc = "drain_process"
    /\ batch = <<>>
    /\ wpc' = "drain"
    /\ UNCHANGED <<store, outside, queueVars, flushVars, batch, config,
                   flush_requested, should_shutdown, warning, history>>

(* try_dequeue_bulk finds no permit: report the failures that are left from a *)
(* buffer on the stack, without resetting them, and exit.                   *)
FinalReport ==
    /\ wpc = "drain"
    /\ batch = <<>> /\ sema = 0
    /\ wpc' = "exited"
    /\ UNCHANGED <<store, outside, queueVars, flushVars, batch, config,
                   flush_requested, should_shutdown, warning, accepted,
                   handled>>

-----------------------------------------------------------------------------
(* shutdown() and restart(), called by one thread *)

Shutdown ==
    /\ cpc = "up"
    /\ shutdowns < Shutdowns
    /\ shutdowns' = shutdowns + 1
    /\ shutdown_' = TRUE
    /\ cpc' = "enqueue"
    /\ UNCHANGED <<store, threadVars, queueVars, flushVars, sinkVars,
                   workerVars, restarts, history>>

EnqueueNothing ==  \* (mutant) no sentinel
    /\ cpc = "enqueue"
    /\ cpc' = "signal"
    /\ UNCHANGED <<store, threadVars, queueVars, flushVars, sinkVars, workerVars,
                   shutdown_, shutdowns, restarts, history>>

EnqueueNull ==
    /\ cpc = "enqueue"
    /\ Push(Implicit(Ctl), Null)
    /\ cpc' = "signal"
    /\ UNCHANGED <<store, threadVars, sema, flushVars, sinkVars, workerVars,
                   shutdown_, shutdowns, restarts, history>>

SignalNull ==
    /\ cpc = "signal"
    /\ sema' = sema + 1
    /\ cpc' = "join"
    /\ UNCHANGED <<store, threadVars, q, flushVars, sinkVars, workerVars,
                   shutdown_, shutdowns, restarts, history>>

(* join() in shutdown(true), or at the latest in restart().                 *)
Join ==
    /\ cpc = "join"
    /\ wpc = "exited"
    /\ cpc' = "down"
    /\ UNCHANGED <<store, threadVars, queueVars, flushVars, sinkVars,
                   workerVars, shutdown_, shutdowns, restarts, history>>

Restart ==
    /\ cpc = "down"
    /\ restarts < Restarts
    /\ restarts' = restarts + 1
    /\ shutdown_' = FALSE
    /\ cpc' = "start"
    /\ UNCHANGED <<store, threadVars, queueVars, flushVars, sinkVars,
                   workerVars, shutdowns, history>>

StartWorker ==
    /\ cpc = "start"
    /\ wpc' = "report"
    /\ should_shutdown' = FALSE
    /\ cpc' = "up"
    /\ UNCHANGED <<store, threadVars, queueVars, flushVars, sinkVars, batch,
                   config, flush_requested, warning, shutdown_, shutdowns,
                   restarts, history>>

-----------------------------------------------------------------------------
LineStep(t) == \/ OpenLine(t) \/ WriteMore(t) \/ Dispatch(t) \/ SwapBuffer(t)
               \/ EnqueueLine(t) \/ SignalLine(t) \/ CloseLine(t)

FlushStep(t) == \/ AcquireMarker(t) \/ TakeTicket(t) \/ EnqueueMarker(t)
                \/ SignalMarker(t) \/ WaitDone(t) \/ Wake(t)

UpdateStep(t) == PublishConfig(t) \/ DeleteConfig(t)

Thread(t) == LineStep(t) \/ CallFlush(t) \/ FlushStep(t) \/ SpuriousWake(t) \/ UpdateStep(t)

Worker == \/ CheckFailures \/ LoadForWarning \/ WriteWarning \/ ResetPendingFailures
          \/ Collect \/ LoadSinks \/ ProcessRun \/ ProcessMarker \/ ProcessNull
          \/ ReleaseRest \/ CountMarkers \/ NotifyAll
          \/ DrainSkip \/ DrainAgain \/ FinalReport

Control == Shutdown \/ EnqueueNull \/ SignalNull \/ Join \/ Restart \/ StartWorker

Next == (\E t \in Threads : Thread(t)) \/ Worker \/ Control

Spec == Init /\ [][Next]_vars

(* A thread that is inside a call of the library keeps running, and so does *)
(* the worker; nobody has to start a call.                                  *)
Fairness == /\ WF_vars(Worker)
            /\ \A t \in Threads : WF_vars(pc[t] # "idle" /\ (LineStep(t) \/ FlushStep(t) \/ DeleteConfig(t)))
            /\ WF_vars(cpc # "up" /\ cpc # "down" /\ Control)

FairSpec == Spec /\ Fairness
=============================================================================
