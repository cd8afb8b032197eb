------------------------------- MODULE Sinks -------------------------------
(***************************************************************************)
(* What becomes of a run of messages between two markers: the filter chain  *)
(* marks the ones to drop, each sink selects among the others, formats them *)
(* into its write buffer and writes it (process_buffer_batch, log_filters,  *)
(* log_sink, log_sink_filters, log_writers), while another thread changes   *)
(* the chain (add_filter, remove_filter, clear_filters).                    *)
(*                                                                         *)
(* The worker is the only thread that runs filters and sinks, so one call   *)
(* of process_batch is one step.  flush() is a marker that is handled       *)
(* between two runs, or nothing when no buffer is free: Dispatcher has its  *)
(* detail.  A formatted message is its number as often as it is long.       *)
(* External: write() and writev(), which may take a part of the data or     *)
(* fail.  The sinks' files do not rotate here; Rotation has that.           *)
(***************************************************************************)
EXTENDS Integers, Sequences, FiniteSets, SequencesExt

CONSTANTS Messages,         \* records [text, level, module]
          Size,             \* length of a message of each level
          SinkFilters,      \* the choices of <<filter of sink 1, of sink 2>>
          Capacity,         \* LOG_SINK_BUFFER_SIZE
          MaxIov,           \* WRITER_MAX_IOV
          Chains,           \* the chains to start with
          MaxRun,           \* bound: messages of a run, at most MAX_BATCH_SIZE
          Window,           \* dedup_filter's window_
          CleanupInterval,  \* dedup_filter's CLEANUP_INTERVAL
          Rate,             \* rate_limit_filter's max_per_second_
          Second,           \* NANOS_PER_SECOND
          Runs,             \* bound: runs
          MaxTime,          \* bound: the clock
          Updates,          \* bound: changes of the chain
          Faults,           \* bound: failed writes, and flushes without a buffer
          Taken             \* bound: what a failed write may have taken of its data

ASSUME SinksAssumption ==
    /\ {Capacity, MaxIov, MaxRun, Window, Second} \subseteq Nat \ {0}
    /\ {CleanupInterval, Rate, Runs, MaxTime, Updates, Faults} \subseteq Nat
    /\ \A m \in Messages : Size[m.level] \in 1 .. Capacity
    /\ MaxRun <= MaxIov
    /\ Taken \subseteq Nat

VARIABLES
  now,
  \* dedup_filter and rate_limit_filter
  seen_messages_, last_cleanup_, tokens, last_refill_,
  \* the dispatcher's chain: lists[c] is configuration c, the last is current
  lists, deleted,
  \* the worker: its pc, configuration and position in it, and the run
  pc, cfg, pos, run,
  \* the updating thread
  upc, old,
  \* the sinks and their files
  sinkFilter, out,
  \* history
  runs, faults,
  passed,         \* the messages no filter dropped
  shown, limited, \* what dedup and rate limit were given: [key, at, dropped]
  broken,         \* sinks with a failed write
  gaveUp          \* a flush() had no buffer

filterState == <<seen_messages_, last_cleanup_, tokens, last_refill_>>
updater == <<lists, deleted, upc, old>>
worker == <<pc, cfg, pos, run>>
output == <<out, broken>>
history == <<passed, shown, limited>>
vars == <<now, filterState, updater, worker, sinkFilter, output, runs, faults, history, gaveUp>>

Filters == {"dedup", "rate_limit", "sampler"}

(* Each filter object is added once.                                         *)
ASSUME ChainsAssumption == \A c \in Chains : c \in Seq(Filters) /\ IsInjective(c)

Texts == {m.text : m \in Messages}
Never == -1
Sinks == {1, 2, 3}
Current == Len(lists)
Fault == faults < Faults /\ faults' = faults + 1

Init ==
    /\ now = 0
    /\ seen_messages_ = [t \in Texts |-> Never] /\ last_cleanup_ = 0
    /\ tokens = Rate * Second /\ last_refill_ = 0
    /\ \E chain \in Chains : lists = <<chain>>
    /\ deleted = {}
    /\ pc = "idle" /\ cfg = 1 /\ pos = 1 /\ run = <<>>
    /\ upc = "idle" /\ old = 1
    /\ sinkFilter \in SinkFilters
    /\ out = [s \in Sinks |-> <<>>] /\ broken = {}
    /\ runs = 0 /\ faults = 0
    /\ passed = <<>> /\ shown = <<>> /\ limited = <<>>
    /\ gaveUp = FALSE

(* Only filters look at the clock.                                           *)
Tick ==
    /\ pc = "filter" /\ now < MaxTime
    /\ now' = now + 1
    /\ UNCHANGED <<filterState, updater, worker, sinkFilter, output, runs, faults, history,
                   gaveUp>>

-----------------------------------------------------------------------------
(* The worker: process_buffer_batch *)

TakeRun ==
    /\ pc = "idle" /\ runs < Runs
    /\ \E n \in 1 .. MaxRun : \E ms \in [1 .. n -> Messages] :
         run' = [k \in 1 .. n |-> [id |-> runs * MaxRun + k, msg |-> ms[k], filtered_ |-> FALSE]]
    /\ runs' = runs + 1
    /\ pc' = "load"
    /\ UNCHANGED <<now, filterState, updater, cfg, pos, sinkFilter, output, faults, history,
                   gaveUp>>

LoadFilters ==
    /\ pc = "load"
    /\ cfg' = Current
    /\ pos' = 1
    /\ pc' = "filter"
    /\ UNCHANGED <<now, filterState, updater, run, sinkFilter, output, runs, faults, history,
                   gaveUp>>

AtFilter(f) == pc = "filter" /\ pos <= Len(lists[cfg]) /\ lists[cfg][pos] = f

Mark(drop) == run' = [k \in DOMAIN run |-> [run[k] EXCEPT !.filtered_ = @ \/ drop[k]]]

outsideFilter == <<now, updater, pc, cfg, sinkFilter, output, runs, faults, passed, gaveUp>>

(* Mutant: the cleanup also forgets what was seen inside the window.         *)
CleanedUpTooMuch ==
    IF now - last_cleanup_ < CleanupInterval THEN seen_messages_
    ELSE [t \in Texts |-> IF seen_messages_[t] <= now - Window + 1 THEN Never
                          ELSE seen_messages_[t]]

(* cleanup_old_entries *)
CleanedUp ==
    IF now - last_cleanup_ < CleanupInterval THEN seen_messages_
    ELSE [t \in Texts |-> IF seen_messages_[t] < now - Window THEN Never ELSE seen_messages_[t]]

(* The messages of one call have the same time: of equal ones only the first *)
(* can pass.                                                                 *)
Dedup ==
    LET text(k) == run[k].msg.text
        known(t) == CleanedUp[t] # Never /\ now - CleanedUp[t] < Window
        drop == [k \in DOMAIN run |-> known(text(k)) \/ \E j \in 1 .. k - 1 : text(j) = text(k)]
    IN /\ AtFilter("dedup")
       /\ Mark(drop)
       /\ seen_messages_' = [t \in Texts |-> IF \E k \in DOMAIN run : text(k) = t THEN now
                                             ELSE CleanedUp[t]]
       /\ last_cleanup_' = IF now - last_cleanup_ < CleanupInterval THEN last_cleanup_ ELSE now
       /\ shown' = shown \o [k \in DOMAIN run |-> [key |-> text(k), at |-> now,
                                                   dropped |-> drop[k]]]
       /\ pos' = pos + 1
       /\ UNCHANGED <<outsideFilter, tokens, last_refill_, limited>>

Refilled ==
    LET sum == tokens + (now - last_refill_) * Rate
    IN IF sum > Rate * Second THEN Rate * Second ELSE sum

Paid(payable) == Second * (IF payable < Len(run) THEN payable ELSE Len(run))

(* The bucket pays for as many messages as it can, also for those an earlier *)
(* filter has marked.                                                        *)
RateLimit ==
    LET payable == Refilled \div Second
        drop == [k \in DOMAIN run |-> k > payable]
    IN /\ AtFilter("rate_limit")
       /\ Mark(drop)
       /\ tokens' = Refilled - Paid(payable)
       /\ last_refill_' = now
       /\ limited' = limited \o [k \in DOMAIN run |-> [at |-> now, dropped |-> drop[k]]]
       /\ pos' = pos + 1
       /\ UNCHANGED <<outsideFilter, seen_messages_, last_cleanup_, shown>>

Sample ==
    /\ AtFilter("sampler")
    /\ \E drop \in [DOMAIN run -> BOOLEAN] : Mark(drop)
    /\ pos' = pos + 1
    /\ UNCHANGED <<outsideFilter, filterState, shown, limited>>

EndFilters ==
    /\ pc = "filter" /\ pos > Len(lists[cfg])
    /\ passed' = passed \o SelectSeq(run, LAMBDA b : ~b.filtered_)
    /\ pos' = 1
    /\ pc' = "sinks"
    /\ UNCHANGED <<now, filterState, updater, cfg, run, sinkFilter, output, runs, faults,
                   shown, limited, gaveUp>>

-----------------------------------------------------------------------------
(* Sink filters: should_process *)

NoModule == "no module"

Processes(f, m) ==
    CASE f.kind = "module" -> f.set = {} \/ m.module \in f.set
      [] f.kind = "exclude" -> f.set = {} \/ m.module \notin f.set
      [] f.kind = "range" -> f.min_level <= m.level /\ m.level <= f.max_level

(* Composites of such filters; not_filter wraps a composite.                 *)
ShouldProcess(f, m) ==
    CASE f.op = "and" -> \A g \in f.of : Processes(g, m)
      [] f.op = "or" -> \E g \in f.of : Processes(g, m)
      [] f.op = "not and" -> ~(\A g \in f.of : Processes(g, m))
      [] f.op = "not or" -> ~(\E g \in f.of : Processes(g, m))

-----------------------------------------------------------------------------
(* Sinks: process_batch_individual and bulk_write *)

Format(b) == [k \in 1 .. Size[b.msg.level] |-> b.id]

(* Formatting into the write buffer, which is written whenever the next      *)
(* message does not fit.                                                     *)
Batched(bs) ==
    FoldLeft(LAMBDA acc, b :
               IF Len(acc.buffer) + Len(Format(b)) > Capacity /\ acc.buffer # <<>>
                 THEN [writes |-> Append(acc.writes, acc.buffer), buffer |-> Format(b)]
                 ELSE [acc EXCEPT !.buffer = @ \o Format(b)],
             [writes |-> <<>>, buffer |-> <<>>], bs)

(* Mutant: what is left in the write buffer at the end is not written.       *)
WritesButLast(bs) == Batched(bs).writes

Writes(bs) == IF Batched(bs).buffer = <<>> THEN Batched(bs).writes
              ELSE Append(Batched(bs).writes, Batched(bs).buffer)

(* write() is repeated until everything is written; when it fails, the rest  *)
(* of that write is lost and the next one is tried.                          *)
Put(s, ws) ==
    \/ /\ out' = [out EXCEPT ![s] = @ \o FlattenSeq(ws)]
       /\ UNCHANGED <<faults, broken>>
    \/ /\ Fault
       /\ broken' = broken \cup {s}
       /\ \E i \in DOMAIN ws : \E n \in Taken \cap (0 .. Len(ws[i]) - 1) :
            out' = [out EXCEPT ![s] = @ \o FlattenSeq([ws EXCEPT ![i] = SubSeq(@, 1, n)])]

outsideSinks == <<now, filterState, updater, cfg, run, sinkFilter, runs, history, gaveUp>>

(* Sinks 1 and 2 have a file_writer.                                         *)
ProcessIndividual ==
    /\ pc = "sinks" /\ pos \in {1, 2}
    /\ LET mine == SelectSeq(run, LAMBDA b : ~b.filtered_ /\ ShouldProcess(sinkFilter[pos], b.msg))
       IN Put(pos, Writes(mine))
    /\ pos' = pos + 1
    /\ UNCHANGED <<outsideSinks, pc>>

(* Sink 3 has a writev_file_writer: one writev(), whatever the sink's filter.*)
ProcessBulk ==
    /\ pc = "sinks" /\ pos = 3
    /\ LET mine == SelectSeq(run, LAMBDA b : ~b.filtered_)
           iov == [k \in 1 .. (IF Len(mine) < MaxIov THEN Len(mine) ELSE MaxIov) |-> Format(mine[k])]
       IN IF mine = <<>> THEN UNCHANGED <<out, broken, faults>>
          ELSE Put(3, <<FlattenSeq(iov)>>)
    /\ pos' = pos + 1
    /\ UNCHANGED <<outsideSinks, pc>>

ReleaseRun ==
    /\ pc = "sinks" /\ pos > 3
    /\ run' = <<>>
    /\ pc' = "idle"
    /\ UNCHANGED <<now, filterState, updater, cfg, pos, sinkFilter, output, runs, faults, history,
                   gaveUp>>

-----------------------------------------------------------------------------
(* Changes of the chain: update_filter_config *)

outsideUpdater == <<now, last_cleanup_, tokens, last_refill_, worker, sinkFilter, output, runs,
                    passed, limited>>

Publish(list) ==
    /\ upc = "idle" /\ Len(lists) <= Updates
    /\ old' = Current
    /\ lists' = Append(lists, list)
    /\ upc' = "flush"
    /\ UNCHANGED <<outsideUpdater, seen_messages_, deleted, faults, shown, gaveUp>>

(* Each filter object is added once.                                         *)
AddFilter == \E f \in Filters \ ToSet(lists[Current]) : Publish(Append(lists[Current], f))
RemoveFilter == \E i \in DOMAIN lists[Current] : Publish(RemoveAt(lists[Current], i))
ClearFilters == Publish(<<>>)

(* Mutant: flush() does not wait.                                            *)
FlushNothing ==
    /\ upc = "flush"
    /\ upc' = "shutdown"
    /\ UNCHANGED <<outsideUpdater, seen_messages_, lists, deleted, old, faults, shown, gaveUp>>

FlushUpdate ==
    /\ upc = "flush"
    /\ \/ pc = "idle" /\ UNCHANGED <<faults, gaveUp>>
       \/ Fault /\ gaveUp' = TRUE
    /\ upc' = "shutdown"
    /\ UNCHANGED <<outsideUpdater, seen_messages_, lists, deleted, old, shown>>

(* shutdown() of every filter of the old configuration, those of the new one *)
(* included.                                                                 *)
ShutdownFilters ==
    /\ upc = "shutdown"
    /\ IF "dedup" \in ToSet(lists[old])
         THEN /\ seen_messages_' = [t \in Texts |-> Never]
              /\ shown' = <<>>
         ELSE UNCHANGED <<seen_messages_, shown>>
    /\ upc' = "delete"
    /\ UNCHANGED <<outsideUpdater, lists, deleted, old, faults, gaveUp>>

DeleteFilters ==
    /\ upc = "delete"
    /\ deleted' = deleted \cup {old}
    /\ upc' = "idle"
    /\ UNCHANGED <<outsideUpdater, seen_messages_, lists, old, faults, shown, gaveUp>>

-----------------------------------------------------------------------------
Next ==
    \/ Tick \/ TakeRun \/ LoadFilters \/ Dedup \/ RateLimit \/ Sample \/ EndFilters
    \/ ProcessIndividual \/ ProcessBulk \/ ReleaseRun
    \/ AddFilter \/ RemoveFilter \/ ClearFilters \/ FlushUpdate \/ ShutdownFilters
    \/ DeleteFilters

Spec == Init /\ [][Next]_vars
=============================================================================
