--------------------------- MODULE SinksProperties ---------------------------
(* What filters and sinks promise: see Sinks.                                *)
EXTENDS Sinks

(* Type correctness of the filters, the chain, the run and the files.        *)
SinksTypeOK ==
    /\ now \in 0 .. MaxTime
    /\ seen_messages_ \in [Texts -> {Never} \cup (0 .. now)]
    /\ {last_cleanup_, last_refill_} \subseteq 0 .. now
    /\ tokens \in 0 .. Rate * Second
    /\ \A c \in DOMAIN lists : ToSet(lists[c]) \subseteq Filters /\ IsInjective(lists[c])
    /\ deleted \subseteq DOMAIN lists /\ {cfg, old} \subseteq DOMAIN lists
    /\ pc \in {"idle", "load", "filter", "sinks"} /\ pos \in 1 .. 4
    /\ upc \in {"idle", "flush", "shutdown", "delete"}

(* The worker never goes through a deleted chain, unless a flush() had no    *)
(* buffer (process_buffer_batch, update_filter_config).                      *)
FiltersAlive == SinksTypeOK /\ (pc = "filter" /\ ~gaveUp => cfg \notin deleted)

(* dedup_filter drops a message exactly if it was shown an equal one less    *)
(* than the window before, since it was last shut down: forgetting old       *)
(* entries now and then makes no difference (cleanup_old_entries).           *)
DuplicatesExact ==
    \A j \in DOMAIN shown :
      shown[j].dropped <=>
        \E i \in 1 .. j - 1 : /\ shown[i].key = shown[j].key
                              /\ shown[j].at - shown[i].at < Window

(* rate_limit_filter lets a message pass exactly if, counting from any       *)
(* earlier one on, no more than a full bucket and what was refilled since    *)
(* have passed, however the messages are spread over batches and time.       *)
PassedIn(i, j) == Cardinality({k \in i .. j : ~limited[k].dropped})
RateExact ==
    \A j \in DOMAIN limited :
      limited[j].dropped <=>
        \E i \in 1 .. j :
          (PassedIn(i, j - 1) + 1) * Second
             > Rate * Second + Rate * (limited[j].at - limited[i].at)

(* What deduplication and rate limiting let through is what their            *)
(* documentation says of the messages they were shown, however these are     *)
(* spread over batches, clean-ups and refills.                               *)
DecisionsExact == DuplicatesExact /\ RateExact

Accepted(s) == SelectSeq(passed, LAMBDA b : ShouldProcess(sinkFilter[s], b.msg))

(* A sink's file holds what its filter accepts of what the chain lets pass,  *)
(* in order, whole and once, however it is cut into writes; a failed write   *)
(* breaks no other sink (process_batch_individual, file_writer::write).      *)
OutputExact ==
    pc = "idle" =>
      /\ \A s \in {1, 2} \ broken :
           out[s] = FlattenSeq([k \in DOMAIN Accepted(s) |-> Format(Accepted(s)[k])])
      /\ 3 \notin broken => out[3] = FlattenSeq([k \in DOMAIN passed |-> Format(passed[k])])

(* "Called when filter is being removed": shutdown() is called for no filter *)
(* that stays in the chain (log_filter::shutdown).                           *)
ShutdownOnlyRemoved ==
    [][upc = "shutdown" /\ upc' # "shutdown" =>
         ToSet(lists[old]) \cap ToSet(lists[Current]) = {}]_vars
=============================================================================
