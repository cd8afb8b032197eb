------------------------ MODULE CompressionProperties -----------------------
(* What compression of rotated files promises: see Compression.              *)
EXTENDS Compression

(* Type correctness of the directory, the cache, the queue and the threads.  *)
CompressionTypeOK ==
    /\ raw \subseteq Files /\ dropped \subseteq Files
    /\ gz \in [Files -> {"none", "partial", "complete"}]
    /\ pending \in [Files -> {"none", "partial", "complete"}]
    /\ comp_state \in [Files -> {"idle", "queued", "compressing", "done", "cancelled"}]
    /\ fname \in [Files -> {"raw", "gz"}]
    /\ cache_mutex_ \in {"free", "rotator"}
    /\ {cache, queue_, batch, victims} \subseteq Seq(Files)
    /\ Len(batch) <= MaxBatch
    /\ nulls \in Nat /\ size \in 0 .. SizeWrap - 1
    /\ entry \in [Workers -> Files \cup {NoEntry}]

(* The steps of compress_file_sync between claiming an entry and giving it up. *)
Compressing(t, f) ==
    /\ entry[t] = f
    /\ pc[t] \in {"compress", "stat", "source", "deflate", "trailer", "verdict", "discard",
                  "rename", "remove", "update", "done"}
Busy(f) == \E t \in Workers : Compressing(t, f)

(* "Original data never lost": a rotated file that neither retention nor     *)
(* emergency cleanup deleted exists, as it was or completely compressed, in  *)
(* every intermediate state, and no .gz is ever incomplete                   *)
(* (compress_file_sync, file_to_gzip_with_cancel).                           *)
DataKept ==
    \A f \in 1 .. rotated :
      /\ gz[f] # "partial"
      /\ f \notin dropped => f \in raw \/ gz[f] = "complete"

(* Only the file being compressed has a pending file; cancellation, failure  *)
(* and a stop in the middle leave none behind.                               *)
PendingCleaned ==
    \A f \in Files : pending[f] # "none" => Busy(f)

(* No file is compressed by two threads, or by one and queued again: the     *)
(* exchanges on comp_state hand an entry to one thread at a time.            *)
Places(f) ==
    Cardinality({i \in DOMAIN queue_ : queue_[i] = f})
      + Cardinality({i \in DOMAIN batch : batch[i] = f})
      + Cardinality({t \in Workers : Compressing(t, f)})
      + (IF pc["rotator"] = "push" /\ entry["rotator"] = f THEN 1 ELSE 0)
      + (IF pc["compressor"] = "taken" /\ entry["compressor"] = f THEN 1 ELSE 0)
OnePlace == \A f \in Files : Places(f) <= 1

(* An entry of the cache that is not being compressed names an existing      *)
(* file, and a file that was not compressed has an entry: retention deletes  *)
(* by these names and nothing else finds the files.                          *)
CacheNamesFiles ==
    pc["rotator"] = "idle" =>
      /\ \A i \in DOMAIN cache :
           LET f == cache[i]
           IN ~Busy(f) => IF fname[f] = "raw" THEN f \in raw ELSE gz[f] = "complete"
      /\ \A f \in raw : f \in ToSet(cache)

(* No file is forgotten: neither the original, nor its .gz, nor a pending    *)
(* file of a compression that was cancelled, failed or stopped.              *)
FilesAccounted == CompressionTypeOK /\ PendingCleaned /\ CacheNamesFiles

(* "When compression queue is full, new compressions are skipped": and only  *)
(* then, while the thread runs (enqueue_for_compression,                     *)
(* compression_queue_size_).                                                 *)
Waiting == Len(queue_) + (IF pc["compressor"] = "taken" THEN 1 ELSE 0)
SkippedOnlyWhenFull ==
    [][running_ /\ pc["rotator"] = "offer" /\ pc'["rotator"] = "spare" => Waiting >= QueueMax]_vars

(* A file is left out only when the queue is full, a queued file is dealt    *)
(* with while the thread runs, and stop_compression_thread returns, whatever *)
(* the thread was doing.                                                     *)
QueueServed ==
    /\ SkippedOnlyWhenFull
    /\ \A f \in Files : comp_state[f] = "queued" ~> (comp_state[f] # "queued" \/ ~running_)
    /\ pc["owner"] = "join" ~> pc["owner"] = "stopped"
=============================================================================
