---------------------------- MODULE Compression ----------------------------
(***************************************************************************)
(* Compression of rotated files: the rotator thread, which adds files to    *)
(* the cache, deletes the oldest and offers the new one for compression;    *)
(* the compression thread, which collects batches and compresses them; and  *)
(* the thread that starts and stops it (log_file_rotator_impl.hpp,          *)
(* log_gzip.hpp).  The rotator compresses by itself while the compression   *)
(* thread is not running.                                                   *)
(*                                                                         *)
(* External: the file system and moodycamel's queue.  The queue is the      *)
(* rotator's FIFO and a number of null entries of the stopping thread's;    *)
(* the consumer may take from either.  Of a rotated file the model keeps    *)
(* whether the file itself, its .gz and its .gz.pending exist.  What the    *)
(* rotator does with descriptors is in Rotation.  The handle outlives the   *)
(* compression of its files.                                                *)
(***************************************************************************)
EXTENDS Integers, Sequences, FiniteSets, SequencesExt

CONSTANTS KeepFiles,    \* policy.keep_files
          QueueMax,     \* compression_queue_max_
          MaxBatch,     \* COMPRESS_THREAD_MAX_BATCH
          SizeWrap,     \* 2^w for the width w of size_t
          Rotations,    \* bound: files rotated
          Starts,       \* bound: calls of start_compression_thread()
          Faults        \* bound: failures of the file system

ASSUME CompressionAssumption ==
    /\ {KeepFiles, QueueMax, MaxBatch} \subseteq Nat \ {0}
    /\ {Rotations, Starts, Faults} \subseteq Nat
    /\ SizeWrap \in Nat /\ SizeWrap > Rotations + QueueMax

VARIABLES
  \* the directory
  raw,         \* rotated files that exist
  gz, pending, \* what is in each file's .gz and .gz.pending
  \* the cache
  cache, comp_state,
  fname,       \* which of its names entry->filename is
  cache_mutex_,
  \* the queue
  queue_, nulls, size, running_,
  \* the threads
  pc, entry,   \* the file each thread works on
  victims,     \* what is left of to_delete
  batch,
  starts, faults,
  \* history
  rotated,     \* number of files rotated so far
  dropped      \* files that retention or cleanup decided to delete

disk      == <<raw, gz, pending>>
cacheVars == <<cache, comp_state, fname, cache_mutex_>>
queueVars == <<queue_, nulls, size>>
vars == <<disk, cacheVars, queueVars, running_, pc, entry, victims, batch, starts, faults,
          rotated, dropped>>

(* Frames of the actions below. *)
bounds == <<starts, faults, rotated>>
outsideCompress == <<cache, cache_mutex_, queueVars, running_, victims, batch, starts,
                     rotated, dropped>>
outsideRotator == <<gz, pending, nulls, running_, batch, starts>>
outsideThread == <<disk, cache, fname, cache_mutex_, victims, bounds, dropped>>
outsideOwner == <<disk, cacheVars, queue_, size, entry, victims, batch, faults, rotated, dropped>>

Files == 1 .. Rotations
NoEntry == 0
Threads == {"rotator", "compressor", "owner"}
Workers == {"rotator", "compressor"}
Goto(t, label) == pc' = [pc EXCEPT ![t] = label]
SetState(f, s) == comp_state' = [comp_state EXCEPT ![f] = s]
Work(t, f) == entry' = [entry EXCEPT ![t] = f]

Fault == /\ faults < Faults
         /\ faults' = faults + 1

Init ==
    /\ raw = {}
    /\ gz = [f \in Files |-> "none"] /\ pending = [f \in Files |-> "none"]
    /\ cache = <<>> /\ cache_mutex_ = "free"
    /\ comp_state = [f \in Files |-> "idle"]
    /\ fname = [f \in Files |-> "raw"]
    /\ queue_ = <<>> /\ nulls = 0 /\ size = 0 /\ running_ = FALSE
    /\ pc = [t \in Threads |-> CASE t = "rotator" -> "idle"
                                 [] t = "compressor" -> "ended"
                                 [] t = "owner" -> "stopped"]
    /\ entry = [t \in Workers |-> NoEntry]
    /\ victims = <<>> /\ batch = <<>>
    /\ starts = 0 /\ faults = 0
    /\ rotated = 0 /\ dropped = {}

-----------------------------------------------------------------------------
(* compress_file_sync and file_to_gzip_with_cancel, by thread t              *)

AfterCompress(t) == Goto(t, IF t = "rotator" THEN "spare" ELSE "process")

RemoveLeftover(t) ==
    /\ pc[t] = "compress"
    /\ pending' = [pending EXCEPT ![entry[t]] = "none"]
    /\ IF comp_state[entry[t]] = "cancelled" THEN AfterCompress(t) ELSE Goto(t, "stat")
    /\ UNCHANGED <<raw, gz, comp_state, fname, entry, faults, outsideCompress>>

StatSource(t) ==
    /\ pc[t] = "stat"
    /\ IF entry[t] \in raw
         THEN Goto(t, "source") /\ UNCHANGED comp_state
         ELSE AfterCompress(t) /\ SetState(entry[t], "done")
    /\ UNCHANGED <<disk, fname, entry, faults, outsideCompress>>

(* The source may be gone by now; otherwise the pending file is created.     *)
OpenSource(t) ==
    /\ pc[t] = "source"
    /\ IF entry[t] \in raw
         THEN /\ pending' = [pending EXCEPT ![entry[t]] = "partial"]
              /\ Goto(t, "deflate")
         ELSE /\ Goto(t, "discard")
              /\ UNCHANGED pending
    /\ UNCHANGED <<raw, gz, comp_state, fname, entry, faults, outsideCompress>>

(* The loop over the blocks, with its look at the state, and the trailer;    *)
(* the last look comes before the trailer.                                   *)
Deflate(t) ==
    /\ pc[t] = "deflate"
    /\ IF comp_state[entry[t]] = "cancelled"
         THEN Goto(t, "discard")
         ELSE Goto(t, "trailer")
    /\ UNCHANGED <<disk, comp_state, fname, entry, faults, outsideCompress>>

WriteTrailer(t) ==
    /\ pc[t] = "trailer"
    /\ \/ /\ pending' = [pending EXCEPT ![entry[t]] = "complete"]
          /\ Goto(t, "verdict")
          /\ UNCHANGED faults
       \/ /\ Fault
          /\ Goto(t, "discard")
          /\ UNCHANGED pending
    /\ UNCHANGED <<raw, gz, comp_state, fname, entry, outsideCompress>>

Verdict(t) ==
    /\ pc[t] = "verdict"
    /\ Goto(t, IF comp_state[entry[t]] = "cancelled" THEN "discard" ELSE "rename")
    /\ UNCHANGED <<disk, comp_state, fname, entry, faults, outsideCompress>>

(* Failed or cancelled: the pending file goes, the state stays as it is.     *)
Discard(t) ==
    /\ pc[t] = "discard"
    /\ pending' = [pending EXCEPT ![entry[t]] = "none"]
    /\ AfterCompress(t)
    /\ UNCHANGED <<raw, gz, comp_state, fname, entry, faults, outsideCompress>>

(* rename() to .gz; when it fails, also after the old .gz has been removed,  *)
(* the pending file goes.                                                    *)
RenamePending(t) ==
    /\ pc[t] = "rename"
    /\ gz' = [gz EXCEPT ![entry[t]] = pending[entry[t]]]
    /\ pending' = [pending EXCEPT ![entry[t]] = "none"]
    /\ Goto(t, "remove")
    /\ UNCHANGED <<raw, comp_state, fname, entry, faults, outsideCompress>>

(* Mutant: the second failure of rename() is not looked at.                  *)
RenameIgnored(t) ==
    /\ pc[t] = "rename"
    /\ Fault
    /\ gz' = [gz EXCEPT ![entry[t]] = "none"]
    /\ Goto(t, "remove")
    /\ UNCHANGED <<raw, pending, comp_state, fname, entry, outsideCompress>>

RenamePendingFails(t) ==
    /\ pc[t] = "rename"
    /\ Fault
    /\ gz' = [gz EXCEPT ![entry[t]] = "none"]
    /\ pending' = [pending EXCEPT ![entry[t]] = "none"]
    /\ SetState(entry[t], "done")
    /\ AfterCompress(t)
    /\ UNCHANGED <<raw, fname, entry, outsideCompress>>

RemoveSource(t) ==
    /\ pc[t] = "remove"
    /\ raw' = raw \ {entry[t]}
    /\ Goto(t, "update")
    /\ UNCHANGED <<gz, pending, comp_state, fname, entry, faults, outsideCompress>>

(* Mutant: the entry keeps the name of the file that was removed.            *)
UpdateNothing(t) ==
    /\ pc[t] = "update" /\ cache_mutex_ = "free"
    /\ Goto(t, "done")
    /\ UNCHANGED <<disk, comp_state, fname, entry, faults, outsideCompress>>

UpdateEntry(t) ==
    /\ pc[t] = "update" /\ cache_mutex_ = "free"
    /\ fname' = [fname EXCEPT ![entry[t]] = "gz"]
    /\ Goto(t, "done")
    /\ UNCHANGED <<disk, comp_state, entry, faults, outsideCompress>>

MarkDone(t) ==
    /\ pc[t] = "done"
    /\ SetState(entry[t], "done")
    /\ AfterCompress(t)
    /\ UNCHANGED <<disk, fname, entry, faults, outsideCompress>>

Compress(t) ==
    \/ RemoveLeftover(t) \/ StatSource(t) \/ OpenSource(t) \/ Deflate(t) \/ WriteTrailer(t)
    \/ Verdict(t) \/ Discard(t) \/ RenamePending(t) \/ RenamePendingFails(t)
    \/ RemoveSource(t) \/ UpdateEntry(t) \/ MarkDone(t)

-----------------------------------------------------------------------------
(* The rotator thread: handle_rotation from add_to_cache on                  *)

UnlinkEntry(f) ==
    IF fname[f] = "raw" THEN raw' = raw \ {f} /\ UNCHANGED gz
    ELSE gz' = [gz EXCEPT ![f] = "none"] /\ UNCHANGED raw

AddToCache ==
    /\ pc["rotator"] = "idle" /\ rotated < Rotations
    /\ cache_mutex_ = "free"
    /\ rotated' = rotated + 1
    /\ raw' = raw \cup {rotated'}
    /\ cache' = Append(cache, rotated')
    /\ Work("rotator", rotated')
    /\ Goto("rotator", "retain")
    /\ UNCHANGED <<outsideRotator, comp_state, fname, cache_mutex_, queue_, size, victims, faults,
                   dropped>>

(* apply_retention_timestamped: the files to delete, oldest first.           *)
Surplus == SubSeq(cache, 1, Len(cache) - KeepFiles)

LockForRetention ==
    /\ pc["rotator"] = "retain" /\ cache_mutex_ = "free"
    /\ cache_mutex_' = "rotator"
    /\ victims' = Surplus
    /\ Goto("rotator", "cancel queued")
    /\ UNCHANGED <<outsideRotator, raw, cache, comp_state, fname, queue_, size, entry, faults,
                   rotated, dropped>>

Victim == Head(victims)

(* Two compare-and-exchange: queued to cancelled, or compressing to it.      *)
CancelQueued ==
    /\ pc["rotator"] = "cancel queued" /\ victims # <<>>
    /\ dropped' = dropped \cup {Victim}
    /\ IF comp_state[Victim] = "queued"
         THEN SetState(Victim, "cancelled") /\ Goto("rotator", "unlink")
         ELSE UNCHANGED comp_state /\ Goto("rotator", "cancel compressing")
    /\ UNCHANGED <<outsideRotator, raw, cache, fname, cache_mutex_, queue_, size, entry, victims,
                   faults, rotated>>

CancelCompressing ==
    /\ pc["rotator"] = "cancel compressing"
    /\ IF comp_state[Victim] = "compressing" THEN SetState(Victim, "cancelled")
       ELSE UNCHANGED comp_state
    /\ Goto("rotator", "unlink")
    /\ UNCHANGED <<outsideRotator, raw, cache, fname, cache_mutex_, queue_, size, entry, victims,
                   faults, rotated, dropped>>

UnlinkVictim ==
    /\ pc["rotator"] = "unlink"
    /\ UnlinkEntry(Victim)
    /\ victims' = Tail(victims)
    /\ Goto("rotator", "cancel queued")
    /\ UNCHANGED <<pending, cacheVars, queueVars, running_, entry, batch, bounds, dropped>>

EraseVictims ==
    /\ pc["rotator"] = "cancel queued" /\ victims = <<>>
    /\ cache' = SubSeq(cache, Len(Surplus) + 1, Len(cache))
    /\ cache_mutex_' = "free"
    /\ Goto("rotator", IF running_ THEN "offer" ELSE "compress")
    /\ UNCHANGED <<outsideRotator, raw, comp_state, fname, queue_, size, entry, victims, faults,
                   rotated, dropped>>

(* enqueue_for_compression, one atomic operation at a time.                  *)
CheckQueueSize ==
    /\ pc["rotator"] = "offer"
    /\ Goto("rotator", IF size >= QueueMax THEN "spare" ELSE "claim")
    /\ UNCHANGED <<disk, cacheVars, queueVars, running_, entry, victims, batch, bounds, dropped>>

ClaimEntry ==
    /\ pc["rotator"] = "claim"
    /\ IF comp_state[entry["rotator"]] = "idle"
         THEN SetState(entry["rotator"], "queued") /\ Goto("rotator", "push")
         ELSE UNCHANGED comp_state /\ Goto("rotator", "spare")
    /\ UNCHANGED <<disk, cache, fname, cache_mutex_, queueVars, running_, entry, victims, batch,
                   bounds, dropped>>

PushEntry ==
    /\ pc["rotator"] = "push"
    /\ queue_' = Append(queue_, entry["rotator"])
    /\ Goto("rotator", "count")
    /\ UNCHANGED <<disk, cacheVars, nulls, size, running_, entry, victims, batch, bounds, dropped>>

CountEntry ==
    /\ pc["rotator"] = "count"
    /\ size' = (size + 1) % SizeWrap
    /\ Goto("rotator", "spare")
    /\ UNCHANGED <<disk, cacheVars, queue_, nulls, running_, entry, victims, batch, bounds, dropped>>

(* prepare_next_fd_with_retry; when it finds no space, emergency_cleanup     *)
(* deletes the first compressed file, or the oldest, without cancelling.     *)
PrepareNextFd ==
    /\ pc["rotator"] = "spare"
    /\ Goto("rotator", "idle")
    /\ UNCHANGED <<disk, cacheVars, queueVars, running_, entry, victims, batch, bounds, dropped>>

EmergencyVictim ==
    LET compressed == {i \in DOMAIN cache : fname[cache[i]] = "gz"}
    IN IF compressed = {} THEN 1 ELSE CHOOSE i \in compressed : \A j \in compressed : i <= j

EmergencyCleanup ==
    /\ pc["rotator"] = "spare" /\ cache # <<>> /\ cache_mutex_ = "free"
    /\ Fault
    /\ UnlinkEntry(cache[EmergencyVictim])
    /\ dropped' = dropped \cup {cache[EmergencyVictim]}
    /\ cache' = RemoveAt(cache, EmergencyVictim)
    /\ Goto("rotator", "idle")
    /\ UNCHANGED <<pending, comp_state, fname, cache_mutex_, queueVars, running_, entry, victims,
                   batch, starts, rotated>>

RotatorStep ==
    \/ LockForRetention \/ CancelQueued \/ CancelCompressing \/ UnlinkVictim \/ EraseVictims
    \/ CheckQueueSize \/ ClaimEntry \/ PushEntry \/ CountEntry \/ PrepareNextFd
    \/ EmergencyCleanup \/ Compress("rotator")

-----------------------------------------------------------------------------
(* The compression thread *)

LoopWhileRunning ==
    /\ pc["compressor"] = "loop"
    /\ batch' = <<>>
    /\ Goto("compressor", IF running_ THEN "wait" ELSE "drain")
    /\ UNCHANGED <<outsideThread, comp_state, queueVars, running_, entry>>

(* Mutant: the entry stays in the queue.                                     *)
PeekFirst ==
    /\ pc["compressor"] = "wait"
    /\ \/ /\ nulls > 0
          /\ nulls' = nulls - 1
          /\ Goto("compressor", "loop")
          /\ UNCHANGED entry
       \/ /\ queue_ # <<>>
          /\ Work("compressor", Head(queue_))
          /\ Goto("compressor", "taken")
          /\ UNCHANGED nulls
    /\ UNCHANGED <<outsideThread, comp_state, queue_, size, running_, batch>>

TakeFirst ==
    /\ pc["compressor"] = "wait"
    /\ \/ /\ nulls > 0
          /\ nulls' = nulls - 1
          /\ Goto("compressor", "loop")
          /\ UNCHANGED <<queue_, entry>>
       \/ /\ queue_ # <<>>
          /\ Work("compressor", Head(queue_))
          /\ queue_' = Tail(queue_)
          /\ Goto("compressor", "taken")
          /\ UNCHANGED nulls
    /\ UNCHANGED <<outsideThread, comp_state, size, running_, batch>>

(* The second look at compression_running_.                                  *)
KeepFirst ==
    /\ pc["compressor"] = "taken"
    /\ IF running_
         THEN /\ batch' = <<entry["compressor"]>>
              /\ size' = (size - 1) % SizeWrap
              /\ Goto("compressor", "collect")
         ELSE /\ Goto("compressor", "drain")
              /\ UNCHANGED <<batch, size>>
    /\ UNCHANGED <<outsideThread, comp_state, queue_, nulls, running_, entry>>

CollectMore ==
    /\ pc["compressor"] = "collect" /\ Len(batch) < MaxBatch
    /\ \/ /\ nulls > 0
          /\ nulls' = nulls - 1
          /\ UNCHANGED <<queue_, size, batch>>
       \/ /\ queue_ # <<>>
          /\ batch' = Append(batch, Head(queue_))
          /\ queue_' = Tail(queue_)
          /\ size' = (size - 1) % SizeWrap
          /\ UNCHANGED nulls
    /\ UNCHANGED <<outsideThread, comp_state, running_, pc, entry>>

(* Mutant: the batch is cleared before it is processed.                      *)
EndAndClear ==
    /\ pc["compressor"] = "collect"
    /\ batch' = <<>>
    /\ Goto("compressor", "process")
    /\ UNCHANGED <<outsideThread, comp_state, queueVars, running_, entry>>

(* The deadline passes, the batch is full, or the thread is to stop.         *)
EndCollection ==
    /\ pc["compressor"] = "collect"
    /\ Goto("compressor", "process")
    /\ UNCHANGED <<outsideThread, comp_state, queueVars, running_, entry, batch>>

ProcessNext ==
    /\ pc["compressor"] = "process" /\ batch # <<>>
    /\ Work("compressor", Head(batch))
    /\ batch' = Tail(batch)
    /\ IF comp_state[Head(batch)] = "queued"
         THEN SetState(Head(batch), "compressing") /\ Goto("compressor", "compress")
         ELSE UNCHANGED <<comp_state, pc>>
    /\ UNCHANGED <<outsideThread, queueVars, running_>>

EndBatch ==
    /\ pc["compressor"] = "process" /\ batch = <<>>
    /\ Goto("compressor", "loop")
    /\ UNCHANGED <<outsideThread, comp_state, queueVars, running_, entry, batch>>

(* drain_compression_queue counts a null entry like any other.               *)
DrainOne ==
    /\ pc["compressor"] = "drain"
    /\ size' = (size - 1) % SizeWrap
    /\ \/ /\ nulls > 0
          /\ nulls' = nulls - 1
          /\ UNCHANGED <<queue_, comp_state>>
       \/ /\ queue_ # <<>>
          /\ SetState(Head(queue_), "cancelled")
          /\ queue_' = Tail(queue_)
          /\ UNCHANGED nulls
    /\ UNCHANGED <<outsideThread, running_, pc, entry, batch>>

EndThread ==
    /\ pc["compressor"] = "drain" /\ queue_ = <<>> /\ nulls = 0
    /\ Goto("compressor", "ended")
    /\ UNCHANGED <<outsideThread, comp_state, queueVars, running_, entry, batch>>

CompressorStep ==
    \/ LoopWhileRunning \/ TakeFirst \/ KeepFirst \/ CollectMore \/ EndCollection
    \/ ProcessNext \/ EndBatch \/ DrainOne \/ EndThread \/ Compress("compressor")

-----------------------------------------------------------------------------
(* start_compression_thread and stop_compression_thread *)

StartThread ==
    /\ pc["owner"] = "stopped" /\ starts < Starts
    /\ starts' = starts + 1
    /\ running_' = TRUE
    /\ pc' = [pc EXCEPT !["owner"] = "started", !["compressor"] = "loop"]
    /\ UNCHANGED <<outsideOwner, nulls>>

StopRunning ==
    /\ pc["owner"] = "started"
    /\ running_' = FALSE
    /\ Goto("owner", "wake")
    /\ UNCHANGED <<outsideOwner, nulls, starts>>

WakeThread ==
    /\ pc["owner"] = "wake"
    /\ nulls' = nulls + 1
    /\ Goto("owner", "join")
    /\ UNCHANGED <<outsideOwner, running_, starts>>

JoinThread ==
    /\ pc["owner"] = "join" /\ pc["compressor"] = "ended"
    /\ Goto("owner", "stopped")
    /\ UNCHANGED <<outsideOwner, nulls, running_, starts>>

OwnerStep == WakeThread \/ JoinThread

Next == AddToCache \/ RotatorStep \/ CompressorStep \/ StartThread \/ StopRunning \/ OwnerStep

Spec == Init /\ [][Next]_vars

(* Threads are scheduled and system calls return; files need not rotate and  *)
(* nobody has to start or stop the thread.                                   *)
FairSpec == Spec /\ WF_vars(RotatorStep) /\ WF_vars(CompressorStep) /\ WF_vars(OwnerStep)
=============================================================================
