------------------------- MODULE RotationProperties -------------------------
(* What a rotating log file promises: see Rotation.                          *)
EXTENDS Rotation

(* Type correctness of the directory, the handle and the threads.            *)
RotationTypeOK ==
    /\ dir \in [Names -> 0 .. MaxFiles] /\ files \in 0 .. MaxFiles
    /\ where \in Seq(1 .. files) /\ closed \subseteq 1 .. files
    /\ {current_fd_, next_fd_, next_temp_, new_fd, old_fd} \subseteq 0 .. files
    /\ {next_fd_ready_, in_error_state_, due, tracked, running_, sentinel} \subseteq BOOLEAN
    /\ {sema, bytes_written_, attempts, retries} \subseteq Nat
    /\ \A i \in DOMAIN queue_ : queue_[i].type \in {"rotate", "close"}
    /\ \A i \in DOMAIN cache : cache[i].name \in RotatedNames
    /\ pc["writer"] \in {"open", "retain", "prepare", "publish", "signal", "track", "idle",
                         "written", "check", "next", "swap", "unready", "notify", "wait",
                         "dropped", "gone"}
    /\ pc["rotator"] \in {"loop", "dequeue", "rotate", "close", "link", "fallback", "rename",
                          "stat", "retain", "compute", "prepare", "publish", "signal",
                          "stopped"}
    /\ pc["owner"] \in {"up", "sentinel", "join", "destroyed"}

Opened == pc["writer"] \notin {"open", "retain"}

(* The temporary files of rotations the rotator still has to finish.         *)
Underway ==
    {queue_[i].temp : i \in DOMAIN queue_} \cup {msg.temp}
      \cup (IF pc["writer"] \in {"unready", "notify"} THEN {new_fd} ELSE {})

(* A reader of the log finds a file under the log's name or a rotated one,   *)
(* or will once the rotator has renamed it.                                  *)
Findable(f) ==
    \/ \E n \in {Base} \cup RotatedNames : dir[n] = f
    \/ dir[Temp(f)] = f /\ f \in Underway

(* (a) What can be found of the log is always the newest part of it, without     *)
(* gaps: whatever the writer, the rotator, retention and emergency cleanup   *)
(* do in whatever order, no line is lost before all older ones are, and the  *)
(* file being written is never lost (get_next_fd, handle_rotation,           *)
(* perform_zero_gap_rotation, apply_retention_timestamped).  (b) The log's   *)
(* name always leads to a file, also in the middle of a rotation, as long as *)
(* the file system can link (perform_zero_gap_rotation).                     *)
LogContinuous ==
    /\ ~gave_up /\ running_ =>
         /\ \A m, n \in DOMAIN where :
              m <= n /\ Findable(where[m]) => Findable(where[n])
         /\ Opened => Findable(current_fd_)
    /\ pc["writer"] # "open" /\ faults["link"] = 0 => Exists(Base)

(* Neither thread closes a descriptor the writer is using or will use.       *)
FdsOpen ==
    Opened /\ pc["writer"] \notin {"dropped", "gone"} /\ pc["owner"] # "destroyed" =>
      {current_fd_, next_fd_} \cap closed = {}

(* At rest the cache lists exactly the rotated files in the directory, and   *)
(* no more of them than policy.keep_files: a file missing from the cache     *)
(* would never be deleted, one too many would be deleted in place of another.*)
CacheMatchesDirectory ==
    Opened /\ ~gave_up /\ pc["rotator"] \in {"loop", "dequeue"} =>
      /\ NamesIn(cache) = {n \in RotatedNames : Exists(n) /\ LinesIn(dir[n]) # {}}
      /\ Len(cache) = Cardinality(NamesIn(cache))
      /\ KeepFiles > 0 => Len(cache) <= KeepFiles

(* Temporary files do not pile up: every one is either prepared for the next *)
(* rotation or part of one under way, and none outlives the handle.          *)
TempsAccounted ==
    ~gave_up /\ pc["owner"] = "up" =>
      \A f \in 1 .. files :
        Exists(Temp(f)) => \/ f \in Underway
                           \/ f = next_fd_ /\ pc["writer"] # "gone"
                           \/ f = new_fd /\ pc["writer"] = "swap"

(* Every file the rotator has made is known to somebody who will rename or   *)
(* delete it, in every state a run of writes, rotations, faults and          *)
(* shutdowns leads to.                                                       *)
NamesAccounted == RotationTypeOK /\ CacheMatchesDirectory /\ TempsAccounted

(* "The rotator thread will always signal the semaphore eventually": a       *)
(* writer that waits for a descriptor gets one or learns of the error,       *)
(* while the service runs (get_next_fd, prepare_next_fd_with_retry).         *)
WriterReturns == pc["writer"] = "wait" ~> (pc["writer"] # "wait" \/ ~running_)

(* Files that have been written to do not keep their temporary names.        *)
WrittenTemps == {f \in 1 .. files : Exists(Temp(f)) /\ LinesIn(f) # {}}
NamedInTheEnd == WrittenTemps # {} ~> (WrittenTemps = {} \/ gave_up \/ ~running_)

(* Retention "delete[s] oldest to stay under limit": lines that can no       *)
(* longer be found are older than all lines of rotated files that stay.      *)
OldestGoFirst ==
    [][\A m, n \in DOMAIN where :
         /\ Findable(where[m]) /\ ~Findable(where[m])'
         /\ \E r \in RotatedNames : dir[r] = where[n] /\ dir'[r] = where[n]
         => m < n]_vars
=============================================================================
