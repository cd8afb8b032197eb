------------------------------ MODULE Rotation ------------------------------
(***************************************************************************)
(* A rotating log file: rotation_handle and file_writer on the side of the  *)
(* thread that writes, file_rotation_service's rotator thread, and the      *)
(* service's destruction (log_file_rotator.hpp, log_file_rotator_impl.hpp,  *)
(* log_writers.hpp).                                                        *)
(*                                                                         *)
(* The writer writes to the current descriptor; when a rotation is due it   *)
(* swaps to a descriptor that was prepared beforehand under a temporary     *)
(* name, and tells the rotator, which gives the old file its final name and *)
(* the temporary one the name of the log.                                   *)
(*                                                                         *)
(* External: the file system (link, rename, unlink, open fail as the        *)
(* faults below say), moodycamel's queue (one FIFO per producer) and        *)
(* LightweightSemaphore.  Files are numbered as they are created; every     *)
(* file is opened once, so a descriptor is the number of its file.  A line  *)
(* is its number, a size is a number of lines.  policy.compress is off:     *)
(* Compression models it.  The file names' seconds do not change: a name is *)
(* its sequence number.                                                     *)
(***************************************************************************)
EXTENDS Integers, Sequences, FiniteSets, SequencesExt

CONSTANTS MaxBytes,      \* policy.max_bytes (modes size and size_or_time)
          KeepFiles,     \* policy.keep_files, 0 for no limit
          MaxTotal,      \* policy.max_total_bytes, 0 for no limit
          Ageing,        \* whether policy.max_age is set
          MaxRetries,    \* ROTATION_MAX_RETRIES
          LinkAttempts,  \* ROTATION_LINK_ATTEMPTS
          OldFiles,      \* rotated files an earlier process left behind
          Lines,         \* bound: lines written
          Dues,          \* bound: times a rotation time passes
          Faults,        \* bound: failures of open(), link() and rename(), and
                         \* names another process takes first, all together
          Stops          \* whether the service is ever destroyed

ASSUME RotationAssumption ==
    /\ {MaxBytes, MaxRetries, LinkAttempts} \subseteq Nat \ {0}
    /\ {KeepFiles, MaxTotal, OldFiles, Lines, Dues, Faults} \subseteq Nat
    /\ Ageing \in BOOLEAN /\ Stops \in BOOLEAN

VARIABLES
  \* the directory and the files in it
  dir,        \* the file each name leads to, NoFile if there is none
  files,      \* number of files created so far
  where,      \* the file each line was written to
  closed,     \* descriptors that were closed
  \* rotation_handle
  current_fd_, next_fd_, next_fd_ready_,
  next_temp_, \* next_temp_filename_, as the number of its file
  sema,       \* next_fd_semaphore_
  in_error_state_, bytes_written_,
  due,        \* now >= next_rotation_time_
  cache,      \* rotated_files_cache_
  tracked,    \* the service's handles_ has the handle
  \* file_rotation_service
  running_, queue_, sentinel,
  \* its rotator thread, the writing thread, the destroying thread
  pc,
  msg, name, attempts,       \* handle_rotation's locals
  retries, tried_cleanup,    \* prepare_next_fd_with_retry's locals
  new_fd, old_fd,            \* get_next_fd's locals
  \* history
  gave_up,    \* a rename failed or no free name was found
  faults      \* how often each fault has happened, and a rotation time passed

fsVars     == <<dir, files, where, closed>>
fdVars     == <<current_fd_, next_fd_, next_fd_ready_, next_temp_, sema>>
handleVars == <<fdVars, in_error_state_, bytes_written_, due, cache, tracked>>
serviceVars == <<running_, queue_, sentinel>>
rotateLocals == <<msg, name, attempts>>
prepareLocals == <<retries, tried_cleanup>>
writerLocals == <<new_fd, old_fd>>
vars == <<fsVars, handleVars, serviceVars, pc, rotateLocals, prepareLocals,
          writerLocals, gave_up, faults>>

(* Frames of the actions below. *)
outsideWriter == <<cache, tracked, running_, sentinel, rotateLocals, prepareLocals, gave_up>>
outsideRotator == <<where, current_fd_, bytes_written_, tracked, running_, sentinel, writerLocals>>

Threads == {"writer", "rotator", "owner"}
Goto(t, label) == pc' = [pc EXCEPT ![t] = label]

NoFile == 0
NoFd == 0
MaxFiles == OldFiles + Lines + Faults + 3
Base == <<"base", 0>>
Temp(f) == <<"temp", f>>
RotatedNames == {<<"rotated", k>> : k \in 1 .. MaxFiles}
Names == {Base} \cup {Temp(f) : f \in 1 .. MaxFiles} \cup RotatedNames
NoName == <<"none", 0>>

LinesIn(f) == {n \in DOMAIN where : where[n] = f}
(* The time of the last write, or of the creation by another process.       *)
Stamp(f) == IF LinesIn(f) = {} THEN Len(where) ELSE Max(LinesIn(f))
Exists(n) == n # NoName /\ dir[n] # NoFile
Unlink(d, ns) == [n \in DOMAIN d |-> IF n \in ns THEN NoFile ELSE d[n]]

Fault(kind) ==
    /\ faults.open + faults.link + faults.rename + faults.collision < Faults
    /\ faults' = [faults EXCEPT ![kind] = @ + 1]

NoMsg == [type |-> "none", fd |-> NoFd, temp |-> NoFile]

(* An earlier process left OldFiles rotated files, and maybe the log itself. *)
Init ==
    /\ \E b \in {0, 1} :
         /\ files = OldFiles + b
         /\ dir = [n \in Names |->
                     IF n \in RotatedNames /\ n[2] <= OldFiles THEN n[2]
                     ELSE IF n = Base /\ b = 1 THEN OldFiles + 1 ELSE NoFile]
         /\ where = [n \in 1 .. OldFiles + b |-> n]
    /\ closed = {}
    /\ current_fd_ = NoFd /\ next_fd_ = NoFd /\ next_fd_ready_ = FALSE
    /\ next_temp_ = NoFile /\ sema = 0
    /\ in_error_state_ = FALSE /\ bytes_written_ = 0 /\ due = FALSE
    /\ cache = <<>> /\ tracked = FALSE
    /\ running_ = TRUE /\ queue_ = <<>> /\ sentinel = FALSE
    /\ pc = [t \in Threads |-> CASE t = "writer" -> "open"
                                 [] t = "rotator" -> "loop"
                                 [] t = "owner" -> "up"]
    /\ msg = NoMsg /\ name = NoName /\ attempts = 0
    /\ retries = 0 /\ tried_cleanup = FALSE
    /\ new_fd = NoFd /\ old_fd = NoFd
    /\ gave_up = FALSE
    /\ faults = [k \in {"open", "link", "rename", "collision", "due"} |-> 0]

-----------------------------------------------------------------------------
(* The cache of rotated files *)

Entry(n) == [name |-> n, stamp |-> Stamp(dir[n]), size |-> Cardinality(LinesIn(dir[n]))]

(* std::sort by age: entries of the same age may come in any order.          *)
Sorted(s) == \A i, j \in DOMAIN s : i < j => s[i].stamp <= s[j].stamp
ByAge(s) ==
    {r \in {[i \in DOMAIN s |-> s[p[i]]] : p \in Bijection(DOMAIN s, DOMAIN s)} : Sorted(r)}

(* Mutant: the newest files are the ones to go.                              *)
ExpiredNewest(s, i, total, horizon) ==
    \/ KeepFiles > 0 /\ i > KeepFiles
    \/ MaxTotal > 0 /\ total + s[i].size > MaxTotal
    \/ s[i].stamp <= horizon

(* initialize_cache: the rotated files in the directory.                     *)
Present == {n \in RotatedNames : Exists(n)}
ScannedCaches ==
    {[i \in DOMAIN s |-> Entry(s[i])] :
       s \in Bijection(1 .. Cardinality(Present), Present)}

(* Whether retention deletes entry i of s when the entries it kept so far    *)
(* have the given total; those up to horizon are older than max_age.         *)
Expired(s, i, total, horizon) ==
    \/ KeepFiles > 0 /\ i + KeepFiles <= Len(s)
    \/ MaxTotal > 0 /\ total + s[i].size > MaxTotal
    \/ s[i].stamp <= horizon

Retained(s, horizon) ==
    LET upTo[i \in 0 .. Len(s)] ==
          IF i = 0 THEN [total |-> 0, kept |-> <<>>]
          ELSE IF Expired(s, i, upTo[i - 1].total, horizon) THEN upTo[i - 1]
          ELSE [total |-> upTo[i - 1].total + s[i].size,
                kept |-> Append(upTo[i - 1].kept, s[i])]
    IN upTo[Len(s)].kept

NamesIn(s) == {s[i].name : i \in DOMAIN s}

(* Mutant: the entries of deleted files stay in the cache.                   *)
RetentionKeepsEntries ==
    \E horizon \in IF Ageing THEN 0 .. Len(where) ELSE {0}, s \in ByAge(cache) :
        /\ cache' = s
        /\ dir' = Unlink(dir, NamesIn(cache) \ NamesIn(Retained(s, horizon)))

(* apply_retention_timestamped, under cache_mutex_.                          *)
ApplyRetention ==
    \E horizon \in IF Ageing THEN 0 .. Len(where) ELSE {0}, s \in ByAge(cache) :
        /\ cache' = Retained(s, horizon)
        /\ dir' = Unlink(dir, NamesIn(cache) \ NamesIn(cache'))

(* emergency_cleanup: no .pending or .gz files here, so the first entry goes. *)
EmergencyCleanup ==
    /\ cache # <<>>
    /\ dir' = Unlink(dir, {Head(cache).name})
    /\ cache' = Tail(cache)

-----------------------------------------------------------------------------
(* prepare_next_fd_with_retry, by the opening thread or by the rotator *)

StartPreparing(t) ==
    /\ Goto(t, "prepare")
    /\ retries' = 0
    /\ tried_cleanup' = FALSE

AfterPrepare(t) == Goto(t, IF t = "writer" THEN "track" ELSE "loop")

outsidePrepare == <<where, current_fd_, bytes_written_, due, tracked, serviceVars,
                    rotateLocals, writerLocals, gave_up>>

(* open() succeeds and next_fd_ is claimed, or the new file removed again.   *)
OpenTemp(t) ==
    /\ pc[t] = "prepare" /\ retries < MaxRetries
    /\ files' = files + 1
    /\ IF next_fd_ = NoFd
         THEN /\ next_fd_' = files'
              /\ dir' = [dir EXCEPT ![Temp(files')] = files']
              /\ Goto(t, "publish")
              /\ UNCHANGED closed
         ELSE /\ closed' = closed \cup {files'}
              /\ AfterPrepare(t)
              /\ UNCHANGED <<next_fd_, dir>>
    /\ UNCHANGED <<outsidePrepare, current_fd_, next_fd_ready_, next_temp_, sema,
                   in_error_state_, cache, prepareLocals, faults>>

PublishTemp(t) ==
    /\ pc[t] = "publish"
    /\ next_temp_' = next_fd_
    /\ next_fd_ready_' = TRUE
    /\ Goto(t, "signal")
    /\ UNCHANGED <<fsVars, outsidePrepare, next_fd_, sema, in_error_state_, cache,
                   prepareLocals, faults>>

SignalNextFd(t) ==
    /\ pc[t] = "signal"
    /\ sema' = sema + 1
    /\ AfterPrepare(t)
    /\ UNCHANGED <<fsVars, outsidePrepare, next_fd_, next_fd_ready_, next_temp_,
                   in_error_state_, cache, prepareLocals, faults>>

(* open() fails for lack of space and a file is sacrificed once, or the      *)
(* failure counts as one of the retries.                                     *)
OpenTempFails(t) ==
    /\ pc[t] = "prepare" /\ retries < MaxRetries
    /\ Fault("open")
    /\ \/ /\ ~tried_cleanup
          /\ EmergencyCleanup
          /\ tried_cleanup' = TRUE
          /\ UNCHANGED retries
       \/ /\ retries' = retries + 1
          /\ UNCHANGED <<cache, dir, tried_cleanup>>
    /\ UNCHANGED <<files, closed, outsidePrepare, next_fd_, next_fd_ready_, next_temp_,
                   sema, in_error_state_, pc>>

(* Mutant: the writer is not woken.                                          *)
GiveUpQuietly(t) ==
    /\ pc[t] = "prepare" /\ retries = MaxRetries
    /\ in_error_state_' = TRUE
    /\ AfterPrepare(t)
    /\ UNCHANGED <<fsVars, outsidePrepare, next_fd_, next_fd_ready_, next_temp_, sema,
                   cache, prepareLocals, faults>>

GiveUpPreparing(t) ==
    /\ pc[t] = "prepare" /\ retries = MaxRetries
    /\ in_error_state_' = TRUE
    /\ Goto(t, "signal")
    /\ UNCHANGED <<fsVars, outsidePrepare, next_fd_, next_fd_ready_, next_temp_, sema,
                   cache, prepareLocals, faults>>

-----------------------------------------------------------------------------
(* The writing thread *)

(* file_rotation_service::open: the log is opened or created, the rotated    *)
(* files an earlier process left are scanned.                                *)
Open ==
    /\ pc["writer"] = "open"
    /\ IF Exists(Base) THEN UNCHANGED <<dir, files>>
       ELSE /\ files' = files + 1
            /\ dir' = [dir EXCEPT ![Base] = files']
    /\ current_fd_' = dir'[Base]
    /\ bytes_written_' = Cardinality(LinesIn(dir'[Base]))
    /\ \E s \in ScannedCaches : cache' \in ByAge(s)
    /\ Goto("writer", "retain")
    /\ UNCHANGED <<where, closed, next_fd_, next_fd_ready_, next_temp_, sema, in_error_state_,
                   due, tracked, serviceVars, rotateLocals, prepareLocals, writerLocals,
                   gave_up, faults>>

RetainAtOpen ==
    /\ pc["writer"] = "retain"
    /\ ApplyRetention
    /\ due' = FALSE
    /\ StartPreparing("writer")
    /\ UNCHANGED <<files, where, closed, fdVars, in_error_state_, bytes_written_, tracked,
                   serviceVars, rotateLocals, writerLocals, gave_up, faults>>

TrackHandle ==
    /\ pc["writer"] = "track"
    /\ tracked' = TRUE
    /\ Goto("writer", "idle")
    /\ UNCHANGED <<fsVars, fdVars, in_error_state_, bytes_written_, due, cache, serviceVars,
                   rotateLocals, prepareLocals, writerLocals, gave_up, faults>>

(* file_writer::write, up to add_bytes_written.                              *)
Write ==
    /\ pc["writer"] = "idle" /\ Len(where) < OldFiles + 1 + Lines
    /\ where' = Append(where, current_fd_)
    /\ bytes_written_' = bytes_written_ + 1
    /\ Goto("writer", "written")
    /\ UNCHANGED <<dir, files, closed, fdVars, in_error_state_, due, queue_, writerLocals,
                   outsideWriter, faults>>

TimePasses ==
    /\ ~due /\ pc["writer"] \notin {"open", "retain"}
    /\ faults.due < Dues
    /\ faults' = [faults EXCEPT !.due = @ + 1]
    /\ due' = TRUE
    /\ UNCHANGED <<fsVars, fdVars, in_error_state_, bytes_written_, queue_, pc, writerLocals,
                   outsideWriter>>

(* should_rotate(0); get_next_fd then looks at the error state.         *)
ShouldRotate == bytes_written_ >= MaxBytes \/ due

CheckRotation ==
    /\ pc["writer"] = "written"
    /\ Goto("writer", IF ~in_error_state_ /\ ShouldRotate THEN "check" ELSE "idle")
    /\ UNCHANGED <<fsVars, fdVars, in_error_state_, bytes_written_, due, queue_, writerLocals,
                   outsideWriter, faults>>

TakeNextFd ==
    /\ pc["writer"] = "next"
    /\ IF next_fd_ready_
         THEN /\ new_fd' = next_fd_
              /\ next_fd_' = NoFd
              /\ Goto("writer", IF next_fd_ # NoFd THEN "swap" ELSE "wait")
         ELSE /\ Goto("writer", "wait")
              /\ UNCHANGED <<new_fd, next_fd_>>
    /\ UNCHANGED <<fsVars, current_fd_, next_fd_ready_, next_temp_, sema, in_error_state_,
                   bytes_written_, due, queue_, old_fd, outsideWriter, faults>>

(* Mutant: the old descriptor is read after the swap.                        *)
SwapThenRead ==
    /\ pc["writer"] = "swap"
    /\ old_fd' = new_fd
    /\ current_fd_' = new_fd
    /\ bytes_written_' = 0
    /\ Goto("writer", "unready")
    /\ UNCHANGED <<fsVars, next_fd_, next_fd_ready_, next_temp_, sema, in_error_state_, due,
                   queue_, new_fd, outsideWriter, faults>>

SwapFd ==
    /\ pc["writer"] = "swap"
    /\ old_fd' = current_fd_
    /\ current_fd_' = new_fd
    /\ bytes_written_' = 0
    /\ Goto("writer", "unready")
    /\ UNCHANGED <<fsVars, next_fd_, next_fd_ready_, next_temp_, sema, in_error_state_, due,
                   queue_, new_fd, outsideWriter, faults>>

Unready ==
    /\ pc["writer"] = "unready"
    /\ next_fd_ready_' = FALSE
    /\ Goto("writer", "notify")
    /\ UNCHANGED <<fsVars, current_fd_, next_fd_, next_temp_, sema, in_error_state_,
                   bytes_written_, due, queue_, writerLocals, outsideWriter, faults>>

(* Mutant: the rotator is not told.                                          *)
NotifyNoOne ==
    /\ pc["writer"] = "notify"
    /\ Goto("writer", "idle")
    /\ UNCHANGED <<fsVars, fdVars, in_error_state_, bytes_written_, due, queue_, writerLocals,
                   outsideWriter, faults>>

NotifyRotator ==
    /\ pc["writer"] = "notify"
    /\ queue_' = Append(queue_, [type |-> "rotate", fd |-> old_fd, temp |-> next_temp_])
    /\ Goto("writer", "idle")
    /\ UNCHANGED <<fsVars, fdVars, in_error_state_, bytes_written_, due, writerLocals,
                   outsideWriter, faults>>

WaitForNextFd ==
    /\ pc["writer"] = "wait" /\ sema > 0
    /\ sema' = sema - 1
    /\ Goto("writer", "check")
    /\ UNCHANGED <<fsVars, current_fd_, next_fd_, next_fd_ready_, next_temp_, in_error_state_,
                   bytes_written_, due, queue_, writerLocals, outsideWriter, faults>>

CheckErrorState ==
    /\ pc["writer"] = "check"
    /\ Goto("writer", IF in_error_state_ THEN "idle" ELSE "next")
    /\ UNCHANGED <<fsVars, fdVars, in_error_state_, bytes_written_, due, queue_, writerLocals,
                   outsideWriter, faults>>

(* The writer is done with the log: rotation_handle::close, then its         *)
(* reference goes (file_writer's destructor drops it without close()).       *)
CloseHandle ==
    /\ pc["writer"] = "idle"
    /\ \/ queue_' = Append(queue_, [type |-> "close", fd |-> current_fd_, temp |-> NoFile])
       \/ UNCHANGED queue_
    /\ Goto("writer", "dropped")
    /\ UNCHANGED <<fsVars, fdVars, in_error_state_, bytes_written_, due, writerLocals,
                   outsideWriter, faults>>

(* ~rotation_handle, when no message holds the handle any more; the queue    *)
(* and its messages go with the service.                                     *)
DestroyHandle ==
    /\ pc["writer"] = "dropped"
    /\ queue_ = <<>> \/ pc["owner"] = "destroyed"
    /\ msg = NoMsg
    /\ IF next_fd_ # NoFd
         THEN /\ closed' = closed \cup {next_fd_}
              /\ dir' = Unlink(dir, {Temp(next_temp_)})
         ELSE UNCHANGED <<closed, dir>>
    /\ Goto("writer", "gone")
    /\ UNCHANGED <<files, where, fdVars, in_error_state_, bytes_written_, due, queue_,
                   writerLocals, outsideWriter, faults>>

-----------------------------------------------------------------------------
(* The rotator thread *)

CheckRunning ==
    /\ pc["rotator"] = "loop"
    /\ msg' = NoMsg
    /\ Goto("rotator", IF running_ THEN "dequeue" ELSE "stopped")
    /\ UNCHANGED <<fsVars, handleVars, serviceVars, name, attempts, prepareLocals, writerLocals,
                   gave_up, faults>>

Dequeue ==
    /\ pc["rotator"] = "dequeue" /\ queue_ # <<>>
    /\ msg' = Head(queue_)
    /\ queue_' = Tail(queue_)
    /\ attempts' = 0
    /\ Goto("rotator", Head(queue_).type)
    /\ UNCHANGED <<outsideRotator, dir, files, closed, next_fd_, next_fd_ready_, next_temp_,
                   sema, in_error_state_, due, cache, name, prepareLocals, gave_up, faults>>

(* SHUTDOWN: drain_queue closes the descriptors of CLOSE messages and drops  *)
(* all other messages.                                                       *)
Drain ==
    /\ pc["rotator"] = "dequeue" /\ sentinel
    /\ closed' = closed \cup {queue_[i].fd : i \in {j \in DOMAIN queue_ : queue_[j].type = "close"}}
    /\ queue_' = <<>>
    /\ sentinel' = FALSE
    /\ Goto("rotator", "stopped")
    /\ UNCHANGED <<dir, files, where, handleVars, running_, rotateLocals, prepareLocals,
                   writerLocals, gave_up, faults>>

(* handle_close *)
HandleClose ==
    /\ pc["rotator"] = "close"
    /\ closed' = closed \cup {msg.fd}
    /\ tracked' = FALSE
    /\ Goto("rotator", "loop")
    /\ UNCHANGED <<dir, files, where, fdVars, in_error_state_, bytes_written_, due, cache,
                   serviceVars, rotateLocals, prepareLocals, writerLocals, gave_up, faults>>

rotating == <<outsideRotator, queue_, fdVars, in_error_state_, prepareLocals>>

(* handle_rotation: the old descriptor is closed.                            *)
CloseOld ==
    /\ pc["rotator"] = "rotate"
    /\ closed' = closed \cup {msg.fd}
    /\ Goto("rotator", "link")
    /\ UNCHANGED <<rotating, dir, files, due, cache, rotateLocals, gave_up, faults>>

(* generate_rotated_filename: the first name without a file.                 *)
FreeNames == {n \in RotatedNames :
                 ~Exists(n) /\ \A m \in RotatedNames : ~Exists(m) => n[2] <= m[2]}

LinkBase ==
    /\ pc["rotator"] = "link" /\ attempts < LinkAttempts
    /\ Exists(Base)
    /\ name' \in FreeNames
    /\ dir' = [dir EXCEPT ![name'] = dir[Base]]
    /\ Goto("rotator", "rename")
    /\ UNCHANGED <<rotating, files, closed, due, cache, msg, attempts, gave_up, faults>>

(* Another process creates the name first: EEXIST, and a new attempt; after  *)
(* the last one the rotation goes on with that name.                         *)
LinkCollides ==
    /\ pc["rotator"] = "link" /\ attempts < LinkAttempts
    /\ Fault("collision")
    /\ name' \in FreeNames
    /\ files' = files + 1
    /\ dir' = [dir EXCEPT ![name'] = files']
    /\ attempts' = attempts + 1
    /\ gave_up' = (gave_up \/ attempts' = LinkAttempts)
    /\ Goto("rotator", IF attempts' = LinkAttempts THEN "stat" ELSE "link")
    /\ UNCHANGED <<rotating, closed, due, cache, msg>>

(* link() fails otherwise: the first rename of the fallback, which fails     *)
(* when the log has no name.                                                 *)
LinkFails ==
    /\ pc["rotator"] = "link" /\ attempts < LinkAttempts
    /\ IF Exists(Base) THEN Fault("link") ELSE UNCHANGED faults
    /\ name' \in FreeNames
    /\ Goto("rotator", IF Exists(Base) THEN "fallback" ELSE "stat")
    /\ gave_up' = (gave_up \/ ~Exists(Base))
    /\ UNCHANGED <<rotating, dir, files, closed, due, cache, msg, attempts>>

RenameBase ==
    /\ pc["rotator"] = "fallback"
    /\ dir' = [dir EXCEPT ![name] = dir[Base], ![Base] = NoFile]
    /\ Goto("rotator", "rename")
    /\ UNCHANGED <<rotating, files, closed, due, cache, rotateLocals, gave_up, faults>>

(* rename(temp, base), atomic; the rotation goes on when it fails.           *)
RenameTemp ==
    /\ pc["rotator"] = "rename"
    /\ dir' = [dir EXCEPT ![Base] = dir[Temp(msg.temp)], ![Temp(msg.temp)] = NoFile]
    /\ Goto("rotator", "stat")
    /\ UNCHANGED <<rotating, files, closed, due, cache, rotateLocals, gave_up, faults>>

RenameFails ==
    /\ pc["rotator"] \in {"fallback", "rename"}
    /\ Fault("rename")
    /\ gave_up' = TRUE
    /\ Goto("rotator", "stat")
    /\ UNCHANGED <<rotating, dir, files, closed, due, cache, rotateLocals>>

(* add_to_cache, if stat() finds the file.                                   *)
AddToCache ==
    /\ pc["rotator"] = "stat"
    /\ cache' = IF Exists(name) THEN Append(cache, Entry(name)) ELSE cache
    /\ Goto("rotator", "retain")
    /\ UNCHANGED <<rotating, dir, files, closed, due, rotateLocals, gave_up, faults>>

Retain ==
    /\ pc["rotator"] = "retain"
    /\ ApplyRetention
    /\ Goto("rotator", "compute")
    /\ UNCHANGED <<rotating, files, closed, due, rotateLocals, gave_up, faults>>

(* compute_next_rotation_time *)
ComputeNextTime ==
    /\ pc["rotator"] = "compute"
    /\ due' = FALSE
    /\ StartPreparing("rotator")
    /\ UNCHANGED <<outsideRotator, dir, files, closed, queue_, next_fd_, next_fd_ready_,
                   next_temp_, sema, in_error_state_, cache, rotateLocals, gave_up, faults>>

-----------------------------------------------------------------------------
(* The service's destructor *)

outsideOwner == <<where, handleVars, queue_, rotateLocals, prepareLocals, writerLocals,
                  gave_up, faults>>

ClearRunning ==
    /\ Stops /\ pc["owner"] = "up"
    /\ running_' = FALSE
    /\ Goto("owner", "sentinel")
    /\ UNCHANGED <<outsideOwner, dir, files, closed, sentinel>>

EnqueueShutdown ==
    /\ pc["owner"] = "sentinel"
    /\ sentinel' = TRUE
    /\ Goto("owner", "join")
    /\ UNCHANGED <<outsideOwner, dir, files, closed, running_>>

(* The rotator is joined; the prepared files of live handles are removed.    *)
JoinRotator ==
    /\ pc["owner"] = "join" /\ pc["rotator"] = "stopped"
    /\ IF tracked /\ pc["writer"] # "gone" /\ next_fd_ # NoFd
         THEN /\ closed' = closed \cup {next_fd_}
              /\ dir' = Unlink(dir, {Temp(next_temp_)})
         ELSE UNCHANGED <<closed, dir>>
    /\ Goto("owner", "destroyed")
    /\ UNCHANGED <<outsideOwner, files, running_, sentinel>>

-----------------------------------------------------------------------------
Preparation(t) ==
    OpenTemp(t) \/ PublishTemp(t) \/ SignalNextFd(t) \/ OpenTempFails(t) \/ GiveUpPreparing(t)

GetNextFd == TakeNextFd \/ SwapFd \/ Unready \/ NotifyRotator \/ WaitForNextFd \/ CheckErrorState

WriterProgress == RetainAtOpen \/ Preparation("writer") \/ TrackHandle \/ CheckRotation \/ GetNextFd

RotatorStep ==
    \/ CheckRunning \/ Dequeue \/ Drain \/ HandleClose
    \/ CloseOld \/ LinkBase \/ LinkCollides \/ LinkFails \/ RenameBase \/ RenameTemp
    \/ RenameFails \/ AddToCache \/ Retain \/ ComputeNextTime
    \/ Preparation("rotator")

OwnerStep == ClearRunning \/ EnqueueShutdown \/ JoinRotator

Next ==
    \/ Open \/ Write \/ CloseHandle \/ DestroyHandle \/ WriterProgress
    \/ TimePasses \/ RotatorStep \/ OwnerStep

Spec == Init /\ [][Next]_vars

(* Threads are scheduled, system calls return; nobody has to write, close or *)
(* destroy anything, and no fault has to happen.                             *)
FairSpec == Spec /\ WF_vars(WriterProgress) /\ WF_vars(RotatorStep)
=============================================================================
