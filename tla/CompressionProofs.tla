-------------------------- MODULE CompressionProofs --------------------------
(***************************************************************************)
(* Proofs about compression, for any number of files, queue and batch       *)
(* sizes, starts of the thread and failures of the file system: no data is  *)
(* lost, no file is with two threads, none is forgotten; and, while the      *)
(* thread is started once, only a full queue is passed by.                   *)
(***************************************************************************)
EXTENDS CompressionProperties, FiniteSetTheorems, SequenceTheorems, WellFoundedInduction, TLAPS

CompressLabels == {"compress", "stat", "source", "deflate", "trailer", "verdict", "discard",
                   "rename", "remove", "update", "done"}
Elements(s) == {s[i] : i \in 1 .. Len(s)}

(* What exists, and who refers to files: to rotated ones only.               *)
Types ==
    /\ rotated \in 0 .. Rotations /\ raw \subseteq 1 .. rotated
    /\ gz \in [Files -> {"none", "complete"}]
    /\ pending \in [Files -> {"none", "partial", "complete"}]
    /\ pc = [t \in Threads |-> pc[t]]
    /\ entry \in [Workers -> 0 .. rotated]
    /\ queue_ \in Seq(1 .. rotated) /\ batch \in Seq(1 .. rotated)
    /\ pc["compressor"] \in CompressLabels \cup {"taken"} => entry["compressor"] # NoEntry

(* The rotator's newest file is its own until it has queued it.              *)
Fresh ==
    pc["rotator"] \in CompressLabels \cup {"retain", "cancel queued", "cancel compressing", "unlink",
                                           "offer", "claim", "push"} =>
      /\ entry["rotator"] # NoEntry
      /\ entry["rotator"] \notin Elements(queue_) \cup Elements(batch) \cup {entry["compressor"]}

(* Where a compression is, the file or its copy is still there.              *)
Progress(t) ==
    /\ pc[t] \in {"deflate", "trailer", "verdict", "rename"} => entry[t] \in raw \cup dropped
    /\ pc[t] \in {"verdict", "rename"} => pending[entry[t]] = "complete"
    /\ pc[t] = "remove" => gz[entry[t]] = "complete" \/ entry[t] \in dropped

(* Retention has decided before it deletes.                                  *)
Decided == pc["rotator"] \in {"cancel compressing", "unlink"} => Victim \in dropped

Inv == Types /\ Fresh /\ Progress("rotator") /\ Progress("compressor") /\ Decided /\ DataKept

LEMMA Appended == ASSUME NEW S, NEW s \in Seq(S), NEW x \in S
                  PROVE  Append(s, x) \in Seq(S) /\ Elements(Append(s, x)) = Elements(s) \cup {x}
<1>1. /\ Append(s, x) \in Seq(S) /\ Len(Append(s, x)) = Len(s) + 1 /\ Append(s, x)[Len(s) + 1] = x
      /\ \A i \in 1 .. Len(s) : Append(s, x)[i] = s[i]
  OBVIOUS
<1>2. 1 .. Len(s) + 1 = (1 .. Len(s)) \cup {Len(s) + 1} /\ Len(s) \in Nat
  OBVIOUS
<1> HIDE DEF Elements
<1>3. ASSUME NEW y \in Elements(Append(s, x)) PROVE y \in Elements(s) \cup {x}
  <2>1. PICK i \in 1 .. Len(s) + 1 : y = Append(s, x)[i]
    BY <1>1 DEF Elements
  <2> QED BY <2>1, <1>1, <1>2 DEF Elements
<1>4. ASSUME NEW y \in Elements(s) PROVE y \in Elements(Append(s, x))
  <2>1. PICK i \in 1 .. Len(s) : y = s[i]
    BY DEF Elements
  <2> QED BY <2>1, <1>1, <1>2 DEF Elements
<1>5. x \in Elements(Append(s, x))
  BY <1>1, <1>2 DEF Elements
<1> QED BY <1>1, <1>3, <1>4, <1>5

LEMMA HeadTaken == ASSUME NEW S, NEW s \in Seq(S), s # <<>>
                   PROVE  /\ Head(s) \in S /\ Head(s) \in Elements(s)
                          /\ Tail(s) \in Seq(S) /\ Elements(Tail(s)) \subseteq Elements(s)
  BY DEF Elements

LEMMA FewElements == ASSUME NEW S
                     PROVE  /\ <<>> \in Seq(S) /\ Elements(<<>>) = {}
                            /\ \A x \in S : <<x>> \in Seq(S) /\ Elements(<<x>>) = {x}
  BY DEF Elements

LEMMA InitInv == Init => Inv
  BY CompressionAssumption, FewElements DEF Init, Inv, Types, Fresh, Progress, Decided, DataKept, Files, Threads, Workers, NoEntry, CompressLabels

-----------------------------------------------------------------------------
(* Two threads never compress the same file.                                 *)
LEMMA OwnFile == ASSUME Inv, NEW t \in Workers, NEW u \in Workers, u # t, pc[t] \in CompressLabels,
                        pc[u] \in CompressLabels
                 PROVE  entry[u] # entry[t]
  BY DEF Inv, Fresh, Workers

LEMMA OwnFileExists == ASSUME Inv, NEW t \in Workers, pc[t] \in CompressLabels
                       PROVE  entry[t] \in 1 .. rotated /\ entry[t] \in Files
<1>1. entry[t] \in 0 .. rotated /\ rotated \in 0 .. Rotations
  BY DEF Inv, Types
<1>2. entry[t] # 0
  BY DEF Inv, Types, Fresh, Workers, NoEntry
<1> QED BY <1>1, <1>2, CompressionAssumption DEF Files

(* A step of a compression that touches its own file only, and leaves the    *)
(* data of that in one of its places, keeps the invariant.                   *)
LEMMA CompressKeepsInv ==
    ASSUME Inv, NEW t \in Workers, UNCHANGED <<entry, outsideCompress>>,
           pc[t] \in CompressLabels, pc'[t] \in CompressLabels \cup {"spare", "process"},
           pc' = [pc EXCEPT ![t] = pc'[t]],
           raw' \in {raw, raw \ {entry[t]}},
           gz' = [gz EXCEPT ![entry[t]] = gz'[entry[t]]], gz'[entry[t]] \in {"none", "complete"},
           pending' = [pending EXCEPT ![entry[t]] = pending'[entry[t]]],
           pending'[entry[t]] \in {"none", "partial", "complete"},
           entry[t] \in raw' \cup dropped \/ gz'[entry[t]] = "complete" \/ entry[t] \notin 1 .. rotated,
           Progress(t)'
    PROVE  Inv'
<1> USE CompressionAssumption
<1>1. UNCHANGED <<cache, cache_mutex_, queue_, nulls, size, running_, victims, batch, starts, rotated, dropped>>
  BY DEF outsideCompress, queueVars
<1>2. Types'
  BY <1>1 DEF Inv, Types, Workers, Threads, CompressLabels
<1>3. Fresh'
  BY <1>1 DEF Inv, Types, Fresh, Workers, Threads, CompressLabels
<1>4. ASSUME NEW u \in Workers, u # t PROVE Progress(u)'
  <2>1. pc'[u] = pc[u] /\ Progress(u)
    BY <1>4 DEF Inv, Types, Workers, Threads
  <2>2. CASE pc[u] \in CompressLabels
    <3>1. entry[u] # entry[t]
      BY <1>4, <2>2, OwnFile
    <3>2. entry[u] \in Files
      BY <2>2, OwnFileExists
    <3>3. gz'[entry[u]] = gz[entry[u]] /\ pending'[entry[u]] = pending[entry[u]]
      BY <3>1, <3>2 DEF Inv, Types
    <3> QED BY <1>1, <2>1, <3>1, <3>3 DEF Progress
  <2>3. CASE pc[u] \notin CompressLabels
    BY <1>1, <2>1, <2>3 DEF Progress, CompressLabels
  <2> QED BY <2>2, <2>3
<1>5. Decided'
  BY <1>1 DEF Inv, Types, Decided, Victim, Workers, Threads, CompressLabels
<1>6. DataKept'
  <2> SUFFICES ASSUME NEW g \in 1 .. rotated
               PROVE  gz'[g] # "partial" /\ (g \notin dropped => g \in raw' \/ gz'[g] = "complete")
    BY <1>1 DEF DataKept
  <2>1. CASE g = entry[t]
    BY <2>1
  <2>2. CASE g # entry[t]
    <3>1. gz'[g] = gz[g] /\ (g \in raw => g \in raw')
      BY <2>2 DEF Inv, Types, Files
    <3> QED BY <3>1 DEF Inv, DataKept
  <2> QED BY <2>1, <2>2
<1> QED BY <1>2, <1>3, <1>4, <1>5, <1>6 DEF Inv, Workers

LEMMA CompressInv == ASSUME Inv, NEW t \in Workers, Compress(t)
                     PROVE  Inv'
<1> USE CompressionAssumption
<1>1. pc[t] \in CompressLabels /\ UNCHANGED <<entry, outsideCompress>>
  BY DEF Compress, RemoveLeftover, StatSource, OpenSource, Deflate, WriteTrailer, Verdict, Discard,
         RenamePending, RenamePendingFails, RemoveSource, UpdateEntry, MarkDone, CompressLabels
<1>2. entry[t] \in 1 .. rotated /\ entry[t] \in Files
  BY <1>1, OwnFileExists
<1>3. /\ entry[t] \notin dropped => entry[t] \in raw \/ gz[entry[t]] = "complete"
      /\ gz[entry[t]] \in {"none", "complete"} /\ pending[entry[t]] \in {"none", "partial", "complete"}
      /\ gz = [gz EXCEPT ![entry[t]] = gz[entry[t]]]
      /\ pending = [pending EXCEPT ![entry[t]] = pending[entry[t]]]
  BY <1>2 DEF Inv, Types, DataKept
<1>4. Progress(t) /\ t \in Threads /\ pc = [u \in Threads |-> pc[u]] /\ DOMAIN gz = Files /\ DOMAIN pending = Files
  BY DEF Inv, Types, Workers, Threads
<1>5. CASE RemoveLeftover(t)
  <2>1. /\ pc' = [pc EXCEPT ![t] = pc'[t]] /\ raw' = raw /\ UNCHANGED <<rotated, dropped>>
        /\ pc'[t] \in {"stat", "spare", "process"}
    BY <1>1, <1>4, <1>5 DEF RemoveLeftover, AfterCompress, Goto, outsideCompress
  <2>2. /\ gz' = gz /\ pending' = [pending EXCEPT ![entry[t]] = pending'[entry[t]]]
        /\ pending'[entry[t]] \in {"none", "partial", "complete"}
    BY <1>2, <1>3, <1>4, <1>5 DEF RemoveLeftover
  <2>3. Progress(t)'
    BY <2>1 DEF Progress
  <2> QED BY <1>1, <1>2, <1>3, <2>1, <2>2, <2>3, CompressKeepsInv DEF CompressLabels
<1>6. CASE StatSource(t)
  BY <1>1, <1>2, <1>3, <1>4, <1>6, CompressKeepsInv DEF StatSource, AfterCompress, Goto, CompressLabels, Progress, disk
<1>7. CASE OpenSource(t)
  BY <1>1, <1>2, <1>3, <1>4, <1>7, CompressKeepsInv DEF OpenSource, AfterCompress, Goto, CompressLabels, Progress
<1>8. CASE Deflate(t)
  <2>1. /\ pc' = [pc EXCEPT ![t] = pc'[t]] /\ raw' = raw /\ UNCHANGED <<rotated, dropped>>
        /\ pc'[t] \in CompressLabels \cup {"spare", "process"}
    BY <1>1, <1>4, <1>8 DEF Deflate, Goto, CompressLabels, outsideCompress, disk
  <2>2. /\ gz' = gz /\ pending' = [pending EXCEPT ![entry[t]] = pending'[entry[t]]]
        /\ pending'[entry[t]] \in {"none", "partial", "complete"}
    BY <1>2, <1>3, <1>4, <1>8 DEF Deflate, disk
  <2>3. Progress(t)'
    BY <1>1, <1>2, <1>4, <1>8, <2>1 DEF Deflate, Goto, Progress, disk
  <2> QED BY <1>1, <1>2, <1>3, <2>1, <2>2, <2>3, CompressKeepsInv
<1>9. CASE WriteTrailer(t)
  <2>1. /\ pc' = [pc EXCEPT ![t] = pc'[t]] /\ raw' = raw /\ UNCHANGED <<rotated, dropped>>
        /\ pc'[t] \in CompressLabels \cup {"spare", "process"}
    BY <1>1, <1>4, <1>9 DEF WriteTrailer, Goto, CompressLabels, outsideCompress
  <2>2. /\ gz' = gz /\ pending' = [pending EXCEPT ![entry[t]] = pending'[entry[t]]]
        /\ pending'[entry[t]] \in {"none", "partial", "complete"}
    BY <1>2, <1>3, <1>4, <1>9 DEF WriteTrailer
  <2>3. Progress(t)'
    BY <1>1, <1>2, <1>4, <1>9, <2>1 DEF WriteTrailer, Goto, Progress
  <2> QED BY <1>1, <1>2, <1>3, <2>1, <2>2, <2>3, CompressKeepsInv
<1>10. CASE Verdict(t)
  <2>1. /\ pc' = [pc EXCEPT ![t] = pc'[t]] /\ raw' = raw /\ UNCHANGED <<rotated, dropped>>
        /\ pc'[t] \in CompressLabels \cup {"spare", "process"}
    BY <1>1, <1>4, <1>10 DEF Verdict, Goto, CompressLabels, outsideCompress, disk
  <2>2. /\ gz' = gz /\ pending' = [pending EXCEPT ![entry[t]] = pending'[entry[t]]]
        /\ pending'[entry[t]] \in {"none", "partial", "complete"}
    BY <1>2, <1>3, <1>4, <1>10 DEF Verdict, disk
  <2>3. Progress(t)'
    BY <1>1, <1>2, <1>4, <1>10, <2>1 DEF Verdict, Goto, Progress, disk
  <2> QED BY <1>1, <1>2, <1>3, <2>1, <2>2, <2>3, CompressKeepsInv
<1>11. CASE Discard(t)
  BY <1>1, <1>2, <1>3, <1>4, <1>11, CompressKeepsInv DEF Discard, AfterCompress, Goto, CompressLabels, Progress
<1>12. CASE RenamePending(t)
  BY <1>1, <1>2, <1>3, <1>4, <1>12, CompressKeepsInv DEF RenamePending, AfterCompress, Goto, CompressLabels, Progress
<1>13. CASE RenamePendingFails(t)
  BY <1>1, <1>2, <1>3, <1>4, <1>13, CompressKeepsInv DEF RenamePendingFails, AfterCompress, Goto, CompressLabels, Progress
<1>14. CASE RemoveSource(t)
  BY <1>1, <1>2, <1>3, <1>4, <1>14, CompressKeepsInv DEF RemoveSource, AfterCompress, Goto, CompressLabels, Progress
<1>15. CASE UpdateEntry(t)
  BY <1>1, <1>2, <1>3, <1>4, <1>15, CompressKeepsInv DEF UpdateEntry, AfterCompress, Goto, CompressLabels, Progress, disk
<1>16. CASE MarkDone(t)
  BY <1>1, <1>2, <1>3, <1>4, <1>16, CompressKeepsInv DEF MarkDone, AfterCompress, Goto, CompressLabels, Progress, disk
<1> QED BY <1>5, <1>6, <1>7, <1>8, <1>9, <1>10, <1>11, <1>12, <1>13, <1>14, <1>15, <1>16 DEF Compress

-----------------------------------------------------------------------------
(* Any other step keeps the data when a file that goes is one that has been  *)
(* decided on, and when no compression is under way elsewhere than it was.   *)
LEMMA OtherKeepsInv ==
    ASSUME Inv, Types', Fresh', Decided', NEW f, UNCHANGED <<pending, rotated>>, dropped \subseteq dropped',
           raw' \subseteq raw, raw \ {f} \subseteq raw', gz' \in {gz, [gz EXCEPT ![f] = "none"]},
           f \in dropped' \/ UNCHANGED <<raw, gz>>,
           \A t \in Workers : pc'[t] \in CompressLabels \ {"compress"} => UNCHANGED <<pc[t], entry[t]>>
    PROVE  Inv'
<1>1. ASSUME NEW g \in Files, g \notin dropped'
      PROVE  gz'[g] = gz[g] /\ (g \in raw => g \in raw')
  BY <1>1 DEF Inv, Types
<1>2. ASSUME NEW t \in Workers PROVE Progress(t)'
  <2>1. CASE pc'[t] \in CompressLabels \ {"compress"}
    <3>1. pc'[t] = pc[t] /\ entry'[t] = entry[t] /\ Progress(t)
      BY <2>1 DEF Inv, Workers
    <3>2. entry[t] \in Files
      BY <2>1, <3>1, OwnFileExists DEF CompressLabels
    <3> QED BY <1>1, <3>1, <3>2 DEF Progress
  <2>2. CASE pc'[t] \notin CompressLabels \ {"compress"}
    BY <2>2 DEF Progress, CompressLabels
  <2> QED BY <2>1, <2>2
<1>3. DataKept'
  <2> SUFFICES ASSUME NEW g \in 1 .. rotated
               PROVE  gz'[g] # "partial" /\ (g \notin dropped' => g \in raw' \/ gz'[g] = "complete")
    BY DEF DataKept
  <2>1. g \in Files /\ gz'[g] # "partial" /\ (g \notin dropped => g \in raw \/ gz[g] = "complete")
    BY CompressionAssumption DEF Inv, Types, DataKept, Files
  <2> QED BY <1>1, <2>1
<1> QED BY <1>2, <1>3 DEF Inv, Workers

LEMMA DiskKeepsInv ==
    ASSUME Inv, Types', Fresh', Decided', UNCHANGED <<disk, rotated, dropped>>,
           \A t \in Workers : pc'[t] \in CompressLabels \ {"compress"} => UNCHANGED <<pc[t], entry[t]>>
    PROVE  Inv'
  BY OtherKeepsInv DEF disk

(* Wider queues.                                                             *)
LEMMA WiderSeq == ASSUME NEW m \in Nat, NEW s \in Seq(1 .. m)
                  PROVE  s \in Seq(1 .. m + 1) /\ m + 1 \notin Elements(s)
<1>1. s \in [1 .. Len(s) -> 1 .. m] /\ Len(s) \in Nat
  OBVIOUS
<1>2. s \in [1 .. Len(s) -> 1 .. m + 1] /\ \A i \in 1 .. Len(s) : s[i] # m + 1
  BY <1>1
<1> QED BY <1>1, <1>2 DEF Elements

LEMMA AddToCacheInv == ASSUME Inv, AddToCache
                       PROVE  Inv'
<1> USE CompressionAssumption DEF AddToCache, outsideRotator, Goto, Work
<1>1. /\ rotated \in Nat /\ rotated' = rotated + 1 /\ rotated + 1 \in Files
      /\ UNCHANGED <<gz, pending, queue_, batch, dropped>> /\ raw' = raw \cup {rotated + 1}
  BY DEF Inv, Types, Files
<1>2. /\ entry'["rotator"] = rotated + 1 /\ entry'["compressor"] = entry["compressor"]
      /\ pc'["rotator"] = "retain" /\ pc'["compressor"] = pc["compressor"]
      /\ pc' = [t \in Threads |-> pc'[t]] /\ entry["compressor"] \in 0 .. rotated
  BY DEF Inv, Types, Workers, Threads
<1>3. rotated + 1 # 0 /\ entry["compressor"] # rotated + 1 /\ rotated' \in 0 .. Rotations
      /\ 0 .. rotated \subseteq 0 .. rotated + 1 /\ rotated + 1 \in 0 .. rotated + 1
  BY <1>1, <1>2 DEF Files
<1>4. /\ queue_' \in Seq(1 .. rotated') /\ batch' \in Seq(1 .. rotated')
      /\ rotated + 1 \notin Elements(queue_') \cup Elements(batch')
  BY <1>1, WiderSeq DEF Inv, Types
<1>5. Types'
  <2>1. entry' \in [Workers -> 0 .. rotated']
    BY <1>1, <1>3 DEF Inv, Types
  <2>2. raw' \subseteq 1 .. rotated'
    BY <1>1 DEF Inv, Types
  <2>3. gz' \in [Files -> {"none", "complete"}] /\ pending' \in [Files -> {"none", "partial", "complete"}]
    BY <1>1 DEF Inv, Types
  <2>4. pc'["compressor"] \in CompressLabels \cup {"taken"} => entry'["compressor"] # NoEntry
    BY <1>2 DEF Inv, Types
  <2> QED BY <1>2, <1>3, <1>4, <2>1, <2>2, <2>3, <2>4 DEF Types
<1>6. Fresh'
  BY <1>2, <1>3, <1>4 DEF Fresh, NoEntry
<1>7. Progress("rotator")' /\ Decided'
  BY <1>2 DEF Progress, Decided
<1>8. Progress("compressor")'
  BY <1>1, <1>2 DEF Inv, Progress
<1>9. DataKept'
  <2> SUFFICES ASSUME NEW g \in 1 .. rotated + 1
               PROVE  gz[g] # "partial" /\ (g \notin dropped => g \in raw' \/ gz[g] = "complete")
    BY <1>1 DEF DataKept
  <2>1. CASE g = rotated + 1
    BY <1>1, <2>1 DEF Inv, Types
  <2>2. CASE g \in 1 .. rotated
    BY <1>1, <2>2 DEF Inv, DataKept
  <2> QED BY <1>1, <2>1, <2>2
<1> QED BY <1>5, <1>6, <1>7, <1>8, <1>9 DEF Inv

(* The rotator's own steps: neither queue nor batch changes, but for the     *)
(* entry it pushes.                                                          *)
LEMMA RotatorStays ==
    ASSUME Inv, UNCHANGED <<queue_, batch, entry, rotated, pending>>,
           pc' = [pc EXCEPT !["rotator"] = pc'["rotator"]], raw' \subseteq raw,
           gz' \in [Files -> {"none", "complete"}]
    PROVE  /\ Types' /\ pc'["compressor"] = pc["compressor"]
           /\ (pc'["rotator"] \in {"spare", "idle", "count"} \/ 
               pc["rotator"] \in {"retain", "cancel queued", "cancel compressing", "unlink", "offer", "claim"})
              => Fresh'
<1>1. pc'["compressor"] = pc["compressor"] /\ pc' = [t \in Threads |-> pc'[t]]
  BY DEF Inv, Types, Threads
<1>2. Types'
  BY <1>1 DEF Inv, Types
<1> QED BY <1>1, <1>2 DEF Inv, Fresh, CompressLabels

LEMMA RetentionInv == ASSUME Inv, LockForRetention \/ CancelQueued \/ CancelCompressing \/ EraseVictims
                      PROVE  Inv'
<1> USE DEF outsideRotator, Goto, Decided, Victim, disk
<1>1. CASE LockForRetention
  <2>1. Types' /\ Fresh' /\ pc'["compressor"] = pc["compressor"]
    BY <1>1, RotatorStays DEF LockForRetention, Inv, Types, Threads
  <2>2. pc'["rotator"] = "cancel queued"
    BY <1>1 DEF LockForRetention, Inv, Types, Threads
  <2> QED BY <1>1, <2>1, <2>2, DiskKeepsInv DEF LockForRetention, CompressLabels, Workers
<1>2. CASE CancelQueued
  <2>1. Types' /\ Fresh' /\ pc'["compressor"] = pc["compressor"]
    BY <1>2, RotatorStays DEF CancelQueued, Inv, Types, Threads
  <2>2. pc'["rotator"] \in {"cancel compressing", "unlink"}
    BY <1>2 DEF CancelQueued, Inv, Types, Threads
  <2> QED BY <1>2, <2>1, <2>2, OtherKeepsInv DEF CancelQueued, CompressLabels, Workers
<1>3. CASE CancelCompressing
  <2>1. Types' /\ Fresh' /\ pc'["compressor"] = pc["compressor"]
    BY <1>3, RotatorStays DEF CancelCompressing, Inv, Types, Threads
  <2>2. pc'["rotator"] = "unlink"
    BY <1>3 DEF CancelCompressing, Inv, Types, Threads
  <2>3. Decided'
    BY <1>3 DEF CancelCompressing, Inv
  <2> QED BY <1>3, <2>1, <2>2, <2>3, DiskKeepsInv DEF CancelCompressing, CompressLabels, Workers
<1>4. CASE EraseVictims
  <2>1. Types' /\ Fresh' /\ pc'["compressor"] = pc["compressor"]
    BY <1>4, RotatorStays DEF EraseVictims, Inv, Types, Threads
  <2>2. pc'["rotator"] \in {"offer", "compress"}
    BY <1>4 DEF EraseVictims, Inv, Types, Threads
  <2> QED BY <1>4, <2>1, <2>2, DiskKeepsInv DEF EraseVictims, CompressLabels, Workers
<1> QED BY <1>1, <1>2, <1>3, <1>4

LEMMA UnlinkVictimInv == ASSUME Inv, UnlinkVictim
                         PROVE  Inv'
<1> USE DEF UnlinkVictim, Goto, queueVars, bounds
<1>1. PICK f : f = Victim
  OBVIOUS
<1>2. /\ f \in dropped /\ raw' \subseteq raw /\ raw \ {f} \subseteq raw'
      /\ gz' \in {gz, [gz EXCEPT ![f] = "none"]}
  BY <1>1 DEF UnlinkEntry, Inv, Decided
<1>3. gz' \in [Files -> {"none", "complete"}]
  BY <1>2 DEF Inv, Types
<1>4. Types' /\ Fresh' /\ pc'["compressor"] = pc["compressor"]
  BY <1>2, <1>3, RotatorStays DEF Inv, Types, Threads
<1>5. pc'["rotator"] = "cancel queued"
  BY DEF Inv, Types, Threads
<1> QED BY <1>2, <1>4, <1>5, OtherKeepsInv DEF Decided, CompressLabels, Workers

LEMMA EmergencyCleanupInv == ASSUME Inv, EmergencyCleanup
                             PROVE  Inv'
<1> USE DEF EmergencyCleanup, Goto, queueVars
<1>1. PICK f : f = cache[EmergencyVictim]
  OBVIOUS
<1>2. /\ dropped' = dropped \cup {f} /\ raw' \subseteq raw /\ raw \ {f} \subseteq raw'
      /\ gz' \in {gz, [gz EXCEPT ![f] = "none"]}
  BY <1>1 DEF UnlinkEntry
<1>3. gz' \in [Files -> {"none", "complete"}]
  BY <1>2 DEF Inv, Types
<1>4. pc'["rotator"] = "idle"
  BY DEF Inv, Types, Threads
<1>5. Types' /\ Fresh' /\ pc'["compressor"] = pc["compressor"]
  BY <1>2, <1>3, <1>4, RotatorStays
<1> QED BY <1>2, <1>4, <1>5, OtherKeepsInv DEF Decided, CompressLabels, Workers

LEMMA OfferInv == ASSUME Inv, CheckQueueSize \/ ClaimEntry \/ CountEntry \/ PrepareNextFd
                  PROVE  Inv'
<1> USE DEF Goto, bounds, queueVars, disk
<1>1. pc' = [pc EXCEPT !["rotator"] = pc'["rotator"]] /\ pc'["rotator"] \in {"spare", "claim", "push", "idle"}
  BY DEF CheckQueueSize, ClaimEntry, CountEntry, PrepareNextFd, Inv, Types, Threads
<1>2. UNCHANGED <<raw, gz, pending, queue_, batch, entry, rotated, dropped>>
  BY DEF CheckQueueSize, ClaimEntry, CountEntry, PrepareNextFd
<1>3. pc'["rotator"] \in {"spare", "idle"} \/ pc["rotator"] \in {"offer", "claim"}
  BY DEF CheckQueueSize, ClaimEntry, CountEntry, PrepareNextFd, Inv, Types, Threads
<1>4. Types' /\ Fresh' /\ pc'["compressor"] = pc["compressor"]
  BY <1>1, <1>2, <1>3, RotatorStays DEF Inv, Types
<1>5. Decided'
  BY <1>1 DEF Decided
<1> QED BY <1>1, <1>2, <1>4, <1>5, DiskKeepsInv DEF CompressLabels, Workers

LEMMA PushEntryInv == ASSUME Inv, PushEntry
                      PROVE  Inv'
<1> USE DEF PushEntry, Goto, bounds, disk
<1>1. pc'["rotator"] = "count" /\ pc'["compressor"] = pc["compressor"] /\ pc' = [t \in Threads |-> pc'[t]]
  BY DEF Inv, Types, Threads
<1>2. entry["rotator"] \in 1 .. rotated
  <2>1. entry["rotator"] # 0 /\ entry["rotator"] \in 0 .. rotated /\ rotated \in Nat
    <3>1. pc["rotator"] = "push" /\ Inv
      OBVIOUS
    <3>2. entry["rotator"] # 0
      BY <3>1 DEF Inv, Fresh, NoEntry
    <3>3. entry["rotator"] \in 0 .. rotated /\ rotated \in Nat
      BY CompressionAssumption DEF Inv, Types, Workers
    <3> QED BY <3>2, <3>3
  <2> QED BY <2>1
<1>3. queue_' \in Seq(1 .. rotated)
  BY <1>2 DEF Inv, Types
<1>4. Types'
  BY <1>1, <1>3 DEF Inv, Types
<1>5. Fresh' /\ Decided'
  BY <1>1 DEF Fresh, CompressLabels, Decided
<1> QED BY <1>1, <1>4, <1>5, DiskKeepsInv DEF CompressLabels, Workers

LEMMA RotatorInv == ASSUME Inv, RotatorStep
                    PROVE  Inv'
  BY RetentionInv, UnlinkVictimInv, OfferInv, PushEntryInv, EmergencyCleanupInv, CompressInv DEF RotatorStep, Workers

-----------------------------------------------------------------------------
(* The compression thread: what it works on comes from the queue, by way of  *)
(* the batch.                                                                *)
LEMMA CompressorKeepsInv ==
    ASSUME Inv, UNCHANGED <<disk, rotated, dropped, victims>>,
           queue_' \in Seq(1 .. rotated), batch' \in Seq(1 .. rotated),
           Elements(queue_') \cup Elements(batch') \cup {entry'["compressor"]}
             \subseteq Elements(queue_) \cup Elements(batch) \cup {entry["compressor"]},
           entry' = [entry EXCEPT !["compressor"] = entry'["compressor"]], entry'["compressor"] \in 0 .. rotated,
           pc' = [pc EXCEPT !["compressor"] = pc'["compressor"]],
           pc'["compressor"] \notin CompressLabels \ {"compress"},
           pc'["compressor"] \in {"taken", "compress"} => entry'["compressor"] # NoEntry
    PROVE  Inv'
<1>1. pc'["rotator"] = pc["rotator"] /\ entry'["rotator"] = entry["rotator"] /\ pc' = [t \in Threads |-> pc'[t]]
  BY DEF Inv, Types, Workers, Threads
<1>2. Types'
  <2>1. entry' \in [Workers -> 0 .. rotated]
    BY DEF Inv, Types, Workers
  <2> QED BY <1>1, <2>1 DEF Inv, Types, disk
<1>3. Fresh'
  BY <1>1 DEF Inv, Fresh
<1>4. Decided'
  BY <1>1 DEF Inv, Decided, Victim
<1> QED BY <1>1, <1>2, <1>3, <1>4, DiskKeepsInv DEF Workers

LEMMA LoopInv == ASSUME Inv, LoopWhileRunning \/ EndCollection \/ EndBatch \/ EndThread
                 PROVE  Inv'
<1> USE DEF Goto, outsideThread, queueVars, bounds, LoopWhileRunning, EndCollection, EndBatch, EndThread
<1>1. /\ pc' = [pc EXCEPT !["compressor"] = pc'["compressor"]]
      /\ pc'["compressor"] \in {"wait", "drain", "process", "loop", "ended"}
      /\ UNCHANGED <<disk, rotated, dropped, victims, entry, queue_>> /\ batch' \in {batch, <<>>}
  BY DEF Inv, Types, Threads
<1>2. batch' \in Seq(1 .. rotated) /\ Elements(batch') \subseteq Elements(batch)
  BY <1>1, FewElements DEF Inv, Types
<1>3. entry["compressor"] \in 0 .. rotated /\ entry = [entry EXCEPT !["compressor"] = entry["compressor"]]
      /\ queue_ \in Seq(1 .. rotated)
  BY DEF Inv, Types, Workers
<1> QED BY <1>1, <1>2, <1>3, CompressorKeepsInv DEF CompressLabels

LEMMA TakeFirstInv == ASSUME Inv, TakeFirst
                      PROVE  Inv'
<1> USE DEF Goto, outsideThread, bounds, TakeFirst, Work
<1>1. pc' = [pc EXCEPT !["compressor"] = pc'["compressor"]] /\ UNCHANGED <<disk, rotated, dropped, victims, batch>>
  BY DEF Inv, Types, Threads
<1>2. /\ entry["compressor"] \in 0 .. rotated /\ entry = [entry EXCEPT !["compressor"] = entry["compressor"]]
      /\ queue_ \in Seq(1 .. rotated) /\ batch \in Seq(1 .. rotated) /\ DOMAIN entry = Workers
  BY DEF Inv, Types, Workers
<1>3. CASE pc'["compressor"] = "loop" /\ UNCHANGED <<queue_, entry>>
  BY <1>1, <1>2, <1>3, CompressorKeepsInv DEF CompressLabels
<1>4. CASE /\ queue_ # <<>> /\ entry' = [entry EXCEPT !["compressor"] = Head(queue_)]
           /\ queue_' = Tail(queue_) /\ pc'["compressor"] = "taken"
  <2>1. PICK h \in 1 .. rotated : h = Head(queue_)
    BY <1>2, <1>4, HeadTaken
  <2>2. h \in Elements(queue_) /\ queue_' \in Seq(1 .. rotated) /\ Elements(queue_') \subseteq Elements(queue_)
    BY <1>2, <1>4, <2>1, HeadTaken
  <2>3. entry'["compressor"] = h /\ entry' = [entry EXCEPT !["compressor"] = entry'["compressor"]]
    BY <1>2, <1>4, <2>1 DEF Workers
  <2>4. h \in 0 .. rotated /\ h # NoEntry
    BY DEF NoEntry
  <2> QED BY <1>1, <1>2, <1>4, <2>2, <2>3, <2>4, CompressorKeepsInv DEF CompressLabels
<1> QED BY <1>3, <1>4 DEF Inv, Types, Threads

LEMMA KeepFirstInv == ASSUME Inv, KeepFirst
                      PROVE  Inv'
<1> USE DEF Goto, outsideThread, bounds, KeepFirst
<1>1. /\ pc' = [pc EXCEPT !["compressor"] = pc'["compressor"]]
      /\ pc'["compressor"] \in {"collect", "drain"}
      /\ UNCHANGED <<disk, rotated, dropped, victims, queue_, entry>> /\ batch' \in {batch, <<entry["compressor"]>>}
  BY DEF Inv, Types, Threads
<1>2. /\ entry["compressor"] \in 0 .. rotated /\ entry = [entry EXCEPT !["compressor"] = entry["compressor"]]
      /\ queue_ \in Seq(1 .. rotated) /\ batch \in Seq(1 .. rotated) /\ entry["compressor"] # NoEntry
  BY DEF Inv, Types, Workers
<1>3. entry["compressor"] \in 1 .. rotated
  BY <1>2, CompressionAssumption DEF Inv, Types, NoEntry
<1>4. batch' \in Seq(1 .. rotated) /\ Elements(batch') \subseteq Elements(batch) \cup {entry["compressor"]}
  <2>1. PICK h \in 1 .. rotated : h = entry["compressor"]
    BY <1>3
  <2>2. <<h>> \in Seq(1 .. rotated) /\ Elements(<<h>>) = {h}
    BY FewElements
  <2>3. CASE batch' = batch
    BY <1>2, <2>3
  <2>4. CASE batch' = <<h>>
    BY <2>1, <2>2, <2>4
  <2> QED BY <1>1, <2>1, <2>3, <2>4
<1> QED BY <1>1, <1>2, <1>4, CompressorKeepsInv DEF CompressLabels

LEMMA CollectMoreInv == ASSUME Inv, CollectMore \/ DrainOne
                        PROVE  Inv'
<1> USE DEF Goto, outsideThread, bounds, CollectMore, DrainOne
<1>1. /\ pc'["compressor"] \in {"collect", "drain"}
      /\ UNCHANGED <<disk, rotated, dropped, victims, entry, pc>>
      /\ pc = [pc EXCEPT !["compressor"] = pc["compressor"]]
  BY DEF Inv, Types, Threads
<1>2. /\ entry["compressor"] \in 0 .. rotated /\ entry = [entry EXCEPT !["compressor"] = entry["compressor"]]
      /\ queue_ \in Seq(1 .. rotated) /\ batch \in Seq(1 .. rotated)
  BY DEF Inv, Types, Workers
<1>3. CASE UNCHANGED <<queue_, batch>>
  BY <1>1, <1>2, <1>3, CompressorKeepsInv DEF CompressLabels
<1>4. CASE /\ queue_ # <<>> /\ queue_' = Tail(queue_) /\ batch' \in {batch, Append(batch, Head(queue_))}
  <2>1. PICK h \in 1 .. rotated : h = Head(queue_)
    BY <1>2, <1>4, HeadTaken
  <2>2. h \in Elements(queue_) /\ queue_' \in Seq(1 .. rotated) /\ Elements(queue_') \subseteq Elements(queue_)
    BY <1>2, <1>4, <2>1, HeadTaken
  <2>3. batch' \in Seq(1 .. rotated) /\ Elements(batch') \subseteq Elements(batch) \cup {h}
    <3>1. Append(batch, h) \in Seq(1 .. rotated) /\ Elements(Append(batch, h)) = Elements(batch) \cup {h}
      <4>1. PICK b : b = batch
        OBVIOUS
      <4>2. PICK S : S = 1 .. rotated
        OBVIOUS
      <4>3. b \in Seq(S) /\ h \in S
        BY <1>2, <4>1, <4>2
      <4>4. Append(b, h) \in Seq(S) /\ Elements(Append(b, h)) = Elements(b) \cup {h}
        BY ONLY <4>3, Appended
      <4> QED BY <4>1, <4>2, <4>4
    <3>2. CASE batch' = batch
      BY <1>2, <3>2
    <3>3. CASE batch' = Append(batch, h)
      BY <3>1, <3>3
    <3> QED BY <1>4, <2>1, <3>2, <3>3
  <2> QED BY <1>1, <1>2, <2>2, <2>3, CompressorKeepsInv DEF CompressLabels
<1> QED BY <1>3, <1>4

LEMMA ProcessNextInv == ASSUME Inv, ProcessNext
                        PROVE  Inv'
<1> USE DEF Goto, outsideThread, queueVars, bounds, ProcessNext, Work
<1>1. /\ pc' = [pc EXCEPT !["compressor"] = pc'["compressor"]]
      /\ pc'["compressor"] \in {"process", "compress"}
      /\ UNCHANGED <<disk, rotated, dropped, victims, queue_>>
  BY DEF Inv, Types, Threads
<1>2. queue_ \in Seq(1 .. rotated) /\ batch \in Seq(1 .. rotated) /\ batch # <<>> /\ DOMAIN entry = Workers
  BY DEF Inv, Types
<1>3. PICK h \in 1 .. rotated : h = Head(batch)
  BY <1>2, HeadTaken
<1>4. h \in Elements(batch) /\ batch' \in Seq(1 .. rotated) /\ Elements(batch') \subseteq Elements(batch)
  BY <1>2, <1>3, HeadTaken
<1>5. entry'["compressor"] = h /\ entry' = [entry EXCEPT !["compressor"] = entry'["compressor"]]
  BY <1>2, <1>3 DEF Workers
<1>6. h \in 0 .. rotated /\ h # NoEntry
  BY DEF NoEntry
<1> QED BY <1>1, <1>2, <1>4, <1>5, <1>6, CompressorKeepsInv DEF CompressLabels

LEMMA CompressorInv == ASSUME Inv, CompressorStep
                       PROVE  Inv'
  BY LoopInv, TakeFirstInv, KeepFirstInv, CollectMoreInv, ProcessNextInv, CompressInv DEF CompressorStep, Workers

LEMMA OwnerInv == ASSUME Inv, StartThread \/ StopRunning \/ OwnerStep
                  PROVE  Inv'
<1> USE DEF Goto, outsideOwner, cacheVars, StartThread, StopRunning, OwnerStep, WakeThread, JoinThread
<1>1. /\ pc' = [t \in Threads |-> pc'[t]] /\ pc'["rotator"] = pc["rotator"]
      /\ pc'["compressor"] \in {pc["compressor"], "loop"}
      /\ UNCHANGED <<disk, rotated, dropped, victims, queue_, batch, entry>>
  BY DEF Inv, Types, Threads
<1>2. Types'
  BY <1>1 DEF Inv, Types, disk, CompressLabels
<1>3. Fresh' /\ Decided'
  BY <1>1 DEF Inv, Fresh, Decided, Victim
<1> QED BY <1>1, <1>2, <1>3, DiskKeepsInv DEF Workers, CompressLabels

(* No step loses the data of a file.                                         *)
LEMMA StepInv == Inv /\ [Next]_vars => Inv'
<1> SUFFICES ASSUME Inv, [Next]_vars PROVE Inv'
  OBVIOUS
<1>1. CASE UNCHANGED vars
  BY <1>1 DEF Inv, Types, Fresh, Progress, Decided, Victim, DataKept, vars, disk, queueVars
<1>2. CASE Next
  BY <1>2, AddToCacheInv, RotatorInv, CompressorInv, OwnerInv DEF Next
<1> QED BY <1>1, <1>2

(* DataKept for every number of files, batch and queue size, start of the    *)
(* thread and failure: in every state a rotated file that was not given up   *)
(* exists as it was or completely compressed (compress_file_sync,            *)
(* apply_retention_timestamped, emergency_cleanup).                          *)
THEOREM DataNeverLost == Spec => []DataKept
<1>1. Inv => DataKept
  BY DEF Inv
<1> QED BY <1>1, InitInv, StepInv, PTL DEF Spec
-----------------------------------------------------------------------------
(* Where every file is                                                       *)

Distinct(s) == \A i, j \in 1 .. Len(s) : s[i] = s[j] => i = j

(* What the rest is made of.                                                 *)
MoreTypes ==
    /\ dropped \subseteq Files
    /\ comp_state \in [Files -> {"idle", "queued", "compressing", "done", "cancelled"}]
    /\ fname \in [Files -> {"raw", "gz"}]
    /\ cache \in Seq(1 .. rotated) /\ victims \in Seq(1 .. rotated)
    /\ Len(batch) <= MaxBatch
    /\ nulls \in Nat /\ size \in 0 .. SizeWrap - 1

(* An entry is in the queue, in the batch or with a thread, and in one of    *)
(* them once.                                                                *)
Handed ==
    /\ Distinct(queue_) /\ Distinct(batch)
    /\ Elements(queue_) \cap Elements(batch) = {}
    /\ pc["compressor"] \in CompressLabels \cup {"taken"} =>
         entry["compressor"] \notin Elements(queue_) \cup Elements(batch)

(* The cache has no entry twice.  Retention holds the mutex while it deletes *)
(* its victims, and what it keeps is not among them.                         *)
Rest == SubSeq(cache, Len(Surplus) + 1, Len(cache))
Listed == IF cache_mutex_ = "free" THEN Elements(cache) ELSE Elements(victims) \cup Elements(Rest)
Retaining == pc["rotator"] \in {"cancel queued", "cancel compressing", "unlink"}
Listing ==
    /\ cache_mutex_ = IF Retaining THEN "rotator" ELSE "free"
    /\ pc["rotator"] \in {"cancel compressing", "unlink"} => victims # <<>>
    /\ Distinct(cache)
    /\ Retaining => Distinct(victims) /\ Elements(victims) \cap Elements(Rest) = {}

(* An entry keeps its first name until its compression is over.              *)
AsRotated ==
    /\ \A f \in Files : f > rotated => fname[f] = "raw"
    /\ \A f \in Elements(queue_) \cup Elements(batch) : fname[f] = "raw"
    /\ pc["compressor"] \in (CompressLabels \ {"done"}) \cup {"taken"} => fname[entry["compressor"]] = "raw"
    /\ pc["rotator"] \in (CompressLabels \ {"done"}) \cup {"retain", "cancel queued", "cancel compressing",
                                                         "unlink", "offer", "claim", "push"}
         => fname[entry["rotator"]] = "raw"

(* What is not compressed is listed, and under the name it has.              *)
Raws ==
    /\ raw \subseteq Listed
    /\ \A f \in raw : fname[f] = "raw"
    /\ \A t \in Workers : pc[t] \in {"update", "done"} => entry[t] \notin raw

(* What is listed exists under its name, but for the moment between the      *)
(* removal of the file and the change of its name.                           *)
Renaming(f) == \E t \in Workers : pc[t] = "update" /\ entry[t] = f
Named ==
    /\ \A f \in Listed : IF fname[f] = "raw" THEN f \in raw \/ (Renaming(f) /\ gz[f] = "complete")
                         ELSE gz[f] = "complete"
    /\ \A t \in Workers : pc[t] = "remove" /\ entry[t] \in Listed => gz[entry[t]] = "complete"

(* Between those of its steps in which it has a pending file, a compression  *)
(* has none.                                                                 *)
Tidy == \A t \in Workers :
    pc[t] \in {"stat", "source", "remove", "update", "done"} => pending[entry[t]] = "none"

(* The stopping thread has waited for the compression thread.                *)
Joined == pc["owner"] = "stopped" => pc["compressor"] = "ended"

Placed == MoreTypes /\ Handed /\ Listing /\ AsRotated /\ Raws /\ Named /\ Tidy /\ PendingCleaned

-----------------------------------------------------------------------------
(* Sequences without repetition                                              *)

LEMMA TailDistinct == ASSUME NEW S, NEW s \in Seq(S), s # <<>>, Distinct(s)
                      PROVE  /\ Distinct(Tail(s)) /\ Head(s) \notin Elements(Tail(s))
                             /\ Elements(s) = {Head(s)} \cup Elements(Tail(s))
<1>1. /\ Len(s) \in Nat \ {0} /\ Len(Tail(s)) = Len(s) - 1 /\ Head(s) = s[1]
      /\ \A i \in 1 .. Len(s) - 1 : Tail(s)[i] = s[i + 1]
  OBVIOUS
<1>2. Distinct(Tail(s))
  BY <1>1 DEF Distinct
<1>3. Head(s) \notin Elements(Tail(s))
  BY <1>1 DEF Distinct, Elements
<1>4. ASSUME NEW x \in Elements(s) PROVE x \in {Head(s)} \cup Elements(Tail(s))
  <2>1. PICK i \in 1 .. Len(s) : x = s[i]
    BY DEF Elements
  <2>2. CASE i = 1
    BY <1>1, <2>1, <2>2
  <2>3. CASE i # 1
    <3>1. i - 1 \in 1 .. Len(s) - 1 /\ x = Tail(s)[i - 1]
      BY <1>1, <2>1, <2>3
    <3> QED BY <1>1, <3>1 DEF Elements
  <2> QED BY <2>2, <2>3
<1>5. {Head(s)} \cup Elements(Tail(s)) \subseteq Elements(s)
  <2>1. 1 \in 1 .. Len(s) /\ \A i \in 1 .. Len(s) - 1 : i + 1 \in 1 .. Len(s)
    BY <1>1
  <2> QED BY <1>1, <2>1 DEF Elements
<1> QED BY <1>2, <1>3, <1>4, <1>5

LEMMA EmptyDistinct == Distinct(<<>>)
<1>1. Len(<<>>) = 0 /\ \A i \in 1 .. 0 : FALSE
  OBVIOUS
<1> QED BY <1>1 DEF Distinct

LEMMA AppendDistinct == ASSUME NEW S, NEW s \in Seq(S), NEW x \in S, Distinct(s), x \notin Elements(s)
                        PROVE  Distinct(Append(s, x))
<1>1. /\ Len(s) \in Nat /\ Len(Append(s, x)) = Len(s) + 1 /\ Append(s, x)[Len(s) + 1] = x
      /\ \A i \in 1 .. Len(s) : Append(s, x)[i] = s[i] /\ s[i] # x
  BY DEF Elements
<1>2. \A i \in 1 .. Len(s) + 1 : i \in 1 .. Len(s) \/ i = Len(s) + 1
  BY <1>1
<1> HIDE DEF Elements
<1> SUFFICES ASSUME NEW i \in 1 .. Len(s) + 1, NEW j \in 1 .. Len(s) + 1, Append(s, x)[i] = Append(s, x)[j]
             PROVE  i = j
  BY <1>1 DEF Distinct
<1> QED BY <1>1, <1>2 DEF Distinct

(* The first n elements, and the others.                                     *)
Split(s, a, b) ==
    /\ Distinct(a) /\ Distinct(b)
    /\ Elements(s) = Elements(a) \cup Elements(b) /\ Elements(a) \cap Elements(b) = {}

LEMMA SplitDistinct ==
    ASSUME NEW S, NEW s \in Seq(S), Distinct(s), NEW n \in Int, n <= Len(s),
           NEW a, a = SubSeq(s, 1, n), NEW b, b = SubSeq(s, Len(a) + 1, Len(s))
    PROVE  a \in Seq(S) /\ b \in Seq(S) /\ Split(s, a, b)
<1>1. PICK m \in Nat : m <= Len(s) /\ m = IF n >= 1 THEN n ELSE 0
  OBVIOUS
<1>2. Len(s) \in Nat /\ \A i \in 1 .. Len(s) : s[i] \in S
  OBVIOUS
<1>3. a \in Seq(S) /\ Len(a) = m /\ \A i \in 1 .. m : a[i] = s[i]
  <2>1. \A i \in 1 .. n : s[i] \in S
    BY <1>2
  <2>2. /\ SubSeq(s, 1, n) \in Seq(S) /\ Len(SubSeq(s, 1, n)) = IF 1 <= n THEN n - 1 + 1 ELSE 0
        /\ \A i \in 1 .. n - 1 + 1 : SubSeq(s, 1, n)[i] = s[1 + i - 1]
    BY <2>1, SubSeqProperties
  <2>3. \A i \in 1 .. m : i \in 1 .. n - 1 + 1 /\ 1 + i - 1 = i
    BY <1>1
  <2> QED BY <1>1, <2>2, <2>3
<1>4. b \in Seq(S) /\ Len(b) = Len(s) - m /\ \A i \in 1 .. Len(s) - m : b[i] = s[m + i]
  <2>1. \A i \in m + 1 .. Len(s) : s[i] \in S
    BY <1>1, <1>2
  <2>2. m + 1 \in Int /\ Len(s) \in Int
    BY <1>1, <1>2
  <2>3. /\ SubSeq(s, m + 1, Len(s)) \in Seq(S)
        /\ Len(SubSeq(s, m + 1, Len(s))) = IF m + 1 <= Len(s) THEN Len(s) - (m + 1) + 1 ELSE 0
        /\ \A i \in 1 .. Len(s) - (m + 1) + 1 : SubSeq(s, m + 1, Len(s))[i] = s[m + 1 + i - 1]
    BY <2>1, <2>2, SubSeqProperties
  <2>4. \A i \in 1 .. Len(s) - m : i \in 1 .. Len(s) - (m + 1) + 1 /\ m + 1 + i - 1 = m + i
    BY <1>1, <1>2
  <2>5. b = SubSeq(s, m + 1, Len(s))
    BY <1>3
  <2>6. b \in Seq(S) /\ Len(b) = Len(s) - m
    <3>1. (IF m + 1 <= Len(s) THEN Len(s) - (m + 1) + 1 ELSE 0) = Len(s) - m
      <4>1. m \in Int /\ Len(s) \in Int /\ m <= Len(s)
        BY <1>1, <1>2
      <4>2. m + 1 <= Len(s) \/ m = Len(s)
        BY ONLY <4>1
      <4> QED BY ONLY <4>1, <4>2
    <3> QED BY ONLY <2>3, <2>5, <3>1
  <2>7. ASSUME NEW i \in 1 .. Len(s) - m PROVE b[i] = s[m + i]
    BY <2>3, <2>4, <2>5
  <2> QED BY <2>6, <2>7
<1>5. \A i \in 1 .. m : i \in 1 .. Len(s)
  BY <1>1, <1>2
<1>6. \A i \in 1 .. Len(s) - m : m + i \in 1 .. Len(s)
  BY <1>1, <1>2
<1>7. Distinct(a)
  BY <1>3, <1>5 DEF Distinct
<1>8. Distinct(b)
  <2> SUFFICES ASSUME NEW i \in 1 .. Len(s) - m, NEW j \in 1 .. Len(s) - m, b[i] = b[j] PROVE i = j
    BY <1>4 DEF Distinct
  <2>1. m + i = m + j
    BY <1>4, <1>6 DEF Distinct
  <2> QED BY <1>1, <1>2, <2>1
<1>9. ASSUME NEW x \in Elements(s) PROVE x \in Elements(a) \cup Elements(b)
  <2>1. PICK i \in 1 .. Len(s) : x = s[i]
    BY DEF Elements
  <2>2. CASE i <= m
    <3>1. i \in 1 .. m /\ x = a[i]
      BY <1>1, <1>3, <2>1, <2>2
    <3> QED BY <1>3, <3>1 DEF Elements
  <2>3. CASE i > m
    <3>1. i - m \in 1 .. Len(s) - m /\ m + (i - m) = i
      BY <1>1, <1>2, <2>3
    <3>2. x = b[i - m]
      BY <1>4, <2>1, <3>1
    <3> QED BY <1>4, <3>1, <3>2 DEF Elements
  <2> QED BY <1>1, <2>2, <2>3
<1>10. Elements(a) \subseteq Elements(s)
  BY <1>3, <1>5 DEF Elements
<1>11. Elements(b) \subseteq Elements(s)
  BY <1>4, <1>6 DEF Elements
<1>12. Elements(a) \cap Elements(b) = {}
  <2>1. ASSUME NEW i \in 1 .. m, NEW j \in 1 .. Len(s) - m PROVE a[i] # b[j]
    <3>1. i # m + j
      BY <1>1, <1>2
    <3> QED BY <1>3, <1>4, <1>5, <1>6, <3>1 DEF Distinct
  <2>2. \A x \in Elements(a) : \E i \in 1 .. m : x = a[i]
    BY <1>3 DEF Elements
  <2>3. \A x \in Elements(b) : \E j \in 1 .. Len(s) - m : x = b[j]
    BY <1>4 DEF Elements
  <2> SUFFICES ASSUME NEW x \in Elements(a), x \in Elements(b) PROVE FALSE
    OBVIOUS
  <2>4. PICK i \in 1 .. m : x = a[i]
    BY <2>2
  <2>5. PICK j \in 1 .. Len(s) - m : x = b[j]
    BY <2>3
  <2> QED BY <2>1, <2>4, <2>5
<1> QED BY <1>3, <1>4, <1>7, <1>8, <1>9, <1>10, <1>11, <1>12 DEF Split

LEMMA RemoveDistinct ==
    ASSUME NEW S, NEW s \in Seq(S), Distinct(s), NEW k \in 1 .. Len(s),
           NEW r, r = RemoveAt(s, k)
    PROVE  /\ r \in Seq(S) /\ Distinct(r)
           /\ Elements(r) = Elements(s) \ {s[k]} /\ s[k] \in Elements(s)
<1> DEFINE a == SubSeq(s, 1, k - 1)
           b == SubSeq(s, k + 1, Len(s))
<1>1. Len(s) \in Nat /\ k \in Nat \ {0} /\ k <= Len(s) /\ \A i \in 1 .. Len(s) : s[i] \in S
  OBVIOUS
<1>2. a \in Seq(S) /\ Len(a) = k - 1 /\ \A i \in 1 .. k - 1 : a[i] = s[i]
  <2>1. (\A i \in 1 .. k - 1 : s[i] \in S) /\ k - 1 \in Int
    BY <1>1
  <2>2. /\ a \in Seq(S) /\ Len(a) = IF 1 <= k - 1 THEN k - 1 - 1 + 1 ELSE 0
        /\ \A i \in 1 .. k - 1 - 1 + 1 : a[i] = s[1 + i - 1]
    BY <2>1, SubSeqProperties
  <2>3. \A i \in 1 .. k - 1 : i \in 1 .. k - 1 - 1 + 1 /\ 1 + i - 1 = i
    BY <1>1
  <2> HIDE DEF a
  <2> QED BY <1>1, <2>2, <2>3
<1>3. b \in Seq(S) /\ Len(b) = Len(s) - k /\ \A i \in 1 .. Len(s) - k : b[i] = s[k + i]
  <2>1. (\A i \in k + 1 .. Len(s) : s[i] \in S) /\ k + 1 \in Int /\ Len(s) \in Int
    BY <1>1
  <2>2. /\ b \in Seq(S) /\ Len(b) = IF k + 1 <= Len(s) THEN Len(s) - (k + 1) + 1 ELSE 0
        /\ \A i \in 1 .. Len(s) - (k + 1) + 1 : b[i] = s[k + 1 + i - 1]
    BY <2>1, SubSeqProperties
  <2>3. \A i \in 1 .. Len(s) - k : i \in 1 .. Len(s) - (k + 1) + 1 /\ k + 1 + i - 1 = k + i
    BY <1>1
  <2> HIDE DEF b
  <2> QED BY <1>1, <2>2, <2>3
<1>4. r = a \o b
  BY DEF RemoveAt
<1> HIDE DEF a, b
<1>5. /\ r \in Seq(S) /\ Len(r) = Len(s) - 1
      /\ \A i \in 1 .. Len(s) - 1 : r[i] = IF i < k THEN s[i] ELSE s[i + 1]
  <2>1. /\ r \in Seq(S) /\ Len(r) = Len(a) + Len(b)
        /\ \A i \in 1 .. Len(a) + Len(b) : r[i] = IF i <= Len(a) THEN a[i] ELSE b[i - Len(a)]
    <3>1. a \in Seq(S) /\ b \in Seq(S)
      BY <1>2, <1>3
    <3>2. /\ a \o b \in Seq(S) /\ Len(a \o b) = Len(a) + Len(b)
          /\ \A i \in 1 .. Len(a) + Len(b) : (a \o b)[i] = IF i <= Len(a) THEN a[i] ELSE b[i - Len(a)]
      BY ONLY <3>1, ConcatProperties
    <3> QED BY ONLY <1>4, <3>2
  <2>2. Len(a) + Len(b) = Len(s) - 1
    BY <1>1, <1>2, <1>3
  <2>3. ASSUME NEW i \in 1 .. Len(s) - 1 PROVE r[i] = IF i < k THEN s[i] ELSE s[i + 1]
    <3>1. CASE i < k
      <4>1. i \in 1 .. k - 1 /\ i <= Len(a)
        BY <1>1, <1>2, <3>1
      <4> QED BY <1>2, <2>1, <2>2, <3>1, <4>1
    <3>2. CASE i >= k
      <4>1. i - (k - 1) \in 1 .. Len(s) - k /\ ~(i <= Len(a)) /\ k + (i - (k - 1)) = i + 1 /\ ~(i < k)
        BY <1>1, <1>2, <3>2
      <4>2. r[i] = b[i - (k - 1)]
        BY <1>2, <2>1, <2>2, <4>1
      <4> QED BY <1>3, <4>1, <4>2
    <3> QED BY <1>1, <3>1, <3>2
  <2> QED BY <2>1, <2>2, <2>3
<1> DEFINE g(i) == IF i < k THEN i ELSE i + 1
<1>6. \A i \in 1 .. Len(s) - 1 : g(i) \in 1 .. Len(s) /\ g(i) # k /\ r[i] = s[g(i)]
  BY <1>1, <1>5
<1>7. \A i, j \in 1 .. Len(s) - 1 : g(i) = g(j) => i = j
  BY <1>1
<1>8. \A j \in 1 .. Len(s) : j # k => \E i \in 1 .. Len(s) - 1 : g(i) = j
  <2> SUFFICES ASSUME NEW j \in 1 .. Len(s), j # k PROVE \E i \in 1 .. Len(s) - 1 : g(i) = j
    OBVIOUS
  <2>1. CASE j < k
    <3>1. j \in 1 .. Len(s) - 1 /\ g(j) = j
      BY <1>1, <2>1
    <3> QED BY <3>1
  <2>2. CASE j > k
    <3>1. j - 1 \in 1 .. Len(s) - 1 /\ g(j - 1) = j
      BY <1>1, <2>2
    <3> QED BY <3>1
  <2> QED BY <1>1, <2>1, <2>2
<1> HIDE DEF g
<1>9. Distinct(r)
  BY <1>5, <1>6, <1>7 DEF Distinct
<1>10. Elements(r) \subseteq Elements(s) \ {s[k]}
  BY <1>5, <1>6 DEF Distinct, Elements
<1>11. ASSUME NEW x \in Elements(s) \ {s[k]} PROVE x \in Elements(r)
  <2>1. PICK j \in 1 .. Len(s) : x = s[j] /\ j # k
    BY DEF Elements
  <2>2. PICK i \in 1 .. Len(s) - 1 : g(i) = j
    BY <1>8, <2>1
  <2> QED BY <1>5, <1>6, <2>1, <2>2 DEF Elements
<1> QED BY <1>5, <1>9, <1>10, <1>11 DEF Elements

-----------------------------------------------------------------------------
(* Steps outside compress_file_sync: no thread enters it but at its start,   *)
(* none leaves it.                                                           *)
Steady == \A t \in Workers :
    pc[t] \in CompressLabels \/ pc'[t] \in CompressLabels \ {"compress"} => pc'[t] = pc[t] /\ entry'[t] = entry[t]

LEMMA PendingStays == ASSUME Tidy, PendingCleaned, Steady, UNCHANGED pending
                      PROVE  Tidy' /\ PendingCleaned'
<1>1. Tidy'
  BY DEF Tidy, Steady, CompressLabels
<1>2. PendingCleaned'
  <2> SUFFICES ASSUME NEW f \in Files, pending[f] # "none" PROVE Busy(f)'
    BY DEF PendingCleaned
  <2>1. PICK t \in Workers : Compressing(t, f)
    BY DEF PendingCleaned, Busy
  <2>2. pc[t] \in CompressLabels /\ entry[t] = f
    BY <2>1 DEF Compressing, CompressLabels
  <2>3. pc'[t] = pc[t] /\ entry'[t] = entry[t]
    BY <2>2 DEF Steady
  <2>4. Compressing(t, f)'
    BY <2>1, <2>3 DEF Compressing
  <2> QED BY <2>4 DEF Busy
<1> QED BY <1>1, <1>2

LEMMA RenamingStays == ASSUME Steady, NEW f PROVE Renaming(f)' <=> Renaming(f)
<1>1. ASSUME NEW t \in Workers
      PROVE  (pc[t] = "update" /\ entry[t] = f) <=> (pc'[t] = "update" /\ entry'[t] = f)
  BY DEF Steady, CompressLabels
<1> QED BY <1>1 DEF Renaming

(* Nothing changes on the disk or in the list.                               *)
LEMMA RelistKeeps ==
    ASSUME Raws, Named, Tidy, PendingCleaned, Steady, UNCHANGED <<disk, fname>>, Listed' = Listed
    PROVE  Raws' /\ Named' /\ Tidy' /\ PendingCleaned'
<1>1. UNCHANGED <<raw, gz, pending>>
  BY DEF disk
<1>2. Tidy' /\ PendingCleaned'
  BY <1>1, PendingStays
<1>3. Raws'
  BY <1>1 DEF Raws, Steady, CompressLabels
<1>4. Named'
  <2>1. \A f \in Listed : IF fname[f] = "raw" THEN f \in raw \/ (Renaming(f)' /\ gz[f] = "complete")
                          ELSE gz[f] = "complete"
    BY RenamingStays DEF Named
  <2>2. \A t \in Workers : pc'[t] = "remove" /\ entry'[t] \in Listed => gz[entry'[t]] = "complete"
    BY DEF Named, Steady, CompressLabels
  <2> QED BY <1>1, <2>1, <2>2 DEF Named
<1> QED BY <1>2, <1>3, <1>4

(* An entry leaves the list and its file the disk.                           *)
LEMMA ForgetKeeps ==
    ASSUME Inv, Raws, Named, Tidy, PendingCleaned, Steady, UNCHANGED <<pending, fname>>,
           NEW v \in Files, UnlinkEntry(v), Listed' = Listed \ {v}, Listed \subseteq Files
    PROVE  Raws' /\ Named' /\ Tidy' /\ PendingCleaned'
<1>1. /\ raw' \subseteq raw /\ \A f \in Files \ {v} : gz'[f] = gz[f] /\ (f \in raw' <=> f \in raw)
  BY DEF UnlinkEntry, Inv, Types
<1>2. v \notin raw'
  BY DEF UnlinkEntry, Raws
<1>3. Tidy' /\ PendingCleaned'
  BY PendingStays
<1>4. Raws'
  BY <1>1, <1>2 DEF Raws, Steady, CompressLabels
<1>5. Named'
  <2>1. ASSUME NEW f \in Listed'
        PROVE  IF fname[f] = "raw" THEN f \in raw' \/ (Renaming(f)' /\ gz'[f] = "complete")
               ELSE gz'[f] = "complete"
    <3>1. f \in Files \ {v} /\ f \in Listed
      OBVIOUS
    <3> QED BY <1>1, <3>1, RenamingStays DEF Named
  <2>2. ASSUME NEW t \in Workers, pc'[t] = "remove", entry'[t] \in Listed' PROVE gz'[entry'[t]] = "complete"
    <3>1. entry'[t] = entry[t] /\ pc[t] = "remove"
      BY <2>2 DEF Steady, CompressLabels
    <3>2. entry[t] \in Files \ {v} /\ entry[t] \in Listed
      BY <2>2, <3>1
    <3>3. gz[entry[t]] = "complete"
      BY <3>1, <3>2 DEF Named
    <3> QED BY <1>1, <3>1, <3>2, <3>3
  <2> QED BY <2>1, <2>2 DEF Named
<1> QED BY <1>3, <1>4, <1>5

LEMMA ElementsIn == ASSUME NEW S, NEW s \in Seq(S)
                    PROVE  /\ \A i \in 1 .. Len(s) : s[i] \in S
                           /\ Elements(s) \subseteq S /\ Len(s) \in Nat
  BY DEF Elements

LEMMA FreshFile ==
    ASSUME Inv, pc["rotator"] \in CompressLabels \cup {"retain", "cancel queued", "cancel compressing",
                                                       "unlink", "offer", "claim", "push"}
    PROVE  entry["rotator"] \in 1 .. rotated /\ entry["rotator"] \in Files
<1>1. entry["rotator"] # 0
  BY DEF Inv, Fresh, NoEntry
<1>2. entry["rotator"] \in 0 .. rotated /\ rotated \in 0 .. Rotations
  BY DEF Inv, Types, Workers
<1>3. Rotations \in Nat
  BY CompressionAssumption
<1>4. PICK e : e = entry["rotator"]
  OBVIOUS
<1>5. e # 0 /\ e \in 0 .. rotated
  BY <1>1, <1>2, <1>4
<1>6. e \in 1 .. rotated /\ e \in 1 .. Rotations
  BY ONLY <1>2, <1>3, <1>5
<1> QED BY <1>4, <1>6 DEF Files

(* What is listed was rotated.                                               *)
LEMMA ListTypes ==
    ASSUME Inv, MoreTypes
    PROVE  /\ 1 .. rotated \subseteq Files /\ Len(cache) - KeepFiles \in Int /\ Len(cache) - KeepFiles <= Len(cache)
           /\ Surplus \in Seq(1 .. rotated) /\ Rest \in Seq(1 .. rotated) /\ Listed \subseteq 1 .. rotated
<1>1. 1 .. rotated \subseteq Files
  BY CompressionAssumption DEF Inv, Types, Files
<1>2. cache \in Seq(1 .. rotated) /\ victims \in Seq(1 .. rotated) /\ Len(cache) \in Nat /\ KeepFiles \in Nat
  BY CompressionAssumption DEF MoreTypes
<1>3. \A i \in 1 .. Len(cache) : cache[i] \in 1 .. rotated
  BY <1>2, ElementsIn
<1>4. Surplus \in Seq(1 .. rotated)
  <2>1. (\A i \in 1 .. Len(cache) - KeepFiles : cache[i] \in 1 .. rotated) /\ Len(cache) - KeepFiles \in Int
    BY <1>2, <1>3
  <2> QED BY <2>1, SubSeqProperties DEF Surplus
<1>5. Rest \in Seq(1 .. rotated)
  <2>1. Len(Surplus) \in Nat
    BY <1>4
  <2>2. (\A i \in Len(Surplus) + 1 .. Len(cache) : cache[i] \in 1 .. rotated) /\ Len(Surplus) + 1 \in Int /\ Len(cache) \in Int
    BY <1>2, <1>3, <2>1
  <2> QED BY <2>2, SubSeqProperties DEF Rest
<1>6. Listed \subseteq 1 .. rotated
  <2>1. Elements(cache) \subseteq 1 .. rotated /\ Elements(victims) \subseteq 1 .. rotated
        /\ Elements(Rest) \subseteq 1 .. rotated
    BY <1>2, <1>5, ElementsIn
  <2> QED BY <2>1 DEF Listed
<1> QED BY <1>1, <1>2, <1>4, <1>5, <1>6

-----------------------------------------------------------------------------
(* A step of a compression                                                   *)

LEMMA CompressEffect ==
    ASSUME Inv, MoreTypes, Tidy, NEW t \in Workers, Compress(t), NEW f, f = entry[t]
    PROVE  /\ f \in Files /\ f \in 1 .. rotated /\ pc[t] \in CompressLabels
           /\ UNCHANGED <<entry, outsideCompress>>
           /\ \A u \in Workers \ {t} : pc'[u] = pc[u]
           /\ pc'[t] \in CompressLabels \cup {"spare", "process"}
           /\ comp_state' \in [Files -> {"idle", "queued", "compressing", "done", "cancelled"}]
           /\ fname' = [fname EXCEPT ![f] = IF pc[t] = "update" THEN "gz" ELSE fname[f]]
           /\ raw' = IF pc[t] = "remove" THEN raw \ {f} ELSE raw
           /\ gz' = [gz EXCEPT ![f] = IF pc[t] = "rename" THEN gz'[f] ELSE gz[f]]
           /\ pending' = [pending EXCEPT ![f] = pending'[f]]
           /\ pc'[t] = "remove" => pc[t] = "rename" /\ gz'[f] = "complete"
           /\ pc'[t] = "update" <=> pc[t] = "remove"
           /\ pc'[t] = "done" <=> pc[t] = "update"
           /\ pc[t] = "done" => pc'[t] \notin CompressLabels
           /\ pc'[t] \notin {"compress", "deflate", "trailer", "verdict", "discard", "rename"}
                => pending'[f] = "none"
<1>1. f \in Files /\ f \in 1 .. rotated /\ pc[t] \in CompressLabels
  <2>1. pc[t] \in CompressLabels
    BY DEF Compress, RemoveLeftover, StatSource, OpenSource, Deflate, WriteTrailer, Verdict, Discard,
           RenamePending, RenamePendingFails, RemoveSource, UpdateEntry, MarkDone, CompressLabels
  <2> QED BY <2>1, OwnFileExists
<1>2. /\ DOMAIN pc = Threads /\ t \in Threads /\ DOMAIN gz = Files /\ DOMAIN pending = Files
      /\ fname = [fname EXCEPT ![f] = fname[f]] /\ gz = [gz EXCEPT ![f] = gz[f]]
      /\ pending = [pending EXCEPT ![f] = pending[f]] /\ DOMAIN fname = Files
      /\ comp_state \in [Files -> {"idle", "queued", "compressing", "done", "cancelled"}]
  BY DEF Inv, Types, MoreTypes, Threads, Workers
<1>3. /\ pc[t] = "rename" => pending[f] = "complete"
      /\ pc[t] \in {"stat", "source", "remove", "update", "done"} => pending[f] = "none"
  BY DEF Inv, Progress, Tidy, Workers
<1> HIDE DEF Inv
<1> USE <1>1, <1>2, <1>3
<1>5. CASE RemoveLeftover(t)
  <2>1. /\ pc[t] = "compress" /\ pc'[t] \in {"spare", "process", "stat"}
        /\ \A u \in Workers \ {t} : pc'[u] = pc[u]
    BY <1>5 DEF RemoveLeftover, Goto, AfterCompress, Workers, Threads
  <2>2. /\ UNCHANGED <<entry, outsideCompress>>
        /\ comp_state' \in [Files -> {"idle", "queued", "compressing", "done", "cancelled"}]
        /\ fname' = [fname EXCEPT ![f] = IF pc[t] = "update" THEN "gz" ELSE fname[f]]
        /\ raw' = IF pc[t] = "remove" THEN raw \ {f} ELSE raw
    BY <1>5, <2>1 DEF RemoveLeftover, disk
  <2>3. /\ gz' = [gz EXCEPT ![f] = gz'[f]] /\ (pc[t] # "rename" => gz'[f] = gz[f])
        /\ pending' = [pending EXCEPT ![f] = pending'[f]]
        /\ pc'[t] = "remove" => gz'[f] = "complete"
        /\ pc'[t] \notin {"compress", "deflate", "trailer", "verdict", "discard", "rename"}
             => pending'[f] = "none"
    BY <1>5, <2>1 DEF RemoveLeftover, disk
  <2> QED BY <2>1, <2>2, <2>3 DEF CompressLabels
<1>6. CASE StatSource(t)
  <2>1. /\ pc[t] = "stat" /\ pc'[t] \in {"spare", "process", "source"}
        /\ \A u \in Workers \ {t} : pc'[u] = pc[u]
    BY <1>6 DEF StatSource, Goto, AfterCompress, Workers, Threads
  <2>2. /\ UNCHANGED <<entry, outsideCompress>>
        /\ comp_state' \in [Files -> {"idle", "queued", "compressing", "done", "cancelled"}]
        /\ fname' = [fname EXCEPT ![f] = IF pc[t] = "update" THEN "gz" ELSE fname[f]]
        /\ raw' = IF pc[t] = "remove" THEN raw \ {f} ELSE raw
    BY <1>6, <2>1 DEF StatSource, disk, SetState
  <2>3. /\ gz' = [gz EXCEPT ![f] = gz'[f]] /\ (pc[t] # "rename" => gz'[f] = gz[f])
        /\ pending' = [pending EXCEPT ![f] = pending'[f]]
        /\ pc'[t] = "remove" => gz'[f] = "complete"
        /\ pc'[t] \notin {"compress", "deflate", "trailer", "verdict", "discard", "rename"}
             => pending'[f] = "none"
    BY <1>6, <2>1 DEF StatSource, disk
  <2> QED BY <2>1, <2>2, <2>3 DEF CompressLabels
<1>7. CASE OpenSource(t)
  <2>1. /\ pc[t] = "source" /\ pc'[t] \in {"deflate", "discard"}
        /\ \A u \in Workers \ {t} : pc'[u] = pc[u]
    BY <1>7 DEF OpenSource, Goto, Workers, Threads
  <2>2. /\ UNCHANGED <<entry, outsideCompress>>
        /\ comp_state' \in [Files -> {"idle", "queued", "compressing", "done", "cancelled"}]
        /\ fname' = [fname EXCEPT ![f] = IF pc[t] = "update" THEN "gz" ELSE fname[f]]
        /\ raw' = IF pc[t] = "remove" THEN raw \ {f} ELSE raw
    BY <1>7, <2>1 DEF OpenSource, disk
  <2>3. /\ gz' = [gz EXCEPT ![f] = gz'[f]] /\ (pc[t] # "rename" => gz'[f] = gz[f])
        /\ pending' = [pending EXCEPT ![f] = pending'[f]]
        /\ pc'[t] = "remove" => gz'[f] = "complete"
        /\ pc'[t] \notin {"compress", "deflate", "trailer", "verdict", "discard", "rename"}
             => pending'[f] = "none"
    BY <1>7, <2>1 DEF OpenSource, disk
  <2> QED BY <2>1, <2>2, <2>3 DEF CompressLabels
<1>8. CASE Deflate(t)
  <2>1. /\ pc[t] = "deflate" /\ pc'[t] \in {"trailer", "discard"}
        /\ \A u \in Workers \ {t} : pc'[u] = pc[u]
    BY <1>8 DEF Deflate, Goto, Workers, Threads
  <2>2. /\ UNCHANGED <<entry, outsideCompress>>
        /\ comp_state' \in [Files -> {"idle", "queued", "compressing", "done", "cancelled"}]
        /\ fname' = [fname EXCEPT ![f] = IF pc[t] = "update" THEN "gz" ELSE fname[f]]
        /\ raw' = IF pc[t] = "remove" THEN raw \ {f} ELSE raw
    BY <1>8, <2>1 DEF Deflate, disk
  <2>3. /\ gz' = [gz EXCEPT ![f] = gz'[f]] /\ (pc[t] # "rename" => gz'[f] = gz[f])
        /\ pending' = [pending EXCEPT ![f] = pending'[f]]
        /\ pc'[t] = "remove" => gz'[f] = "complete"
        /\ pc'[t] \notin {"compress", "deflate", "trailer", "verdict", "discard", "rename"}
             => pending'[f] = "none"
    BY <1>8, <2>1 DEF Deflate, disk
  <2> QED BY <2>1, <2>2, <2>3 DEF CompressLabels
<1>9. CASE WriteTrailer(t)
  <2>1. /\ pc[t] = "trailer" /\ pc'[t] \in {"verdict", "discard"}
        /\ \A u \in Workers \ {t} : pc'[u] = pc[u]
    BY <1>9 DEF WriteTrailer, Goto, Workers, Threads
  <2>2. /\ UNCHANGED <<entry, outsideCompress>>
        /\ comp_state' \in [Files -> {"idle", "queued", "compressing", "done", "cancelled"}]
        /\ fname' = [fname EXCEPT ![f] = IF pc[t] = "update" THEN "gz" ELSE fname[f]]
        /\ raw' = IF pc[t] = "remove" THEN raw \ {f} ELSE raw
    BY <1>9, <2>1 DEF WriteTrailer, disk
  <2>3. /\ gz' = [gz EXCEPT ![f] = gz'[f]] /\ (pc[t] # "rename" => gz'[f] = gz[f])
        /\ pending' = [pending EXCEPT ![f] = pending'[f]]
        /\ pc'[t] = "remove" => gz'[f] = "complete"
        /\ pc'[t] \notin {"compress", "deflate", "trailer", "verdict", "discard", "rename"}
             => pending'[f] = "none"
    BY <1>9, <2>1 DEF WriteTrailer, disk
  <2> QED BY <2>1, <2>2, <2>3 DEF CompressLabels
<1>10. CASE Verdict(t)
  <2>1. /\ pc[t] = "verdict" /\ pc'[t] \in {"rename", "discard"}
        /\ \A u \in Workers \ {t} : pc'[u] = pc[u]
    BY <1>10 DEF Verdict, Goto, Workers, Threads
  <2>2. /\ UNCHANGED <<entry, outsideCompress>>
        /\ comp_state' \in [Files -> {"idle", "queued", "compressing", "done", "cancelled"}]
        /\ fname' = [fname EXCEPT ![f] = IF pc[t] = "update" THEN "gz" ELSE fname[f]]
        /\ raw' = IF pc[t] = "remove" THEN raw \ {f} ELSE raw
    BY <1>10, <2>1 DEF Verdict, disk
  <2>3. /\ gz' = [gz EXCEPT ![f] = gz'[f]] /\ (pc[t] # "rename" => gz'[f] = gz[f])
        /\ pending' = [pending EXCEPT ![f] = pending'[f]]
        /\ pc'[t] = "remove" => gz'[f] = "complete"
        /\ pc'[t] \notin {"compress", "deflate", "trailer", "verdict", "discard", "rename"}
             => pending'[f] = "none"
    BY <1>10, <2>1 DEF Verdict, disk
  <2> QED BY <2>1, <2>2, <2>3 DEF CompressLabels
<1>11. CASE Discard(t)
  <2>1. /\ pc[t] = "discard" /\ pc'[t] \in {"spare", "process"}
        /\ \A u \in Workers \ {t} : pc'[u] = pc[u]
    BY <1>11 DEF Discard, Goto, AfterCompress, Workers, Threads
  <2>2. /\ UNCHANGED <<entry, outsideCompress>>
        /\ comp_state' \in [Files -> {"idle", "queued", "compressing", "done", "cancelled"}]
        /\ fname' = [fname EXCEPT ![f] = IF pc[t] = "update" THEN "gz" ELSE fname[f]]
        /\ raw' = IF pc[t] = "remove" THEN raw \ {f} ELSE raw
    BY <1>11, <2>1 DEF Discard, disk
  <2>3. /\ gz' = [gz EXCEPT ![f] = gz'[f]] /\ (pc[t] # "rename" => gz'[f] = gz[f])
        /\ pending' = [pending EXCEPT ![f] = pending'[f]]
        /\ pc'[t] = "remove" => gz'[f] = "complete"
        /\ pc'[t] \notin {"compress", "deflate", "trailer", "verdict", "discard", "rename"}
             => pending'[f] = "none"
    BY <1>11, <2>1 DEF Discard, disk
  <2> QED BY <2>1, <2>2, <2>3 DEF CompressLabels
<1>12. CASE RenamePending(t)
  <2>1. /\ pc[t] = "rename" /\ pc'[t] \in {"remove"}
        /\ \A u \in Workers \ {t} : pc'[u] = pc[u]
    BY <1>12 DEF RenamePending, Goto, Workers, Threads
  <2>2. /\ UNCHANGED <<entry, outsideCompress>>
        /\ comp_state' \in [Files -> {"idle", "queued", "compressing", "done", "cancelled"}]
        /\ fname' = [fname EXCEPT ![f] = IF pc[t] = "update" THEN "gz" ELSE fname[f]]
        /\ raw' = IF pc[t] = "remove" THEN raw \ {f} ELSE raw
    BY <1>12, <2>1 DEF RenamePending, disk
  <2>3. /\ gz' = [gz EXCEPT ![f] = gz'[f]] /\ (pc[t] # "rename" => gz'[f] = gz[f])
        /\ pending' = [pending EXCEPT ![f] = pending'[f]]
        /\ pc'[t] = "remove" => gz'[f] = "complete"
        /\ pc'[t] \notin {"compress", "deflate", "trailer", "verdict", "discard", "rename"}
             => pending'[f] = "none"
    BY <1>12, <2>1 DEF RenamePending, disk
  <2> QED BY <2>1, <2>2, <2>3 DEF CompressLabels
<1>13. CASE RenamePendingFails(t)
  <2>1. /\ pc[t] = "rename" /\ pc'[t] \in {"spare", "process"}
        /\ \A u \in Workers \ {t} : pc'[u] = pc[u]
    BY <1>13 DEF RenamePendingFails, Goto, AfterCompress, Workers, Threads
  <2>2. /\ UNCHANGED <<entry, outsideCompress>>
        /\ comp_state' \in [Files -> {"idle", "queued", "compressing", "done", "cancelled"}]
        /\ fname' = [fname EXCEPT ![f] = IF pc[t] = "update" THEN "gz" ELSE fname[f]]
        /\ raw' = IF pc[t] = "remove" THEN raw \ {f} ELSE raw
    BY <1>13, <2>1 DEF RenamePendingFails, disk, SetState
  <2>3. /\ gz' = [gz EXCEPT ![f] = gz'[f]] /\ (pc[t] # "rename" => gz'[f] = gz[f])
        /\ pending' = [pending EXCEPT ![f] = pending'[f]]
        /\ pc'[t] = "remove" => gz'[f] = "complete"
        /\ pc'[t] \notin {"compress", "deflate", "trailer", "verdict", "discard", "rename"}
             => pending'[f] = "none"
    BY <1>13, <2>1 DEF RenamePendingFails, disk
  <2> QED BY <2>1, <2>2, <2>3 DEF CompressLabels
<1>14. CASE RemoveSource(t)
  <2>1. /\ pc[t] = "remove" /\ pc'[t] \in {"update"}
        /\ \A u \in Workers \ {t} : pc'[u] = pc[u]
    BY <1>14 DEF RemoveSource, Goto, Workers, Threads
  <2>2. /\ UNCHANGED <<entry, outsideCompress>>
        /\ comp_state' \in [Files -> {"idle", "queued", "compressing", "done", "cancelled"}]
        /\ fname' = [fname EXCEPT ![f] = IF pc[t] = "update" THEN "gz" ELSE fname[f]]
        /\ raw' = IF pc[t] = "remove" THEN raw \ {f} ELSE raw
    BY <1>14, <2>1 DEF RemoveSource, disk
  <2>3. /\ gz' = [gz EXCEPT ![f] = gz'[f]] /\ (pc[t] # "rename" => gz'[f] = gz[f])
        /\ pending' = [pending EXCEPT ![f] = pending'[f]]
        /\ pc'[t] = "remove" => gz'[f] = "complete"
        /\ pc'[t] \notin {"compress", "deflate", "trailer", "verdict", "discard", "rename"}
             => pending'[f] = "none"
    BY <1>14, <2>1 DEF RemoveSource, disk
  <2> QED BY <2>1, <2>2, <2>3 DEF CompressLabels
<1>15. CASE UpdateEntry(t)
  <2>1. /\ pc[t] = "update" /\ pc'[t] \in {"done"}
        /\ \A u \in Workers \ {t} : pc'[u] = pc[u]
    BY <1>15 DEF UpdateEntry, Goto, Workers, Threads
  <2>2. /\ UNCHANGED <<entry, outsideCompress>>
        /\ comp_state' \in [Files -> {"idle", "queued", "compressing", "done", "cancelled"}]
        /\ fname' = [fname EXCEPT ![f] = IF pc[t] = "update" THEN "gz" ELSE fname[f]]
        /\ raw' = IF pc[t] = "remove" THEN raw \ {f} ELSE raw
    BY <1>15, <2>1 DEF UpdateEntry, disk
  <2>3. /\ gz' = [gz EXCEPT ![f] = gz'[f]] /\ (pc[t] # "rename" => gz'[f] = gz[f])
        /\ pending' = [pending EXCEPT ![f] = pending'[f]]
        /\ pc'[t] = "remove" => gz'[f] = "complete"
        /\ pc'[t] \notin {"compress", "deflate", "trailer", "verdict", "discard", "rename"}
             => pending'[f] = "none"
    BY <1>15, <2>1 DEF UpdateEntry, disk
  <2> QED BY <2>1, <2>2, <2>3 DEF CompressLabels
<1>16. CASE MarkDone(t)
  <2>1. /\ pc[t] = "done" /\ pc'[t] \in {"spare", "process"}
        /\ \A u \in Workers \ {t} : pc'[u] = pc[u]
    BY <1>16 DEF MarkDone, Goto, AfterCompress, Workers, Threads
  <2>2. /\ UNCHANGED <<entry, outsideCompress>>
        /\ comp_state' \in [Files -> {"idle", "queued", "compressing", "done", "cancelled"}]
        /\ fname' = [fname EXCEPT ![f] = IF pc[t] = "update" THEN "gz" ELSE fname[f]]
        /\ raw' = IF pc[t] = "remove" THEN raw \ {f} ELSE raw
    BY <1>16, <2>1 DEF MarkDone, disk, SetState
  <2>3. /\ gz' = [gz EXCEPT ![f] = gz'[f]] /\ (pc[t] # "rename" => gz'[f] = gz[f])
        /\ pending' = [pending EXCEPT ![f] = pending'[f]]
        /\ pc'[t] = "remove" => gz'[f] = "complete"
        /\ pc'[t] \notin {"compress", "deflate", "trailer", "verdict", "discard", "rename"}
             => pending'[f] = "none"
    BY <1>16, <2>1 DEF MarkDone, disk
  <2> QED BY <2>1, <2>2, <2>3 DEF CompressLabels
<1> QED BY <1>5, <1>6, <1>7, <1>8, <1>9, <1>10, <1>11, <1>12, <1>13, <1>14, <1>15, <1>16 DEF Compress

LEMMA CompressPlaces == ASSUME Inv, Placed, NEW t \in Workers, Compress(t)
                        PROVE  Placed'
<1>1. PICK f : f = entry[t]
  OBVIOUS
<1>2. /\ f \in Files /\ f \in 1 .. rotated /\ pc[t] \in CompressLabels
      /\ UNCHANGED <<entry, cache, cache_mutex_, queue_, nulls, size, victims, batch, rotated, dropped>>
      /\ \A u \in Workers \ {t} : pc'[u] = pc[u]
      /\ pc'[t] \in CompressLabels \cup {"spare", "process"}
  BY <1>1, CompressEffect DEF Placed, outsideCompress, queueVars
<1>3. /\ comp_state' \in [Files -> {"idle", "queued", "compressing", "done", "cancelled"}]
      /\ fname' = [fname EXCEPT ![f] = IF pc[t] = "update" THEN "gz" ELSE fname[f]]
      /\ raw' = IF pc[t] = "remove" THEN raw \ {f} ELSE raw
      /\ gz' = [gz EXCEPT ![f] = IF pc[t] = "rename" THEN gz'[f] ELSE gz[f]]
      /\ pending' = [pending EXCEPT ![f] = pending'[f]]
  BY <1>1, CompressEffect DEF Placed
<1>4. /\ pc'[t] = "remove" => pc[t] = "rename" /\ gz'[f] = "complete"
      /\ pc'[t] = "update" <=> pc[t] = "remove"
      /\ pc'[t] = "done" <=> pc[t] = "update"
      /\ pc[t] = "done" => pc'[t] \notin CompressLabels
      /\ pc'[t] \notin {"compress", "deflate", "trailer", "verdict", "discard", "rename"}
           => pending'[f] = "none"
  BY <1>1, CompressEffect DEF Placed
<1>5. /\ DOMAIN gz = Files /\ DOMAIN pending = Files /\ fname \in [Files -> {"raw", "gz"}]
  BY DEF Inv, Types, Placed, MoreTypes
<1>6. \A g \in Files \ {f} : /\ fname'[g] = fname[g] /\ gz'[g] = gz[g] /\ pending'[g] = pending[g]
                             /\ (g \in raw' <=> g \in raw)
  BY <1>3, <1>5
<1>7. /\ fname'[f] = IF pc[t] = "update" THEN "gz" ELSE fname[f]
      /\ pc[t] # "rename" => gz'[f] = gz[f]
      /\ f \in raw' <=> f \in raw /\ pc[t] # "remove"
  BY <1>2, <1>3, <1>5
<1>8. ASSUME NEW u \in Workers \ {t}, pc[u] \in CompressLabels PROVE entry[u] \in Files \ {f}
  BY <1>1, <1>2, <1>8, OwnFile, OwnFileExists
<1>9. MoreTypes'
  BY <1>2, <1>3, <1>5 DEF Placed, MoreTypes
<1>10. Handed'
  <2>1. pc'["compressor"] \in CompressLabels \cup {"taken"} => pc["compressor"] \in CompressLabels \cup {"taken"}
    BY <1>2 DEF Workers
  <2> QED BY <1>2, <2>1 DEF Placed, Handed
<1>11. pc["rotator"] \in {"cancel queued", "cancel compressing", "unlink"} <=>
         pc'["rotator"] \in {"cancel queued", "cancel compressing", "unlink"}
  BY <1>2 DEF Workers, CompressLabels
<1>12. Listing' /\ Listed' = Listed
  <2>1. pc'["rotator"] \in {"cancel compressing", "unlink"} => pc["rotator"] \in {"cancel compressing", "unlink"}
    BY <1>2 DEF Workers, CompressLabels
  <2> QED BY <1>2, <1>11, <2>1 DEF Placed, Listing, Retaining, Listed, Rest, Surplus
<1>13. AsRotated'
  <2>1. \A g \in Elements(queue_) \cup Elements(batch) : fname'[g] = "raw"
    <3>1. f \notin Elements(queue_) \cup Elements(batch)
      <4>1. CASE t = "rotator"
        BY <1>1, <1>2, <4>1 DEF Inv, Fresh
      <4>2. CASE t = "compressor"
        BY <1>1, <1>2, <4>2 DEF Placed, Handed
      <4> QED BY <4>1, <4>2 DEF Workers
    <3>2. \A g \in Elements(queue_) \cup Elements(batch) : g \in Files
      <4>1. Elements(queue_) \subseteq 1 .. rotated /\ Elements(batch) \subseteq 1 .. rotated
        BY ElementsIn DEF Inv, Types
      <4> QED BY <4>1, ListTypes DEF Placed
    <3> QED BY <1>6, <3>1, <3>2 DEF Placed, AsRotated
  <2>2. \A g \in Files : g > rotated => fname'[g] = "raw"
    <3>1. ~(f > rotated)
      BY <1>2 DEF Inv, Types
    <3> QED BY <1>6, <3>1 DEF Placed, AsRotated
  <2>3. pc'["compressor"] \in (CompressLabels \ {"done"}) \cup {"taken"} => fname'[entry["compressor"]] = "raw"
    <3>1. CASE t = "compressor"
      BY <1>1, <1>2, <1>4, <1>7, <3>1 DEF Placed, AsRotated, CompressLabels
    <3>2. CASE t = "rotator"
      <4>1. entry["compressor"] # f
        BY <1>1, <1>2, <3>2 DEF Inv, Fresh
      <4>2. SUFFICES ASSUME pc["compressor"] \in (CompressLabels \ {"done"}) \cup {"taken"}
                     PROVE  fname'[entry["compressor"]] = "raw"
        BY <1>2, <3>2 DEF Workers
      <4>3. entry["compressor"] \in Files
        BY <4>2, CompressionAssumption DEF Inv, Types, Workers, Files, NoEntry
      <4> QED BY <1>6, <4>1, <4>2, <4>3 DEF Placed, AsRotated
    <3> QED BY <3>1, <3>2 DEF Workers
  <2>4. pc'["rotator"] \in (CompressLabels \ {"done"}) \cup {"retain", "cancel queued", "cancel compressing",
                                                             "unlink", "offer", "claim", "push"}
          => fname'[entry["rotator"]] = "raw"
    <3>1. CASE t = "rotator"
      BY <1>1, <1>2, <1>4, <1>7, <3>1 DEF Placed, AsRotated, CompressLabels
    <3>2. CASE t = "compressor"
      <4>1. SUFFICES ASSUME pc["rotator"] \in (CompressLabels \ {"done"}) \cup {"retain", "cancel queued",
                              "cancel compressing", "unlink", "offer", "claim", "push"}
                     PROVE  fname'[entry["rotator"]] = "raw"
        BY <1>2, <3>2 DEF Workers
      <4>2. entry["rotator"] # f
        BY <1>1, <3>2, <4>1 DEF Inv, Fresh
      <4>3. entry["rotator"] \in Files
        BY <4>1, FreshFile
      <4> QED BY <1>6, <4>1, <4>2, <4>3 DEF Placed, AsRotated
    <3> QED BY <3>1, <3>2 DEF Workers
  <2> QED BY <1>2, <2>1, <2>2, <2>3, <2>4 DEF AsRotated
<1>14. Raws'
  <2>1. raw' \subseteq Listed'
    BY <1>3, <1>12 DEF Placed, Raws
  <2>2. \A g \in raw' : fname'[g] = "raw"
    <3>1. pc[t] = "update" => f \notin raw
      BY <1>1 DEF Placed, Raws
    <3>2. raw' \subseteq Files
      BY <1>3, CompressionAssumption DEF Inv, Types, Files
    <3> QED BY <1>6, <1>7, <3>1, <3>2 DEF Placed, Raws
  <2>3. ASSUME NEW u \in Workers, pc'[u] \in {"update", "done"} PROVE entry[u] \notin raw'
    <3>1. CASE u = t
      BY <1>1, <1>4, <1>7, <2>3, <3>1 DEF Placed, Raws
    <3>2. CASE u # t
      BY <1>2, <1>3, <2>3, <3>2 DEF Placed, Raws
    <3> QED BY <3>1, <3>2
  <2> QED BY <1>2, <2>1, <2>2, <2>3 DEF Raws
<1>15. Named'
  <2>1. \A g \in Files \ {f} : Renaming(g) => Renaming(g)'
    <3> SUFFICES ASSUME NEW g \in Files \ {f}, NEW u \in Workers, pc[u] = "update", entry[u] = g
                 PROVE  Renaming(g)'
      BY DEF Renaming
    <3>1. u # t
      BY <1>1
    <3> QED BY <1>2, <3>1 DEF Renaming
  <2>2. Renaming(f) <=> pc[t] = "update"
    <3>1. ASSUME NEW u \in Workers, pc[u] = "update", entry[u] = f PROVE u = t
      BY <1>8, <3>1 DEF CompressLabels
    <3> QED BY <1>1, <3>1 DEF Renaming
  <2>3. pc'[t] = "update" => Renaming(f)'
    BY <1>1, <1>2 DEF Renaming
  <2>4. ASSUME NEW g \in Listed
        PROVE  IF fname'[g] = "raw" THEN g \in raw' \/ (Renaming(g)' /\ gz'[g] = "complete")
               ELSE gz'[g] = "complete"
    <3>1. IF fname[g] = "raw" THEN g \in raw \/ (Renaming(g) /\ gz[g] = "complete")
          ELSE gz[g] = "complete"
      BY DEF Placed, Named
    <3>2. CASE g = f
      <4>1. CASE pc[t] = "rename"
        <5>1. fname[f] = "raw" /\ fname'[f] = "raw"
          BY <1>1, <1>7, <4>1 DEF Placed, AsRotated, CompressLabels, Workers
        <5>2. f \in raw'
          BY <1>7, <2>2, <3>1, <3>2, <4>1, <5>1
        <5> QED BY <3>2, <5>1, <5>2
      <4>2. CASE pc[t] = "remove"
        <5>1. gz[f] = "complete" /\ gz'[f] = "complete" /\ Renaming(f)'
          BY <1>1, <1>4, <1>7, <2>3, <3>2, <4>2 DEF Placed, Named
        <5> QED BY <3>2, <5>1
      <4>3. CASE pc[t] = "update"
        <5>1. f \notin raw /\ fname'[f] = "gz" /\ gz'[f] = gz[f]
          BY <1>1, <1>7, <4>3 DEF Placed, Raws
        <5> QED BY <3>1, <3>2, <5>1
      <4>4. CASE pc[t] \notin {"rename", "remove", "update"}
        BY <1>7, <2>2, <3>1, <3>2, <4>4
      <4> QED BY <4>1, <4>2, <4>3, <4>4
    <3>3. CASE g # f
      <4>1. g \in Files \ {f}
        <5>1. g \in Files
          BY ListTypes DEF Placed
        <5> QED BY <3>3, <5>1
      <4> QED BY <1>6, <2>1, <3>1, <4>1
    <3> QED BY <3>2, <3>3
  <2>5. ASSUME NEW u \in Workers, pc'[u] = "remove", entry[u] \in Listed PROVE gz'[entry[u]] = "complete"
    <3>1. CASE u = t
      BY <1>1, <1>4, <2>5, <3>1
    <3>2. CASE u # t
      <4>1. pc[u] = "remove" /\ gz[entry[u]] = "complete"
        BY <1>2, <2>5, <3>2 DEF Placed, Named
      <4> QED BY <1>6, <1>8, <3>2, <4>1 DEF CompressLabels
    <3> QED BY <3>1, <3>2
  <2> QED BY <1>2, <1>12, <2>4, <2>5 DEF Named
<1>16. Tidy'
  <2> SUFFICES ASSUME NEW u \in Workers, pc'[u] \in {"stat", "source", "remove", "update", "done"}
               PROVE  pending'[entry[u]] = "none"
    BY <1>2 DEF Tidy
  <2>1. CASE u = t
    BY <1>1, <1>4, <2>1
  <2>2. CASE u # t
    <3>1. pc[u] = pc'[u] /\ pending[entry[u]] = "none"
      BY <1>2, <2>2 DEF Placed, Tidy
    <3> QED BY <1>6, <1>8, <2>2, <3>1 DEF CompressLabels
  <2> QED BY <2>1, <2>2
<1>17. PendingCleaned'
  <2> SUFFICES ASSUME NEW g \in Files, pending'[g] # "none" PROVE Busy(g)'
    BY DEF PendingCleaned
  <2>1. CASE g = f
    <3>1. pc'[t] \in CompressLabels
      BY <1>2, <1>4, <2>1 DEF CompressLabels
    <3> QED BY <1>1, <1>2, <2>1, <3>1 DEF Busy, Compressing, CompressLabels
  <2>2. CASE g # f
    <3>1. PICK u \in Workers : Compressing(u, g)
      BY <1>6, <2>2 DEF Placed, PendingCleaned, Busy
    <3>2. u # t /\ Compressing(u, g)'
      BY <1>1, <1>2, <2>2, <3>1 DEF Compressing
    <3> QED BY <3>2 DEF Busy
  <2> QED BY <2>1, <2>2
<1> QED BY <1>9, <1>10, <1>12, <1>13, <1>14, <1>15, <1>16, <1>17 DEF Placed

-----------------------------------------------------------------------------
(* The list: add_to_cache, retention, emergency cleanup                      *)

(* A step of the rotator outside compress_file_sync.                         *)
LEMMA RotatorSteady ==
    ASSUME Inv, pc["rotator"] \notin CompressLabels, pc'["rotator"] \notin CompressLabels \ {"compress"},
           pc'["compressor"] = pc["compressor"], entry'["compressor"] = entry["compressor"]
    PROVE  Steady
  BY DEF Steady, Workers

LEMMA AddToCachePlaces == ASSUME Inv, Placed, AddToCache
                          PROVE  Placed'
<1> DEFINE x == rotated + 1
<1>1. /\ pc["rotator"] = "idle" /\ pc'["rotator"] = "retain" /\ pc'["compressor"] = pc["compressor"]
      /\ entry'["rotator"] = x /\ entry'["compressor"] = entry["compressor"]
      /\ cache_mutex_ = "free" /\ rotated' = x /\ raw' = raw \cup {x} /\ cache' = Append(cache, x)
  BY DEF AddToCache, Goto, Work, Inv, Types, Threads, Workers
<1>2. UNCHANGED <<gz, pending, comp_state, fname, cache_mutex_, queue_, nulls, size, victims, batch, dropped>>
  BY DEF AddToCache, outsideRotator
<1>3. /\ rotated \in Nat /\ x \in Nat /\ x \in Files /\ 1 .. rotated \subseteq 1 .. x /\ x \in 1 .. x /\ x \notin 1 .. rotated
      /\ x > rotated
  BY CompressionAssumption DEF AddToCache, Inv, Types, Files
<1> HIDE DEF x
<1>4. cache \in Seq(1 .. x) /\ victims \in Seq(1 .. x) /\ x \notin Elements(cache)
      /\ x \notin Elements(queue_) /\ x \notin Elements(batch)
  <2>1. cache \in Seq(1 .. rotated) /\ victims \in Seq(1 .. rotated) /\ queue_ \in Seq(1 .. rotated)
        /\ batch \in Seq(1 .. rotated)
    BY DEF Placed, MoreTypes, Inv, Types
  <2> QED BY <1>3, <2>1, WiderSeq DEF x
<1>5. Distinct(cache) /\ Distinct(cache') /\ cache' \in Seq(1 .. x) /\ Elements(cache') = Elements(cache) \cup {x}
  <2>1. Distinct(cache)
    BY DEF Placed, Listing
  <2>2. PICK c : c = cache
    OBVIOUS
  <2>3. PICK S : S = 1 .. x
    OBVIOUS
  <2>4. c \in Seq(S) /\ x \in S /\ Distinct(c) /\ x \notin Elements(c)
    BY <1>3, <1>4, <2>1, <2>2, <2>3
  <2>5. Append(c, x) \in Seq(S) /\ Elements(Append(c, x)) = Elements(c) \cup {x} /\ Distinct(Append(c, x))
    BY ONLY <2>4, Appended, AppendDistinct
  <2> QED BY <1>1, <2>1, <2>2, <2>3, <2>5
<1>6. MoreTypes'
  BY <1>1, <1>2, <1>4, <1>5 DEF Placed, MoreTypes
<1>7. Handed'
  BY <1>1, <1>2 DEF Placed, Handed
<1>8. Listing'
  BY <1>1, <1>2, <1>5 DEF Listing, Retaining
<1>9. AsRotated'
  <2>1. fname[x] = "raw"
    BY <1>3 DEF Placed, AsRotated
  <2>2. \A f \in Files : f > x => f > rotated
    BY <1>3 DEF x, Files
  <2> QED BY <1>1, <1>2, <2>1, <2>2 DEF Placed, AsRotated
<1>10. Listed' = Listed \cup {x} /\ Listed = Elements(cache)
  BY <1>1, <1>2, <1>5 DEF Listed
<1>11. Steady
  BY <1>1, RotatorSteady DEF CompressLabels
<1>12. Tidy' /\ PendingCleaned'
  BY <1>2, <1>11, PendingStays DEF Placed
<1>13. Raws'
  <2>1. fname[x] = "raw"
    BY <1>3 DEF Placed, AsRotated
  <2>2. ASSUME NEW t \in Workers, pc'[t] \in {"update", "done"} PROVE entry'[t] \notin raw'
    <3>1. pc[t] = pc'[t] /\ entry'[t] = entry[t] /\ entry[t] \notin raw
      BY <1>11, <2>2 DEF Placed, Raws, Steady, CompressLabels
    <3>2. entry[t] \in 1 .. rotated
      BY <2>2, <3>1, OwnFileExists DEF CompressLabels
    <3> QED BY <1>1, <1>3, <3>1, <3>2
  <2> QED BY <1>1, <1>2, <1>10, <2>1, <2>2 DEF Placed, Raws
<1>14. Named'
  <2>1. ASSUME NEW f \in Listed'
        PROVE  IF fname[f] = "raw" THEN f \in raw' \/ (Renaming(f)' /\ gz[f] = "complete")
               ELSE gz[f] = "complete"
    <3>1. CASE f = x
      <4>1. fname[x] = "raw"
        BY <1>3 DEF Placed, AsRotated
      <4> QED BY <1>1, <3>1, <4>1
    <3>2. CASE f \in Listed
      BY <1>1, <1>11, <3>2, RenamingStays DEF Placed, Named
    <3> QED BY <1>10, <3>1, <3>2
  <2>2. ASSUME NEW t \in Workers, pc'[t] = "remove", entry'[t] \in Listed' PROVE gz[entry'[t]] = "complete"
    <3>1. pc[t] = "remove" /\ entry'[t] = entry[t]
      BY <1>11, <2>2 DEF Steady, CompressLabels
    <3>2. entry[t] # x
      BY <1>3, <3>1, OwnFileExists DEF CompressLabels
    <3> QED BY <1>10, <2>2, <3>1, <3>2 DEF Placed, Named
  <2> QED BY <1>2, <2>1, <2>2 DEF Named
<1> QED BY <1>6, <1>7, <1>8, <1>9, <1>12, <1>13, <1>14 DEF Placed

(* What the rotator keeps of the rest while it goes through its list.        *)
LEMMA ListPlaces ==
    ASSUME Inv, Placed, pc'["compressor"] = pc["compressor"], pc["rotator"] \notin CompressLabels,
           UNCHANGED <<fname, entry, queue_, nulls, size, batch, rotated>>,
           pc'["rotator"] \in {"retain", "cancel queued", "cancel compressing", "unlink", "offer", "claim", "push"}
                              \cup (CompressLabels \ {"done"})
             => pc["rotator"] \in {"retain", "cancel queued", "cancel compressing", "unlink", "offer", "claim"}
    PROVE  Handed' /\ AsRotated'
<1>1. Handed'
  BY DEF Placed, Handed
<1>2. AsRotated'
  BY DEF Placed, AsRotated
<1> QED BY <1>1, <1>2

(* Retention divides the list in two.                                        *)
LEMMA CacheSplit ==
    ASSUME Inv, Placed
    PROVE  /\ Surplus \in Seq(1 .. rotated) /\ Distinct(Surplus) /\ Rest \in Seq(1 .. rotated) /\ Distinct(Rest)
           /\ Elements(cache) = Elements(Surplus) \cup Elements(Rest) /\ Elements(Surplus) \cap Elements(Rest) = {}
<1>1. PICK a : a = Surplus
  OBVIOUS
<1>2. PICK b : b = Rest
  OBVIOUS
<1>3. PICK s : s = cache
  OBVIOUS
<1>4. PICK S : S = 1 .. rotated
  OBVIOUS
<1>5. PICK n : n = Len(cache) - KeepFiles
  OBVIOUS
<1>6. s \in Seq(S) /\ Distinct(s) /\ n \in Int /\ n <= Len(s) /\ a = SubSeq(s, 1, n) /\ b = SubSeq(s, Len(a) + 1, Len(s))
  BY <1>1, <1>2, <1>3, <1>4, <1>5, ListTypes DEF Placed, MoreTypes, Listing, Surplus, Rest
<1>7. a \in Seq(S) /\ b \in Seq(S) /\ Split(s, a, b)
  BY ONLY <1>6, SplitDistinct
<1> QED BY <1>1, <1>2, <1>3, <1>4, <1>7 DEF Split

LEMMA LockPlaces == ASSUME Inv, Placed, LockForRetention
                    PROVE  Placed'
<1>1. /\ pc["rotator"] = "retain" /\ pc'["rotator"] = "cancel queued" /\ pc'["compressor"] = pc["compressor"]
      /\ cache_mutex_ = "free" /\ cache_mutex_' = "rotator" /\ victims' = Surplus
  BY DEF LockForRetention, Goto, Inv, Types, Threads
<1>2. UNCHANGED <<raw, gz, pending, cache, comp_state, fname, queue_, nulls, size, entry, batch, rotated, dropped>>
  BY DEF LockForRetention, outsideRotator
<1>3. /\ Surplus \in Seq(1 .. rotated) /\ Distinct(Surplus) /\ Distinct(cache)
      /\ Elements(cache) = Elements(Surplus) \cup Elements(Rest) /\ Elements(Surplus) \cap Elements(Rest) = {}
  BY CacheSplit DEF Placed, Listing
<1>4. Rest' = Rest /\ Listed' = Listed
  BY <1>1, <1>2, <1>3 DEF Rest, Surplus, Listed
<1>5. MoreTypes' /\ Listing'
  BY <1>1, <1>2, <1>3, <1>4 DEF Placed, MoreTypes, Listing, Retaining
<1>6. Handed' /\ AsRotated'
  BY <1>1, <1>2, ListPlaces DEF CompressLabels
<1>7. Steady
  BY <1>1, <1>2, RotatorSteady DEF CompressLabels
<1> QED BY <1>2, <1>4, <1>5, <1>6, <1>7, RelistKeeps DEF Placed, disk

LEMMA CancelPlaces == ASSUME Inv, Placed, CancelQueued \/ CancelCompressing
                      PROVE  Placed'
<1>1. /\ pc["rotator"] \in {"cancel queued", "cancel compressing"} /\ pc'["compressor"] = pc["compressor"]
      /\ pc'["rotator"] \in {"cancel compressing", "unlink"} /\ victims # <<>>
  BY DEF CancelQueued, CancelCompressing, Goto, Inv, Types, Threads, Placed, Listing
<1>2. UNCHANGED <<raw, gz, pending, cache, fname, cache_mutex_, queue_, nulls, size, entry, victims, batch, rotated>>
  BY DEF CancelQueued, CancelCompressing, outsideRotator
<1>3. Victim \in Files
  BY <1>1, HeadTaken, ListTypes DEF Placed, MoreTypes, Victim
<1>4. comp_state' \in [Files -> {"idle", "queued", "compressing", "done", "cancelled"}] /\ dropped' \subseteq Files
  BY <1>3 DEF CancelQueued, CancelCompressing, SetState, Placed, MoreTypes
<1>5. Rest' = Rest /\ Listed' = Listed
  BY <1>2 DEF Rest, Surplus, Listed
<1>6. MoreTypes' /\ Listing'
  BY <1>1, <1>2, <1>4, <1>5 DEF Placed, MoreTypes, Listing, Retaining
<1>7. Handed' /\ AsRotated'
  BY <1>1, <1>2, ListPlaces DEF CompressLabels
<1>8. Steady
  BY <1>1, <1>2, RotatorSteady DEF CompressLabels
<1> QED BY <1>2, <1>5, <1>6, <1>7, <1>8, RelistKeeps DEF Placed, disk

LEMMA UnlinkPlaces == ASSUME Inv, Placed, UnlinkVictim
                      PROVE  Placed'
<1>1. /\ pc["rotator"] = "unlink" /\ pc'["rotator"] = "cancel queued" /\ pc'["compressor"] = pc["compressor"]
      /\ UnlinkEntry(Victim) /\ victims' = Tail(victims) /\ victims # <<>>
  BY DEF UnlinkVictim, Goto, Inv, Types, Threads, Placed, Listing
<1>2. UNCHANGED <<pending, cache, comp_state, fname, cache_mutex_, queue_, nulls, size, entry, batch, rotated, dropped>>
  BY DEF UnlinkVictim, cacheVars, queueVars, bounds
<1>3. Victim \in Files /\ victims' \in Seq(1 .. rotated)
  BY <1>1, HeadTaken, ListTypes DEF Placed, MoreTypes, Victim
<1>4. /\ cache_mutex_ = "rotator" /\ Distinct(cache) /\ Distinct(victims) /\ Elements(victims) \cap Elements(Rest) = {}
  BY <1>1 DEF Placed, Listing, Retaining
<1>5. /\ Distinct(victims') /\ Victim \notin Elements(victims') /\ Elements(victims) = {Victim} \cup Elements(victims')
  <2>1. victims \in Seq(1 .. rotated)
    BY DEF Placed, MoreTypes
  <2> QED BY <1>1, <1>4, <2>1, TailDistinct DEF Victim
<1>6. Rest' = Rest /\ Listed' = Listed \ {Victim}
  <2>1. Rest' = Rest
    BY <1>2 DEF Rest, Surplus
  <2> QED BY <1>2, <1>4, <1>5, <2>1 DEF Listed
<1>7. MoreTypes'
  BY <1>2, <1>3 DEF Placed, MoreTypes
<1>8. Listing'
  BY <1>1, <1>2, <1>4, <1>5, <1>6 DEF Listing, Retaining
<1>9. Handed' /\ AsRotated'
  BY <1>1, <1>2, ListPlaces DEF CompressLabels
<1>10. Steady
  BY <1>1, <1>2, RotatorSteady DEF CompressLabels
<1>11. Listed \subseteq Files
  BY ListTypes DEF Placed
<1> QED BY <1>1, <1>2, <1>3, <1>6, <1>7, <1>8, <1>9, <1>10, <1>11, ForgetKeeps DEF Placed

LEMMA ErasePlaces == ASSUME Inv, Placed, EraseVictims
                     PROVE  Placed'
<1>1. /\ pc["rotator"] = "cancel queued" /\ pc'["rotator"] \in {"offer", "compress"}
      /\ pc'["compressor"] = pc["compressor"] /\ victims = <<>> /\ cache' = Rest /\ cache_mutex_' = "free"
  BY DEF EraseVictims, Goto, Inv, Types, Threads, Rest
<1>2. UNCHANGED <<raw, gz, pending, comp_state, fname, queue_, nulls, size, entry, victims, batch, rotated, dropped>>
  BY DEF EraseVictims, outsideRotator
<1>3. Rest \in Seq(1 .. rotated) /\ Distinct(Rest)
  BY CacheSplit
<1>4. Listed' = Listed
  <2>1. cache_mutex_ = "rotator" /\ Elements(victims) = {}
    BY <1>1, FewElements DEF Placed, Listing, Retaining
  <2> QED BY <1>1, <2>1 DEF Listed
<1>5. MoreTypes' /\ Listing'
  BY <1>1, <1>2, <1>3 DEF Placed, MoreTypes, Listing, Retaining
<1>6. Handed' /\ AsRotated'
  BY <1>1, <1>2, ListPlaces DEF CompressLabels
<1>7. Steady
  BY <1>1, <1>2, RotatorSteady DEF CompressLabels
<1> QED BY <1>2, <1>4, <1>5, <1>6, <1>7, RelistKeeps DEF Placed, disk

(* Natural numbers are well-founded: this stands in for induction.           *)
LEMMA NatMin == ASSUME NEW T \in SUBSET Nat, T # {}
                PROVE  \E x \in T : \A y \in T : x <= y
<1> DEFINE Less == {p \in Nat \X Nat : p[1] < p[2]}
<1>1. IsWellFoundedOn(Less, Nat)
  BY NatLessThanWellFounded DEF OpToRel
<1> HIDE DEF Less
<1>2. PICK x \in T : \A y \in T : <<y, x>> \notin Less
  BY <1>1, WFMin
<1>3. ASSUME NEW y \in T PROVE x <= y
  <2>1. <<y, x>> \in Less <=> y < x
    BY DEF Less
  <2> QED BY <2>1, <1>2
<1> QED BY <1>3

(* Emergency cleanup takes an entry of the list.                             *)
LEMMA EmergencyInList == ASSUME Inv, MoreTypes, cache # <<>>
                         PROVE  EmergencyVictim \in 1 .. Len(cache)
<1> DEFINE C == {i \in DOMAIN cache : fname[cache[i]] = "gz"}
<1>1. DOMAIN cache = 1 .. Len(cache) /\ Len(cache) \in Nat \ {0}
  BY DEF MoreTypes
<1>2. CASE C = {}
  BY <1>1, <1>2 DEF EmergencyVictim
<1>3. CASE C # {}
  <2>1. C \in SUBSET Nat
    BY <1>1
  <2>4. \E i \in C : \A j \in C : i <= j
    BY <1>3, <2>1, NatMin
  <2>5. (CHOOSE i \in C : \A j \in C : i <= j) \in C
    BY <2>4
  <2> QED BY <1>1, <1>3, <2>5 DEF EmergencyVictim
<1> QED BY <1>2, <1>3

LEMMA EmergencyPlaces == ASSUME Inv, Placed, EmergencyCleanup
                         PROVE  Placed'
<1>1. PICK k : k = EmergencyVictim
  OBVIOUS
<1>2. PICK v : v = cache[k]
  OBVIOUS
<1>3. /\ pc["rotator"] = "spare" /\ pc'["rotator"] = "idle" /\ pc'["compressor"] = pc["compressor"]
      /\ UnlinkEntry(v) /\ cache' = RemoveAt(cache, k) /\ cache # <<>> /\ cache_mutex_ = "free"
      /\ dropped' = dropped \cup {v}
  BY <1>1, <1>2 DEF EmergencyCleanup, Goto, Inv, Types, Threads
<1>4. UNCHANGED <<pending, comp_state, fname, cache_mutex_, queue_, nulls, size, entry, victims, batch, rotated>>
  BY DEF EmergencyCleanup, queueVars
<1>5. /\ cache' \in Seq(1 .. rotated) /\ Distinct(cache') /\ v \in Elements(cache)
      /\ Elements(cache') = Elements(cache) \ {v}
  <2>1. PICK c : c = cache
    OBVIOUS
  <2>2. PICK S : S = 1 .. rotated
    OBVIOUS
  <2>3. PICK r : r = RemoveAt(c, k)
    OBVIOUS
  <2>4. c \in Seq(S) /\ Distinct(c) /\ k \in 1 .. Len(c) /\ v = c[k]
    BY <1>1, <1>2, <1>3, <2>1, <2>2, EmergencyInList DEF Placed, MoreTypes, Listing
  <2>5. r \in Seq(S) /\ Distinct(r) /\ v \in Elements(c)
    BY ONLY <2>3, <2>4, RemoveDistinct
  <2>6. Elements(r) = Elements(c) \ {v}
    BY ONLY <2>3, <2>4, RemoveDistinct
  <2> QED BY <1>3, <2>1, <2>2, <2>3, <2>5, <2>6
<1>6. Listed = Elements(cache) /\ Listed' = Listed \ {v}
  BY <1>3, <1>4, <1>5 DEF Listed
<1>7. Listed \subseteq Files /\ v \in Files
  BY <1>5, <1>6, ListTypes DEF Placed
<1>8. MoreTypes'
  BY <1>3, <1>4, <1>5, <1>7 DEF Placed, MoreTypes
<1>9. Listing'
  BY <1>3, <1>4, <1>5 DEF Listing, Retaining
<1>10. Handed' /\ AsRotated'
  BY <1>3, <1>4, ListPlaces DEF CompressLabels
<1>11. Steady
  BY <1>3, <1>4, RotatorSteady DEF CompressLabels
<1> QED BY <1>3, <1>4, <1>6, <1>7, <1>8, <1>9, <1>10, <1>11, ForgetKeeps DEF Placed

-----------------------------------------------------------------------------
(* The queue: enqueue_for_compression and the compression thread             *)

LEMMA OfferPlaces == ASSUME Inv, Placed, CheckQueueSize \/ ClaimEntry \/ CountEntry \/ PrepareNextFd
                     PROVE  Placed'
<1>1. /\ pc["rotator"] \in {"offer", "claim", "count", "spare"} /\ pc'["compressor"] = pc["compressor"]
      /\ pc'["rotator"] \in {"spare", "claim", "push", "idle"}
      /\ pc'["rotator"] \in {"claim", "push"} => pc["rotator"] \in {"offer", "claim"}
  BY DEF CheckQueueSize, ClaimEntry, CountEntry, PrepareNextFd, Goto, Inv, Types, Threads
<1>2. UNCHANGED <<disk, cache, fname, cache_mutex_, queue_, nulls, entry, victims, batch, rotated, dropped>>
  BY DEF CheckQueueSize, ClaimEntry, CountEntry, PrepareNextFd, cacheVars, queueVars, bounds
<1>3. /\ comp_state' \in [Files -> {"idle", "queued", "compressing", "done", "cancelled"}]
      /\ size' \in 0 .. SizeWrap - 1
  <2>1. size \in 0 .. SizeWrap - 1 /\ SizeWrap \in Nat \ {0}
    BY CompressionAssumption DEF Placed, MoreTypes
  <2>2. (size + 1) % SizeWrap \in 0 .. SizeWrap - 1
    BY <2>1
  <2>3. comp_state \in [Files -> {"idle", "queued", "compressing", "done", "cancelled"}]
    BY DEF Placed, MoreTypes
  <2>4. size' \in 0 .. SizeWrap - 1
    BY <2>1, <2>2 DEF CheckQueueSize, ClaimEntry, CountEntry, PrepareNextFd, queueVars
  <2>5. comp_state' \in [Files -> {"idle", "queued", "compressing", "done", "cancelled"}]
    BY <2>3 DEF CheckQueueSize, ClaimEntry, CountEntry, PrepareNextFd, cacheVars, SetState
  <2> QED BY <2>4, <2>5
<1>4. Listed' = Listed
  BY <1>2 DEF Listed, Rest, Surplus
<1>5. MoreTypes'
  BY <1>2, <1>3 DEF Placed, MoreTypes
<1>6. Listing'
  BY <1>1, <1>2 DEF Placed, Listing, Retaining
<1>7. Handed' /\ AsRotated'
  <2>1. Handed'
    BY <1>1, <1>2 DEF Placed, Handed
  <2>2. AsRotated'
    BY <1>1, <1>2 DEF Placed, AsRotated, CompressLabels
  <2> QED BY <2>1, <2>2
<1>8. Steady
  BY <1>1, <1>2, RotatorSteady DEF CompressLabels
<1> QED BY <1>2, <1>4, <1>5, <1>6, <1>7, <1>8, RelistKeeps DEF Placed

LEMMA PushPlaces == ASSUME Inv, Placed, PushEntry
                    PROVE  Placed'
<1>1. PICK x : x = entry["rotator"]
  OBVIOUS
<1>2. /\ pc["rotator"] = "push" /\ pc'["rotator"] = "count" /\ pc'["compressor"] = pc["compressor"]
      /\ queue_' = Append(queue_, x)
  BY <1>1 DEF PushEntry, Goto, Inv, Types, Threads
<1>3. UNCHANGED <<disk, cache, comp_state, fname, cache_mutex_, nulls, size, entry, victims, batch, rotated, dropped>>
  BY DEF PushEntry, cacheVars, bounds
<1>4. x \in 1 .. rotated /\ x \notin Elements(queue_) \cup Elements(batch) \cup {entry["compressor"]}
  BY <1>1, <1>2, FreshFile DEF Inv, Fresh
<1>5. Distinct(queue_') /\ Elements(queue_') = Elements(queue_) \cup {x}
  <2>1. PICK q : q = queue_
    OBVIOUS
  <2>2. PICK S : S = 1 .. rotated
    OBVIOUS
  <2>3. q \in Seq(S) /\ x \in S /\ Distinct(q) /\ x \notin Elements(q)
    BY <1>4, <2>1, <2>2 DEF Inv, Types, Placed, Handed
  <2>4. Elements(Append(q, x)) = Elements(q) \cup {x} /\ Distinct(Append(q, x))
    BY ONLY <2>3, Appended, AppendDistinct
  <2> QED BY <1>2, <2>1, <2>4
<1>6. Listed' = Listed
  BY <1>3 DEF Listed, Rest, Surplus
<1>7. MoreTypes'
  BY <1>3 DEF Placed, MoreTypes
<1>8. Listing'
  BY <1>2, <1>3 DEF Placed, Listing, Retaining
<1>9. Handed'
  BY <1>2, <1>3, <1>4, <1>5 DEF Placed, Handed
<1>10. AsRotated'
  <2>1. fname[x] = "raw"
    BY <1>1, <1>2 DEF Placed, AsRotated
  <2> QED BY <1>2, <1>3, <1>5, <2>1 DEF Placed, AsRotated, CompressLabels
<1>11. Steady
  BY <1>2, <1>3, RotatorSteady DEF CompressLabels
<1> QED BY <1>3, <1>6, <1>7, <1>8, <1>9, <1>10, <1>11, RelistKeeps DEF Placed

(* The compression thread moves entries towards itself.                      *)
LEMMA ThreadPlaces ==
    ASSUME Inv, Placed, pc["compressor"] \notin CompressLabels, pc'["compressor"] \notin CompressLabels \ {"compress"},
           pc'["rotator"] = pc["rotator"], entry'["rotator"] = entry["rotator"],
           UNCHANGED <<disk, cache, fname, cache_mutex_, victims, rotated, dropped>>,
           comp_state' \in [Files -> {"idle", "queued", "compressing", "done", "cancelled"}],
           Len(batch') <= MaxBatch, nulls' \in Nat, size' \in 0 .. SizeWrap - 1, Handed',
           Elements(queue_') \cup Elements(batch')
             \cup (IF pc'["compressor"] \in {"taken", "compress"} THEN {entry'["compressor"]} ELSE {})
             \subseteq Elements(queue_) \cup Elements(batch)
                         \cup (IF pc["compressor"] = "taken" THEN {entry["compressor"]} ELSE {})
    PROVE  Placed'
<1>1. Listed' = Listed
  BY DEF Listed, Rest, Surplus
<1>2. MoreTypes'
  BY DEF Placed, MoreTypes
<1>3. Listing'
  BY DEF Placed, Listing, Retaining, Rest, Surplus
<1>4. AsRotated'
  BY DEF Placed, AsRotated, CompressLabels
<1>5. Steady
  BY DEF Steady, Workers
<1> QED BY <1>1, <1>2, <1>3, <1>4, <1>5, RelistKeeps DEF Placed

LEMMA SizeDown == ASSUME Placed PROVE (size - 1) % SizeWrap \in 0 .. SizeWrap - 1
<1>1. size \in 0 .. SizeWrap - 1 /\ SizeWrap \in Nat \ {0}
  BY CompressionAssumption DEF Placed, MoreTypes
<1> QED BY <1>1

(* The first entry of the queue.                                             *)
LEMMA QueueHead == ASSUME Inv, Placed, queue_ # <<>>, NEW h, h = Head(queue_), NEW q, q = Tail(queue_)
                   PROVE  /\ h \in 1 .. rotated /\ h \in Files /\ Distinct(q)
                          /\ Elements(queue_) = {h} \cup Elements(q)
                          /\ h \notin Elements(q) /\ h \notin Elements(batch)
<1>1. queue_ \in Seq(1 .. rotated) /\ Distinct(queue_) /\ Elements(queue_) \cap Elements(batch) = {}
  BY DEF Inv, Types, Placed, Handed
<1>2. Distinct(q) /\ Elements(queue_) = {h} \cup Elements(q) /\ h \notin Elements(q) /\ h \in 1 .. rotated
  BY <1>1, TailDistinct, HeadTaken
<1> QED BY <1>1, <1>2, ListTypes DEF Placed

LEMMA BatchHead == ASSUME Inv, Placed, batch # <<>>, NEW h, h = Head(batch), NEW b, b = Tail(batch)
                   PROVE  /\ h \in 1 .. rotated /\ h \in Files /\ Distinct(b)
                          /\ Elements(batch) = {h} \cup Elements(b)
                          /\ h \notin Elements(b) /\ h \notin Elements(queue_)
                          /\ Len(b) <= MaxBatch
<1>1. batch \in Seq(1 .. rotated) /\ Distinct(batch) /\ Elements(queue_) \cap Elements(batch) = {}
  BY DEF Inv, Types, Placed, Handed
<1>2. Distinct(b) /\ Elements(batch) = {h} \cup Elements(b) /\ h \notin Elements(b) /\ h \in 1 .. rotated
  BY <1>1, TailDistinct, HeadTaken
<1>3. Len(b) <= MaxBatch
  <2>1. Len(batch) \in Nat /\ Len(b) = Len(batch) - 1 /\ Len(batch) <= MaxBatch /\ MaxBatch \in Nat
    BY <1>1, CompressionAssumption DEF Placed, MoreTypes
  <2> QED BY <2>1
<1> QED BY <1>1, <1>2, <1>3, ListTypes DEF Placed

LEMMA LoopPlaces == ASSUME Inv, Placed, LoopWhileRunning \/ EndCollection \/ EndBatch \/ EndThread
                    PROVE  Placed'
<1>1. /\ pc["compressor"] \in {"loop", "collect", "process", "drain"}
      /\ pc'["compressor"] \in {"wait", "drain", "process", "loop", "ended"} /\ pc'["rotator"] = pc["rotator"]
      /\ batch' \in {batch, <<>>}
  BY DEF LoopWhileRunning, EndCollection, EndBatch, EndThread, Goto, Inv, Types, Threads
<1>2. UNCHANGED <<disk, cache, comp_state, fname, cache_mutex_, queue_, nulls, size, entry, victims, rotated, dropped>>
  BY DEF LoopWhileRunning, EndCollection, EndBatch, EndThread, outsideThread, queueVars, bounds
<1>3. Distinct(batch') /\ Elements(batch') \subseteq Elements(batch) /\ Len(batch') <= MaxBatch
  <2>1. Len(<<>>) = 0 /\ 0 <= MaxBatch /\ Distinct(<<>>) /\ Elements(<<>>) = {}
    <3>1. MaxBatch \in Nat
      BY CompressionAssumption
    <3> QED BY <3>1, FewElements, EmptyDistinct
  <2> QED BY <1>1, <2>1 DEF Placed, Handed, MoreTypes
<1>4. Handed'
  BY <1>1, <1>2, <1>3 DEF Placed, Handed, CompressLabels
<1> QED BY <1>1, <1>2, <1>3, <1>4, ThreadPlaces DEF CompressLabels, Placed, MoreTypes

LEMMA TakePlaces == ASSUME Inv, Placed, TakeFirst
                    PROVE  Placed'
<1>1. /\ pc["compressor"] = "wait" /\ pc'["rotator"] = pc["rotator"]
      /\ UNCHANGED <<disk, cache, comp_state, fname, cache_mutex_, size, victims, batch, rotated, dropped>>
      /\ nulls' \in Nat
  BY DEF TakeFirst, outsideThread, bounds, Goto, Inv, Types, Threads, Placed, MoreTypes
<1>2. CASE pc'["compressor"] = "loop" /\ UNCHANGED <<queue_, entry>>
  <2>1. Handed'
    BY <1>1, <1>2 DEF Placed, Handed, CompressLabels
  <2> QED BY <1>1, <1>2, <2>1, ThreadPlaces DEF CompressLabels, Placed, MoreTypes
<1>3. CASE queue_ # <<>> /\ Work("compressor", Head(queue_)) /\ queue_' = Tail(queue_) /\ pc'["compressor"] = "taken"
  <2>1. PICK h : h = Head(queue_)
    OBVIOUS
  <2>2. entry'["compressor"] = h /\ entry'["rotator"] = entry["rotator"]
    BY <1>3, <2>1 DEF Work, Inv, Types, Workers
  <2>3. /\ Distinct(queue_') /\ Elements(queue_) = {h} \cup Elements(queue_')
        /\ h \notin Elements(queue_') /\ h \notin Elements(batch)
    BY <1>3, <2>1, QueueHead
  <2>4. Handed'
    BY <1>1, <1>3, <2>2, <2>3 DEF Placed, Handed
  <2> QED BY <1>1, <1>3, <2>2, <2>3, <2>4, ThreadPlaces DEF CompressLabels, Placed, MoreTypes
<1> QED BY <1>2, <1>3 DEF TakeFirst, Goto, Inv, Types, Threads

LEMMA KeepPlaces == ASSUME Inv, Placed, KeepFirst
                    PROVE  Placed'
<1>1. /\ pc["compressor"] = "taken" /\ pc'["compressor"] \in {"collect", "drain"} /\ pc'["rotator"] = pc["rotator"]
      /\ UNCHANGED <<disk, cache, comp_state, fname, cache_mutex_, queue_, nulls, entry, victims, rotated, dropped>>
      /\ batch' \in {batch, <<entry["compressor"]>>} /\ size' \in {size, (size - 1) % SizeWrap}
  BY DEF KeepFirst, outsideThread, bounds, Goto, Inv, Types, Threads
<1>2. PICK x : x = entry["compressor"]
  OBVIOUS
<1>3. /\ Distinct(<<x>>) /\ Len(<<x>>) = 1 /\ 1 <= MaxBatch /\ Elements(<<x>>) = {x}
      /\ x \notin Elements(queue_)
  BY <1>1, <1>2, CompressionAssumption DEF Distinct, Elements, Placed, Handed
<1>4. /\ Distinct(batch') /\ Len(batch') <= MaxBatch /\ Elements(batch') \in {Elements(batch), {x}}
  BY <1>1, <1>2, <1>3 DEF Placed, Handed, MoreTypes
<1>5. Handed'
  BY <1>1, <1>3, <1>4 DEF Placed, Handed, CompressLabels
<1> QED BY <1>1, <1>2, <1>4, <1>5, SizeDown, ThreadPlaces DEF CompressLabels, Placed, MoreTypes

LEMMA CollectPlaces == ASSUME Inv, Placed, CollectMore \/ DrainOne
                       PROVE  Placed'
<1>1. /\ pc["compressor"] \in {"collect", "drain"}
      /\ UNCHANGED <<disk, cache, fname, cache_mutex_, entry, victims, rotated, dropped, pc>>
      /\ nulls' \in Nat /\ size' \in {size, (size - 1) % SizeWrap}
  BY DEF CollectMore, DrainOne, outsideThread, bounds, Placed, MoreTypes
<1>2. CASE UNCHANGED <<queue_, batch, comp_state>>
  <2>1. Handed'
    BY <1>1, <1>2 DEF Placed, Handed, CompressLabels
  <2> QED BY <1>1, <1>2, <2>1, SizeDown, ThreadPlaces DEF CompressLabels, Placed, MoreTypes
<1>3. CASE /\ queue_ # <<>> /\ queue_' = Tail(queue_)
           /\ \/ batch' = batch
              \/ batch' = Append(batch, Head(queue_)) /\ Len(batch) < MaxBatch
           /\ comp_state' \in {comp_state, [comp_state EXCEPT ![Head(queue_)] = "cancelled"]}
  <2>1. PICK h : h = Head(queue_)
    OBVIOUS
  <2>2. /\ Distinct(queue_') /\ Elements(queue_) = {h} \cup Elements(queue_')
        /\ h \notin Elements(queue_') /\ h \notin Elements(batch) /\ h \in 1 .. rotated
    BY <1>3, <2>1, QueueHead
  <2>3. comp_state' \in [Files -> {"idle", "queued", "compressing", "done", "cancelled"}]
    BY <1>3 DEF Placed, MoreTypes
  <2>4. /\ Distinct(batch') /\ Len(batch') <= MaxBatch
        /\ Elements(batch') \in {Elements(batch), Elements(batch) \cup {h}}
    <3>1. CASE batch' = batch
      BY <3>1 DEF Placed, Handed, MoreTypes
    <3>2. CASE batch' = Append(batch, h) /\ Len(batch) < MaxBatch
      <4>1. PICK b : b = batch
        OBVIOUS
      <4>2. PICK S : S = 1 .. rotated
        OBVIOUS
      <4>3. b \in Seq(S) /\ h \in S /\ Distinct(b) /\ h \notin Elements(b) /\ Len(b) < MaxBatch /\ MaxBatch \in Nat
        BY <2>2, <3>2, <4>1, <4>2, CompressionAssumption DEF Inv, Types, Placed, Handed
      <4>4. Elements(Append(b, h)) = Elements(b) \cup {h} /\ Distinct(Append(b, h))
        BY ONLY <4>3, Appended, AppendDistinct
      <4>5. Len(Append(b, h)) <= MaxBatch
        <5>1. Len(Append(b, h)) = Len(b) + 1 /\ Len(b) \in Nat
          BY <4>3
        <5> QED BY <4>3, <5>1
      <4> QED BY <3>2, <4>1, <4>4, <4>5
    <3> QED BY <1>3, <2>1, <3>1, <3>2
  <2>5. Handed'
    BY <1>1, <2>2, <2>4 DEF Placed, Handed, CompressLabels
  <2> QED BY <1>1, <2>2, <2>3, <2>4, <2>5, SizeDown, ThreadPlaces DEF CompressLabels, Placed, MoreTypes
<1> QED BY <1>2, <1>3 DEF CollectMore, DrainOne, outsideThread, SetState

LEMMA ProcessPlaces == ASSUME Inv, Placed, ProcessNext
                       PROVE  Placed'
<1>1. /\ pc["compressor"] = "process" /\ pc'["compressor"] \in {"process", "compress"} /\ pc'["rotator"] = pc["rotator"]
      /\ UNCHANGED <<disk, cache, fname, cache_mutex_, queue_, nulls, size, victims, rotated, dropped>>
      /\ batch # <<>> /\ batch' = Tail(batch)
  BY DEF ProcessNext, outsideThread, queueVars, bounds, Goto, Inv, Types, Threads
<1>2. PICK h : h = Head(batch)
  OBVIOUS
<1>3. entry'["compressor"] = h /\ entry'["rotator"] = entry["rotator"]
  BY <1>2 DEF ProcessNext, Work, Inv, Types, Workers
<1>4. /\ Distinct(batch') /\ Elements(batch) = {h} \cup Elements(batch') /\ Len(batch') <= MaxBatch
      /\ h \notin Elements(batch') /\ h \notin Elements(queue_)
  BY <1>1, <1>2, BatchHead
<1>5. comp_state' \in [Files -> {"idle", "queued", "compressing", "done", "cancelled"}]
  BY DEF ProcessNext, SetState, Placed, MoreTypes
<1>6. Handed'
  BY <1>1, <1>3, <1>4 DEF Placed, Handed
<1> QED BY <1>1, <1>3, <1>4, <1>5, <1>6, ThreadPlaces DEF CompressLabels, Placed, MoreTypes

LEMMA OwnerPlaces == ASSUME Inv, Placed, Joined, StartThread \/ StopRunning \/ OwnerStep
                     PROVE  Placed'
<1>1. /\ pc'["rotator"] = pc["rotator"] /\ pc'["compressor"] \in {pc["compressor"], "loop"}
      /\ UNCHANGED <<disk, cache, comp_state, fname, cache_mutex_, queue_, size, entry, victims, batch, rotated, dropped>>
      /\ nulls' \in Nat
  BY DEF StartThread, StopRunning, OwnerStep, WakeThread, JoinThread, Goto, outsideOwner, cacheVars, Inv, Types, Threads,
         Placed, MoreTypes
<1>2. pc'["compressor"] = pc["compressor"] \/ pc["compressor"] \notin CompressLabels
  BY DEF Joined, CompressLabels, StartThread, StopRunning, OwnerStep, WakeThread, JoinThread, Goto, Inv, Types, Threads
<1>3. Listed' = Listed
  BY <1>1 DEF Listed, Rest, Surplus
<1>4. MoreTypes' /\ Listing'
  BY <1>1 DEF Placed, MoreTypes, Listing, Retaining, Rest, Surplus
<1>5. Handed' /\ AsRotated'
  BY <1>1 DEF Placed, Handed, AsRotated, CompressLabels
<1>6. Steady
  BY <1>1, <1>2 DEF Steady, Workers, CompressLabels
<1> QED BY <1>1, <1>3, <1>4, <1>5, <1>6, RelistKeeps DEF Placed

-----------------------------------------------------------------------------
(* No step disturbs it                                                       *)

LEMMA JoinedStep == ASSUME Inv, Joined, Next
                    PROVE  Joined'
<1>1. DOMAIN pc = Threads
  BY DEF Inv, Types
<1> USE <1>1 DEF Joined, Threads, Goto
<1>2. ASSUME NEW t \in Workers, Compress(t)
      PROVE  pc'["owner"] = pc["owner"] /\ (pc["compressor"] = "ended" => pc'["compressor"] = "ended")
  BY <1>2 DEF Compress, RemoveLeftover, StatSource, OpenSource, Deflate, WriteTrailer, Verdict, Discard, AfterCompress,
              RenamePending, RenamePendingFails, RemoveSource, UpdateEntry, MarkDone, Workers
<1>3. CASE AddToCache
  BY <1>3 DEF AddToCache
<1>4. CASE RotatorStep
  BY <1>2, <1>4 DEF RotatorStep, LockForRetention, CancelQueued, CancelCompressing, UnlinkVictim, EraseVictims,
                    CheckQueueSize, ClaimEntry, PushEntry, CountEntry, PrepareNextFd, EmergencyCleanup, Workers
<1>5. CASE CompressorStep
  BY <1>2, <1>5 DEF CompressorStep, LoopWhileRunning, TakeFirst, KeepFirst, CollectMore, EndCollection, ProcessNext,
                    EndBatch, DrainOne, EndThread, Workers
<1>6. CASE StartThread \/ StopRunning \/ OwnerStep
  BY <1>6 DEF StartThread, StopRunning, OwnerStep, WakeThread, JoinThread
<1> QED BY <1>3, <1>4, <1>5, <1>6 DEF Next

Whereabouts == Inv /\ Placed /\ Joined

LEMMA InitWhereabouts == Init => Whereabouts
<1> SUFFICES ASSUME Init PROVE Whereabouts
  OBVIOUS
<1> USE CompressionAssumption
<1>1. Inv
  BY InitInv
<1>2. Elements(<<>>) = {} /\ Distinct(<<>>) /\ <<>> \in Seq(1 .. rotated) /\ Len(<<>>) = 0
  BY FewElements, EmptyDistinct
<1>3. MoreTypes
  BY <1>2 DEF Init, MoreTypes
<1>4. Handed
  BY <1>2 DEF Init, Handed, CompressLabels, Threads
<1>5. Listing /\ Listed = {}
  BY <1>2 DEF Init, Listing, Listed, Retaining, Threads
<1>6. AsRotated
  BY <1>2 DEF Init, AsRotated, CompressLabels, Threads
<1>7. Raws /\ Named /\ Tidy /\ PendingCleaned /\ Joined
  BY <1>5 DEF Init, Raws, Named, Tidy, PendingCleaned, Joined, Threads, Workers
<1> QED BY <1>1, <1>3, <1>4, <1>5, <1>6, <1>7 DEF Whereabouts, Placed

LEMMA StepPlaces == ASSUME Whereabouts, Next
                    PROVE  Placed'
<1>0. Inv /\ Placed /\ Joined
  BY DEF Whereabouts
<1>1. ASSUME NEW t \in Workers, Compress(t) PROVE Placed'
  BY <1>0, <1>1, CompressPlaces
<1>2. CASE RotatorStep
  <2>1. CASE LockForRetention \/ CancelQueued \/ CancelCompressing \/ UnlinkVictim \/ EraseVictims
    BY <1>0, <2>1, LockPlaces, CancelPlaces, UnlinkPlaces, ErasePlaces
  <2>2. CASE CheckQueueSize \/ ClaimEntry \/ PushEntry \/ CountEntry \/ PrepareNextFd \/ EmergencyCleanup
    BY <1>0, <2>2, OfferPlaces, PushPlaces, EmergencyPlaces
  <2>3. CASE Compress("rotator")
    BY <1>1, <2>3 DEF Workers
  <2> QED BY <1>2, <2>1, <2>2, <2>3 DEF RotatorStep
<1>3. CASE CompressorStep
  <2>1. CASE LoopWhileRunning \/ EndCollection \/ EndBatch \/ EndThread \/ TakeFirst \/ KeepFirst
    BY <1>0, <2>1, LoopPlaces, TakePlaces, KeepPlaces
  <2>2. CASE CollectMore \/ DrainOne \/ ProcessNext
    BY <1>0, <2>2, CollectPlaces, ProcessPlaces
  <2>3. CASE Compress("compressor")
    BY <1>1, <2>3 DEF Workers
  <2> QED BY <1>3, <2>1, <2>2, <2>3 DEF CompressorStep
<1>4. CASE AddToCache
  BY <1>0, <1>4, AddToCachePlaces
<1>5. CASE StartThread \/ StopRunning \/ OwnerStep
  BY <1>0, <1>5, OwnerPlaces
<1> QED BY <1>2, <1>3, <1>4, <1>5 DEF Next

LEMMA StepWhereabouts == Whereabouts /\ [Next]_vars => Whereabouts'
<1> SUFFICES ASSUME Whereabouts, [Next]_vars PROVE Whereabouts'
  OBVIOUS
<1>1. Inv /\ Placed /\ Joined /\ Inv'
  BY StepInv DEF Whereabouts
<1>2. CASE UNCHANGED vars
  <2>1. UNCHANGED <<raw, gz, pending, cache, comp_state, fname, cache_mutex_, queue_, nulls, size, pc, entry, victims,
                    batch, rotated, dropped>>
    BY <1>2 DEF vars, disk, cacheVars, queueVars
  <2>2. Listed' = Listed
    BY <2>1 DEF Listed, Rest, Surplus
  <2>3. MoreTypes' /\ Handed' /\ Listing' /\ AsRotated'
    BY <1>1, <2>1 DEF Placed, MoreTypes, Handed, Listing, Retaining, AsRotated, Rest, Surplus
  <2>4. Steady
    BY <2>1 DEF Steady
  <2>5. Placed'
    BY <1>1, <2>1, <2>2, <2>3, <2>4, RelistKeeps DEF Placed, disk
  <2>6. Joined'
    BY <1>1, <2>1 DEF Joined
  <2> QED BY <1>1, <2>5, <2>6 DEF Whereabouts
<1>3. CASE Next
  <2>1. Placed'
    BY <1>3, StepPlaces
  <2>2. Joined'
    BY <1>1, <1>3, JoinedStep
  <2> QED BY <1>1, <2>1, <2>2 DEF Whereabouts
<1> QED BY <1>2, <1>3

-----------------------------------------------------------------------------
(* What follows from it                                                      *)

LEMMA SeqSubset == ASSUME NEW S, NEW T, S \subseteq T, NEW s \in Seq(S)
                   PROVE  s \in Seq(T)
<1>1. s \in [1 .. Len(s) -> S] /\ Len(s) \in Nat
  OBVIOUS
<1>2. s \in [1 .. Len(s) -> T]
  BY <1>1
<1> QED BY <1>1, <1>2

LEMMA OneOrNone == ASSUME NEW S, \A x, y \in S : x = y
                   PROVE  IF S = {} THEN Cardinality(S) = 0 ELSE Cardinality(S) = 1
<1>1. CASE S = {}
  BY <1>1, FS_EmptySet
<1>2. CASE S # {}
  <2>1. PICK x \in S : TRUE
    BY <1>2
  <2>2. S = {x}
    BY <2>1
  <2> QED BY <1>2, <2>2, FS_Singleton
<1> QED BY <1>1, <1>2

(* An entry's places are the queue, the batch, the compression thread or the *)
(* rotator, and of these it has one.                                         *)
LEMMA WhereaboutsOnePlace == Whereabouts => OnePlace
<1> SUFFICES ASSUME Whereabouts, NEW f \in Files PROVE Places(f) <= 1
  BY DEF OnePlace
<1> DEFINE Q == {i \in DOMAIN queue_ : queue_[i] = f}
           B == {i \in DOMAIN batch : batch[i] = f}
           C == {t \in Workers : Compressing(t, f)}
           p == IF pc["rotator"] = "push" /\ entry["rotator"] = f THEN 1 ELSE 0
           n == IF pc["compressor"] = "taken" /\ entry["compressor"] = f THEN 1 ELSE 0
<1>1. Inv /\ Handed
  BY DEF Whereabouts, Placed
<1>2. DOMAIN queue_ = 1 .. Len(queue_) /\ DOMAIN batch = 1 .. Len(batch)
  BY <1>1 DEF Inv, Types
<1>3. /\ IF Q = {} THEN Cardinality(Q) = 0 ELSE Cardinality(Q) = 1
      /\ Q # {} => f \in Elements(queue_)
  <2>1. \A i, j \in Q : i = j
    BY <1>1, <1>2 DEF Handed, Distinct
  <2> QED BY <1>2, <2>1, OneOrNone DEF Elements
<1>4. /\ IF B = {} THEN Cardinality(B) = 0 ELSE Cardinality(B) = 1
      /\ B # {} => f \in Elements(batch)
  <2>1. \A i, j \in B : i = j
    BY <1>1, <1>2 DEF Handed, Distinct
  <2> QED BY <1>2, <2>1, OneOrNone DEF Elements
<1>5. /\ IF C = {} THEN Cardinality(C) = 0 ELSE Cardinality(C) = 1
      /\ C # {} => Compressing("rotator", f) \/ Compressing("compressor", f)
  <2>1. \A t, u \in C : t = u
    <3> SUFFICES ASSUME NEW t \in C, NEW u \in C, t # u PROVE FALSE
      OBVIOUS
    <3>1. pc[t] \in CompressLabels /\ pc[u] \in CompressLabels /\ entry[t] = f /\ entry[u] = f
      BY DEF Compressing, CompressLabels
    <3> QED BY <1>1, <3>1, OwnFile
  <2> QED BY <2>1, OneOrNone DEF Workers
<1>6. Compressing("rotator", f) \/ p = 1 =>
        f \notin Elements(queue_) \cup Elements(batch) /\ entry["compressor"] # f
  <2>1. Compressing("rotator", f) \/ p = 1 => pc["rotator"] \in CompressLabels \cup {"push"} /\ entry["rotator"] = f
    BY DEF Compressing, CompressLabels
  <2> QED BY <1>1, <2>1 DEF Inv, Fresh
<1>7. Compressing("rotator", f) => p = 0
  BY DEF Compressing
<1>8. Compressing("compressor", f) \/ n = 1 => f \notin Elements(queue_) \cup Elements(batch)
  BY <1>1 DEF Handed, Compressing, CompressLabels
<1>9. /\ Compressing("compressor", f) => n = 0 /\ entry["compressor"] = f
      /\ n = 1 => entry["compressor"] = f
      /\ p \in {0, 1} /\ n \in {0, 1}
  BY DEF Compressing
<1>10. ~(f \in Elements(queue_) /\ f \in Elements(batch))
  BY <1>1 DEF Handed
<1>11. Places(f) = Cardinality(Q) + Cardinality(B) + Cardinality(C) + p + n
  BY DEF Places
<1> HIDE DEF Q, B, C, p, n
<1> QED BY <1>3, <1>4, <1>5, <1>6, <1>7, <1>8, <1>9, <1>10, <1>11

LEMMA WhereaboutsAccounts == Whereabouts => FilesAccounted
<1> SUFFICES ASSUME Whereabouts PROVE FilesAccounted
  OBVIOUS
<1>1. Inv /\ Placed
  BY DEF Whereabouts
<1>2. 1 .. rotated \subseteq Files /\ Listed \subseteq 1 .. rotated
  BY <1>1, ListTypes DEF Placed
<1>3. CompressionTypeOK
  <2>1. {cache, queue_, batch, victims} \subseteq Seq(Files)
    <3>1. cache \in Seq(1 .. rotated) /\ queue_ \in Seq(1 .. rotated) /\ batch \in Seq(1 .. rotated)
          /\ victims \in Seq(1 .. rotated)
      BY <1>1 DEF Inv, Types, Placed, MoreTypes
    <3>2. \A s \in Seq(1 .. rotated) : s \in Seq(Files)
      BY <1>2, SeqSubset
    <3> QED BY <3>1, <3>2
  <2>2. entry \in [Workers -> Files \cup {NoEntry}]
    <3>1. entry \in [Workers -> 0 .. rotated] /\ rotated \in Nat
      BY <1>1, CompressionAssumption DEF Inv, Types
    <3>2. \A e \in 0 .. rotated : e \in 1 .. rotated \/ e = 0
      BY <3>1
    <3> QED BY <1>2, <3>1, <3>2 DEF NoEntry
  <2>3. raw \subseteq Files /\ gz \in [Files -> {"none", "partial", "complete"}] /\ cache_mutex_ \in {"free", "rotator"}
    BY <1>1, <1>2 DEF Inv, Types, Placed, Listing
  <2> QED BY <1>1, <2>1, <2>2, <2>3 DEF CompressionTypeOK, Inv, Types, Placed, MoreTypes
<1>4. CacheNamesFiles
  <2> SUFFICES ASSUME pc["rotator"] = "idle"
               PROVE  /\ \A i \in DOMAIN cache : ~Busy(cache[i]) =>
                           IF fname[cache[i]] = "raw" THEN cache[i] \in raw ELSE gz[cache[i]] = "complete"
                      /\ \A f \in raw : f \in ToSet(cache)
    BY DEF CacheNamesFiles
  <2>1. Listed = Elements(cache) /\ DOMAIN cache = 1 .. Len(cache)
    BY <1>1 DEF Placed, Listing, Retaining, Listed, MoreTypes
  <2>2. ASSUME NEW f, Renaming(f) PROVE Busy(f)
    BY <2>2 DEF Renaming, Busy, Compressing
  <2>3. ASSUME NEW i \in DOMAIN cache, ~Busy(cache[i])
        PROVE  IF fname[cache[i]] = "raw" THEN cache[i] \in raw ELSE gz[cache[i]] = "complete"
    <3>1. cache[i] \in Listed
      BY <2>1 DEF Elements
    <3> QED BY <1>1, <2>2, <2>3, <3>1 DEF Placed, Named
  <2>4. \A f \in raw : f \in ToSet(cache)
    BY <1>1, <2>1 DEF Placed, Raws, ToSet, Elements
  <2> QED BY <2>3, <2>4
<1> QED BY <1>1, <1>3, <1>4 DEF FilesAccounted, Placed

(* OnePlace for every number of files and every size of the queue and the    *)
(* batch: the exchanges on comp_state hand an entry to one thread at a time, *)
(* also when the compression thread is stopped and started again.            *)
THEOREM OneThreadAtATime == Spec => []OnePlace
  BY InitWhereabouts, StepWhereabouts, WhereaboutsOnePlace, PTL DEF Spec

(* FilesAccounted for every value of the constants: no pending file is left  *)
(* behind, what is listed exists under its name and every file that was not  *)
(* compressed is listed, whatever was cancelled, failed or stopped           *)
(* (compress_file_sync, apply_retention_timestamped, emergency_cleanup).     *)
THEOREM NoFileForgotten == Spec => []FilesAccounted
  BY InitWhereabouts, StepWhereabouts, WhereaboutsAccounts, PTL DEF Spec

-----------------------------------------------------------------------------
(* The counter of the queue                                                  *)

LEMMA WrapUp == ASSUME NEW n \in Nat \ {0}, NEW x \in 0 .. n - 1
                PROVE  (x + 1) % n = IF x = n - 1 THEN 0 ELSE x + 1
  OBVIOUS

LEMMA WrapDown == ASSUME NEW n \in Nat \ {0}, NEW x \in 0 .. n - 1
                  PROVE  (x - 1) % n = IF x = 0 THEN n - 1 ELSE x - 1
  OBVIOUS

LEMMA DistinctLen == ASSUME NEW m \in Nat, NEW s \in Seq(1 .. m), Distinct(s)
                     PROVE  Len(s) \in Nat /\ Len(s) <= m
<1>1. s \in [1 .. Len(s) -> 1 .. m] /\ Len(s) \in Nat
  OBVIOUS
<1>2. s \in Injection(1 .. Len(s), 1 .. m)
  BY <1>1 DEF Injection, IsInjective, Distinct
<1>3. IsFiniteSet(1 .. m) /\ Cardinality(1 .. m) = IF 1 > m THEN 0 ELSE m - 1 + 1
  BY FS_Interval
<1>4. Cardinality(1 .. Len(s)) = IF 1 > Len(s) THEN 0 ELSE Len(s) - 1 + 1
  <2>1. 1 \in Int /\ Len(s) \in Int
    BY <1>1
  <2> QED BY ONLY <2>1, FS_Interval
<1>5. Cardinality(1 .. Len(s)) <= Cardinality(1 .. m)
  BY <1>2, <1>3, FS_Injection
<1> QED BY <1>1, <1>3, <1>4, <1>5

(* No more files wait than there are.                                        *)
LEMMA WaitingBound ==
    ASSUME Whereabouts
    PROVE  /\ Waiting \in Nat /\ Waiting < SizeWrap /\ Len(queue_) \in Nat /\ SizeWrap \in Nat \ {0}
           /\ size \in 0 .. SizeWrap - 1
<1>1. /\ queue_ \in Seq(1 .. rotated) /\ Distinct(queue_) /\ rotated \in Nat /\ rotated <= Rotations
      /\ Rotations \in Nat /\ QueueMax \in Nat /\ SizeWrap \in Nat /\ SizeWrap > Rotations + QueueMax
      /\ size \in 0 .. SizeWrap - 1
  BY CompressionAssumption DEF Whereabouts, Inv, Types, Placed, Handed, MoreTypes
<1>2. Len(queue_) \in Nat /\ Len(queue_) <= rotated
  BY <1>1, DistinctLen
<1>3. CASE pc["compressor"] = "taken"
  <2>1. PICK x : x = entry["compressor"]
    OBVIOUS
  <2>2. x \in 1 .. rotated /\ x \notin Elements(queue_)
    BY <1>1, <1>3, <2>1 DEF Whereabouts, Inv, Types, NoEntry, Workers, Placed, Handed
  <2>3. PICK q : q = queue_
    OBVIOUS
  <2>4. PICK S : S = 1 .. rotated
    OBVIOUS
  <2>5. q \in Seq(S) /\ x \in S /\ Distinct(q) /\ x \notin Elements(q)
    BY <1>1, <2>2, <2>3, <2>4
  <2>6. Append(q, x) \in Seq(S) /\ Distinct(Append(q, x)) /\ Len(Append(q, x)) = Len(q) + 1
    BY ONLY <2>5, AppendDistinct
  <2>7. Len(Append(q, x)) <= rotated
    BY <1>1, <2>4, <2>6, DistinctLen
  <2> QED BY <1>1, <1>2, <1>3, <2>3, <2>6, <2>7 DEF Waiting
<1>4. CASE pc["compressor"] # "taken"
  BY <1>1, <1>2, <1>4 DEF Waiting
<1> QED BY <1>1, <1>2, <1>3, <1>4

(* While the thread runs for the first time, compression_queue_size_ counts  *)
(* what waits, but for the moment between the push and its count.            *)
Counting ==
    /\ starts \in Nat /\ starts <= Starts /\ running_ \in BOOLEAN
    /\ starts = 0 => /\ pc["owner"] = "stopped" /\ ~running_ /\ queue_ = <<>> /\ size = 0 /\ nulls = 0
                     /\ pc["rotator"] \notin {"offer", "claim", "push", "count"}
    /\ running_ => /\ pc["owner"] = "started" /\ nulls = 0 /\ pc["compressor"] \notin {"drain", "ended"}
                   /\ size = IF pc["rotator"] # "count" THEN Waiting
                             ELSE IF Waiting = 0 THEN SizeWrap - 1 ELSE Waiting - 1

LEMMA InitCounting == Init => Counting
<1>1. Starts \in Nat
  BY CompressionAssumption
<1> SUFFICES ASSUME Init PROVE Counting
  OBVIOUS
<1>2. pc["owner"] = "stopped" /\ pc["rotator"] = "idle"
  BY DEF Init, Threads
<1>3. starts = 0 /\ running_ = FALSE /\ queue_ = <<>> /\ size = 0 /\ nulls = 0
  BY DEF Init
<1>4. 0 \in Nat /\ 0 <= Starts
  BY <1>1
<1> QED BY <1>2, <1>3, <1>4 DEF Counting

(* Steps that change neither the queue nor its counter.                      *)
LEMMA QuietCounting ==
    ASSUME Counting, UNCHANGED <<queueVars, running_, starts>>, pc'["owner"] = pc["owner"],
           pc'["compressor"] = "taken" <=> pc["compressor"] = "taken",
           running_ => pc'["compressor"] \notin {"drain", "ended"},
           pc'["rotator"] = "count" <=> pc["rotator"] = "count",
           running_ \/ pc["rotator"] \in {"offer", "claim", "push"}
             \/ pc'["rotator"] \notin {"offer", "claim", "push"}
    PROVE  Counting'
  BY DEF Counting, queueVars, Waiting

LEMMA CompressCounting == ASSUME Whereabouts, Counting, NEW t \in Workers, Compress(t)
                          PROVE  /\ Counting'
                                 /\ \A u \in Threads \ {t} : pc'[u] = pc[u]
                                 /\ pc[t] \in CompressLabels
<1>1. /\ UNCHANGED <<queueVars, running_, starts>> /\ pc[t] \in CompressLabels
      /\ pc'[t] \in CompressLabels \cup {"spare", "process"} /\ \A u \in Workers \ {t} : pc'[u] = pc[u]
  BY CompressEffect DEF Whereabouts, Placed, outsideCompress
<1>2. pc'["owner"] = pc["owner"]
  BY DEF Whereabouts, Inv, Types, Threads, Goto, AfterCompress, Workers, Compress, RemoveLeftover, StatSource,
         OpenSource, Deflate, WriteTrailer, Verdict, Discard, RenamePending, RenamePendingFails, RemoveSource,
         UpdateEntry, MarkDone
<1>3. Counting'
  BY <1>1, <1>2, QuietCounting DEF CompressLabels, Workers, Counting
<1> QED BY <1>1, <1>2, <1>3 DEF Threads, Workers

LEMMA RotatorCounting == ASSUME Whereabouts, Counting, AddToCache \/ RotatorStep
                         PROVE  Counting'
<1>1. DOMAIN pc = Threads
  BY DEF Whereabouts, Inv, Types
<1> USE <1>1 DEF Threads, Goto
<1>2. CASE AddToCache \/ LockForRetention \/ CancelQueued \/ CancelCompressing \/ UnlinkVictim \/ EraseVictims
  <2>1. /\ UNCHANGED <<queueVars, running_, starts>> /\ pc'["owner"] = pc["owner"]
        /\ pc'["compressor"] = pc["compressor"] /\ pc'["rotator"] # "count" /\ pc["rotator"] # "count"
        /\ pc'["rotator"] \notin {"claim", "push"} /\ (pc'["rotator"] = "offer" => running_)
    BY <1>2 DEF AddToCache, LockForRetention, CancelQueued, CancelCompressing, UnlinkVictim, EraseVictims,
                outsideRotator, bounds, queueVars
  <2> QED BY <2>1, QuietCounting DEF Counting
<1>3. CASE CheckQueueSize \/ ClaimEntry \/ PrepareNextFd \/ EmergencyCleanup
  <2>1. /\ UNCHANGED <<queueVars, running_, starts>> /\ pc'["owner"] = pc["owner"]
        /\ pc'["compressor"] = pc["compressor"] /\ pc'["rotator"] # "count" /\ pc["rotator"] # "count"
        /\ (pc'["rotator"] \in {"offer", "claim", "push"} => pc["rotator"] \in {"offer", "claim"})
    BY <1>3 DEF CheckQueueSize, ClaimEntry, PrepareNextFd, EmergencyCleanup, bounds, queueVars
  <2> QED BY <2>1, QuietCounting DEF Counting
<1>4. CASE PushEntry
  <2>1. /\ UNCHANGED <<size, nulls, running_, starts>> /\ pc'["owner"] = pc["owner"] /\ pc'["compressor"] = pc["compressor"]
        /\ pc["rotator"] = "push" /\ pc'["rotator"] = "count" /\ queue_' = Append(queue_, entry["rotator"])
    BY <1>4 DEF PushEntry, bounds
  <2>2. Waiting' = Waiting + 1 /\ Waiting \in Nat
    <3>1. queue_ \in Seq(1 .. rotated)
      BY DEF Whereabouts, Inv, Types
    <3>2. Len(queue_') = Len(queue_) + 1
      BY <2>1, <3>1
    <3> QED BY <2>1, <3>2, WaitingBound DEF Waiting
  <2> QED BY <2>1, <2>2 DEF Counting
<1>5. CASE CountEntry
  <2>1. /\ UNCHANGED <<queue_, nulls, running_, starts>> /\ pc'["owner"] = pc["owner"] /\ pc'["compressor"] = pc["compressor"]
        /\ pc["rotator"] = "count" /\ pc'["rotator"] = "spare" /\ size' = (size + 1) % SizeWrap
    BY <1>5 DEF CountEntry, bounds
  <2>2. Waiting' = Waiting
    BY <2>1 DEF Waiting
  <2>3. size' = IF size = SizeWrap - 1 THEN 0 ELSE size + 1
    BY <2>1, WaitingBound, WrapUp
  <2> QED BY <2>1, <2>2, <2>3, WaitingBound DEF Counting
<1>6. CASE Compress("rotator")
  BY <1>6, CompressCounting DEF Workers
<1> QED BY <1>2, <1>3, <1>4, <1>5, <1>6 DEF RotatorStep

LEMMA ThreadCounting == ASSUME Whereabouts, Counting, CompressorStep
                        PROVE  Counting'
<1>1. DOMAIN pc = Threads /\ queue_ \in Seq(1 .. rotated)
  BY DEF Whereabouts, Inv, Types
<1> USE <1>1 DEF Threads, Goto
<1>2. CASE LoopWhileRunning \/ EndCollection \/ ProcessNext \/ EndBatch \/ EndThread
  <2>1. /\ UNCHANGED <<queueVars, running_, starts>> /\ pc'["owner"] = pc["owner"]
        /\ pc'["rotator"] = pc["rotator"] /\ pc'["compressor"] # "taken" /\ pc["compressor"] # "taken"
        /\ (pc'["compressor"] = "drain" => ~running_) /\ (pc'["compressor"] = "ended" => pc["compressor"] = "drain")
    BY <1>2 DEF LoopWhileRunning, EndCollection, ProcessNext, EndBatch, EndThread, outsideThread, bounds, queueVars
  <2> QED BY <2>1, QuietCounting DEF Counting
<1>3. CASE Compress("compressor")
  BY <1>3, CompressCounting DEF Workers
<1>4. CASE TakeFirst \/ KeepFirst \/ CollectMore \/ DrainOne
  <2>1. /\ UNCHANGED <<running_, starts>> /\ pc'["owner"] = pc["owner"] /\ pc'["rotator"] = pc["rotator"]
        /\ pc["compressor"] # "ended"
    BY <1>4 DEF TakeFirst, KeepFirst, CollectMore, DrainOne, outsideThread, bounds
  <2>2. starts # 0
    BY <2>1 DEF Counting, Whereabouts, Joined
  <2>3. CASE ~running_
    BY <2>1, <2>2, <2>3 DEF Counting
  <2>4. CASE running_ /\ TakeFirst
    <3>1. /\ nulls = 0 /\ nulls' = nulls /\ size' = size /\ queue_ # <<>> /\ queue_' = Tail(queue_)
          /\ pc["compressor"] = "wait" /\ pc'["compressor"] = "taken"
      BY <2>4 DEF TakeFirst, Counting
    <3>2. Len(queue_') = Len(queue_) - 1 /\ Len(queue_) \in Nat
      BY <3>1
    <3>3. Waiting' = Waiting
      BY <3>1, <3>2 DEF Waiting
    <3> QED BY <2>1, <2>2, <3>1, <3>3 DEF Counting
  <2>5. CASE running_ /\ (KeepFirst \/ CollectMore)
    <3>0. size' = (size - 1) % SizeWrap
      <4>1. nulls = 0 /\ ~ (nulls > 0)
        BY <2>5 DEF Counting
      <4>2. CASE KeepFirst
        BY <2>5, <4>2 DEF KeepFirst
      <4>3. CASE CollectMore
        BY <4>1, <4>3 DEF CollectMore
      <4> QED BY <2>5, <4>2, <4>3
    <3>1. nulls' = 0 /\ pc'["compressor"] = "collect"
      BY <1>1, <2>1, <2>5 DEF KeepFirst, CollectMore, Counting
    <3>2. Waiting = Waiting' + 1 /\ Waiting' \in Nat
      <4>1. CASE KeepFirst
        BY <1>1, <2>5, <4>1, <3>1 DEF KeepFirst, Waiting
      <4>2. CASE CollectMore
        <5>1. queue_ # <<>> /\ queue_' = Tail(queue_) /\ pc["compressor"] = "collect"
          BY <2>5, <3>1, <4>2 DEF CollectMore, Counting
        <5>2. Len(queue_') = Len(queue_) - 1 /\ Len(queue_) \in Nat /\ Len(queue_') \in Nat
          BY <1>1, <5>1
        <5> QED BY <3>1, <5>1, <5>2 DEF Waiting
      <4> QED BY <2>5, <4>1, <4>2
    <3>3. size' = IF size = 0 THEN SizeWrap - 1 ELSE size - 1
      BY <3>0, WaitingBound, WrapDown
      <3>4. size = IF pc["rotator"] # "count" THEN Waiting ELSE IF Waiting = 0 THEN SizeWrap - 1 ELSE Waiting - 1
      BY <2>5 DEF Counting
    <3>5. size' = IF pc["rotator"] # "count" THEN Waiting' ELSE IF Waiting' = 0 THEN SizeWrap - 1 ELSE Waiting' - 1
      <4>1. PICK v : v = Waiting'
        OBVIOUS
      <4>2. v \in Nat /\ Waiting = v + 1 /\ SizeWrap \in Nat /\ v + 1 < SizeWrap
        BY <3>2, <4>1, WaitingBound
      <4>3. CASE pc["rotator"] # "count"
        <5>1. size = v + 1
          BY <3>4, <4>2, <4>3
        <5>2. size' = v
          BY <3>3, <4>2, <5>1
        <5> QED BY <4>1, <4>3, <5>2
      <4>4. CASE pc["rotator"] = "count"
        <5>1. size = v
          BY <3>4, <4>2, <4>4
        <5>2. size' = IF v = 0 THEN SizeWrap - 1 ELSE v - 1
          BY <3>3, <4>2, <5>1
        <5> QED BY <4>1, <4>4, <5>2
      <4> QED BY <4>3, <4>4
    <3> QED BY <2>1, <2>2, <2>5, <3>1, <3>5 DEF Counting
  <2>6. CASE running_ /\ DrainOne
    BY <2>6 DEF DrainOne, Counting
  <2> QED BY <1>4, <2>3, <2>4, <2>5, <2>6 DEF Counting
<1> QED BY <1>2, <1>3, <1>4 DEF CompressorStep

LEMMA OwnerCounting == ASSUME Whereabouts, Counting, Starts <= 1, StartThread \/ StopRunning \/ OwnerStep
                       PROVE  Counting'
<1>1. DOMAIN pc = Threads /\ Starts \in Nat
  BY CompressionAssumption DEF Whereabouts, Inv, Types
<1> USE <1>1 DEF Threads, Goto, outsideOwner
<1>2. CASE StartThread
  <2>1. /\ starts = 0 /\ starts' = 1 /\ running_' = TRUE /\ UNCHANGED <<queue_, size, nulls>>
        /\ pc'["owner"] = "started" /\ pc'["compressor"] = "loop" /\ pc'["rotator"] = pc["rotator"]
    BY <1>2 DEF StartThread, Counting
  <2>2. Waiting' = 0
    BY <2>1 DEF Counting, Waiting
  <2> QED BY <1>2, <2>1, <2>2 DEF StartThread, Counting
<1>3. CASE StopRunning \/ OwnerStep
  <2>1. running_' = FALSE /\ starts' = starts /\ starts # 0
    BY <1>3 DEF StopRunning, OwnerStep, WakeThread, JoinThread, Counting
  <2> QED BY <2>1 DEF Counting
<1> QED BY <1>2, <1>3

LEMMA StepCounting == ASSUME Starts <= 1
                      PROVE  Whereabouts /\ Counting /\ [Next]_vars => Counting'
<1> SUFFICES ASSUME Whereabouts, Counting, [Next]_vars PROVE Counting'
  OBVIOUS
<1>1. CASE UNCHANGED vars
  BY <1>1 DEF vars, queueVars, Counting, Waiting
<1>2. CASE Next
  BY <1>2, RotatorCounting, ThreadCounting, OwnerCounting DEF Next
<1> QED BY <1>1, <1>2

(* The rotator passes the queue by only when it finds the counter at its     *)
(* limit.                                                                    *)
LEMMA StepSkips ==
    Whereabouts /\ Counting /\ [Next]_vars
      => [running_ /\ pc["rotator"] = "offer" /\ pc'["rotator"] = "spare" => Waiting >= QueueMax]_vars
<1> SUFFICES ASSUME Whereabouts, Counting, Next, running_, pc["rotator"] = "offer", pc'["rotator"] = "spare"
             PROVE  Waiting >= QueueMax
  OBVIOUS
<1>1. DOMAIN pc = Threads
  BY DEF Whereabouts, Inv, Types
<1>2. CheckQueueSize
  <2> USE <1>1 DEF Threads, Goto
  <2>1. ~ Compress("rotator")
    BY CompressCounting DEF Workers, CompressLabels, Compress, RemoveLeftover, StatSource, OpenSource, Deflate,
       WriteTrailer, Verdict, Discard, RenamePending, RenamePendingFails, RemoveSource, UpdateEntry, MarkDone
  <2>2. ~ Compress("compressor")
    BY CompressCounting DEF Workers
  <2>3. ~ CompressorStep
    BY <2>2 DEF CompressorStep, LoopWhileRunning, TakeFirst, KeepFirst, CollectMore, EndCollection, ProcessNext,
                EndBatch, DrainOne, EndThread
  <2>4. ~ (StartThread \/ StopRunning \/ OwnerStep \/ AddToCache)
    BY DEF StartThread, StopRunning, OwnerStep, WakeThread, JoinThread, AddToCache
  <2>5. RotatorStep
    BY <2>3, <2>4 DEF Next
  <2> QED BY <2>1, <2>5 DEF RotatorStep, LockForRetention, CancelQueued, CancelCompressing, UnlinkVictim, EraseVictims,
                            ClaimEntry, PushEntry, CountEntry, PrepareNextFd, EmergencyCleanup
<1>3. size >= QueueMax
  BY <1>1, <1>2 DEF CheckQueueSize, Goto, Threads
<1> QED BY <1>3 DEF Counting

(* SkippedOnlyWhenFull, as long as the thread is started once: a rotation is *)
(* left out only when as many files wait as the queue takes                  *)
(* (enqueue_for_compression).  After a second start it does not hold: the    *)
(* counter has lost the null entry of the stop.                              *)
THEOREM SkippedOnlyWhenQueueIsFull == ASSUME Starts <= 1
                                      PROVE  Spec => SkippedOnlyWhenFull
<1>1. Whereabouts /\ Counting /\ [Next]_vars => Counting'
  BY StepCounting
<1>2. Init => Whereabouts /\ Counting
  BY InitWhereabouts, InitCounting
<1> QED BY <1>1, <1>2, StepWhereabouts, StepSkips, PTL DEF Spec, SkippedOnlyWhenFull
=============================================================================
