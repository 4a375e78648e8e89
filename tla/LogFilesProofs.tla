--------------------------- MODULE LogFilesProofs ---------------------------
(***************************************************************************)
(* Proofs about LogFiles, for any number of contacts, exchanges and faults.*)
(***************************************************************************)
EXTENDS LogFiles, FiniteSetTheorems, TLAPS

(***************************************************************************)
(* Why lotw.adi may be dropped: while the program waits for tqsl, what     *)
(* tqsl was given is still in lotw.adi, so equal sizes mean equal files;   *)
(* and when tqsl says so, it took what it was given.                       *)
(***************************************************************************)
UploadInv ==
  /\ win.up = "live" => disk.tmp \subseteq disk.incr
  /\ proc.up = "accepted" => disk.tmp \subseteq taken

(***************************************************************************)
(* Why m_logbookRead stays FALSE: one exchange at a time, begun only when  *)
(* no load was under way but one of the Rescan button.                     *)
(***************************************************************************)
OwnLoad == load.on /\ load.by # "button"
ReadInv ==
  /\ win.dn = "null" \/ win.up = "null"
  /\ OwnLoad => ~win.read /\ win.dn # "live" /\ win.up # "live"
  /\ win.dn = "told" /\ proc.down # "adi" => ~OwnLoad
  /\ win.dn = "live" \/ win.up = "live" => ~win.read \/ load.by = "button"

LogInv == LogTypeOK /\ NothingLost /\ UploadInv /\ ReadInv

(***************************************************************************)
(* The parts of LogTypeOK.                                                 *)
(***************************************************************************)
LEMMA LogFields ==
  ASSUME LogTypeOK
  PROVE  /\ disk.full \subseteq Qsos /\ disk.incr \subseteq Qsos /\ disk.tmp \subseteq Qsos
         /\ win.open \in BOOLEAN /\ win.read \in BOOLEAN /\ win.index \subseteq Qsos
         /\ win.dn \in Pointer /\ win.up \in Pointer
         /\ load.on \in BOOLEAN /\ load.by \in {"start", "download", "button"}
         /\ load.ready \in BOOLEAN /\ load.snap \subseteq Qsos
  BY DEF LogTypeOK, Disk, Window, Load

LEMMA LogInvInit == LogInit => LogInv
  BY LogAssumption DEF LogInit, LogInv, LogTypeOK, Disk, Window, Load, Process, Pointer, NoWindow,
     NoLoad, NothingLost, UploadInv, ReadInv, OwnLoad

(***************************************************************************)
(* What a step spends of the bounds.                                       *)
(***************************************************************************)
LEMMA SpendType ==
  ASSUME LogTypeOK
  PROVE  /\ Spend("syncs", MaxSyncs) => spent' \in [syncs : 0 .. MaxSyncs, rescans : 0 .. MaxRescans, faults : 0 .. MaxFaults]
         /\ Spend("rescans", MaxRescans) => spent' \in [syncs : 0 .. MaxSyncs, rescans : 0 .. MaxRescans, faults : 0 .. MaxFaults]
         /\ Spend("faults", MaxFaults) => spent' \in [syncs : 0 .. MaxSyncs, rescans : 0 .. MaxRescans, faults : 0 .. MaxFaults]
  BY LogAssumption DEF LogTypeOK, Spend

(***************************************************************************)
(* The index: WorkedBefore, and what the operator does with the log.       *)
(***************************************************************************)
LEMMA IndexKeeps ==
  ASSUME LogInv, LoaderReads \/ LoaderFinished \/ RescanButton \/ EraseLog
  PROVE  LogInv'
<1> USE DEF LogInv, LogTypeOK, Disk, Window, Load, NothingLost, UploadInv, ReadInv, OwnLoad
<1>1. CASE LoaderReads
  BY <1>1 DEF LoaderReads
<1>2. CASE LoaderFinished
  BY <1>2 DEF LoaderFinished
<1>3. CASE RescanButton
  BY <1>3, SpendType DEF RescanButton, Reload
<1>4. CASE EraseLog
  BY <1>4 DEF EraseLog
<1> QED BY <1>1, <1>2, <1>3, <1>4

LEMMA AcceptKeeps ==
  ASSUME LogInv, NEW q \in Qsos, AcceptQSO(q)
  PROVE  LogInv'
<1> USE DEF LogInv, LogTypeOK, Disk, Window, NothingLost, UploadInv, ReadInv, OwnLoad
<1>1. /\ logged' = logged \cup {q} /\ UNCHANGED <<taken, load, proc, spent>>
  BY DEF AcceptQSO
<1>2. CASE /\ disk' = [disk EXCEPT !.full = @ \cup {q}, !.incr = @ \cup {q}]
           /\ \E his \in Qsos : win' = [win EXCEPT !.index = @ \cup {his}]
  <2>1. disk' \in Disk /\ disk'.incr = disk.incr \cup {q} /\ disk'.tmp = disk.tmp
    BY <1>2
  <2>2. PICK his \in Qsos : win' = [win EXCEPT !.index = @ \cup {his}]
    BY <1>2
  <2>3. /\ win' \in Window /\ win'.read = win.read
        /\ win'.dn = win.dn /\ win'.up = win.up
    BY <2>2
  <2> QED BY <1>1, <2>1, <2>3
<1>3. CASE disk' = [disk EXCEPT !.incr = @ \cup {q}] /\ UNCHANGED win
  <2>1. disk' \in Disk /\ disk'.incr = disk.incr \cup {q} /\ disk'.tmp = disk.tmp
    BY <1>3
  <2> QED BY <1>1, <1>3, <2>1
<1> QED BY <1>2, <1>3 DEF AcceptQSO

(***************************************************************************)
(* Download.                                                               *)
(***************************************************************************)
LEMMA DownloadKeeps ==
  ASSUME LogInv, Download \/ ScriptReplaces \/ ScriptFails \/ DownloadLotwFinished \/ DownloadToldOf
  PROVE  LogInv'
<1> USE DEF LogInv, LogTypeOK, Disk, Window, Load, Process, Pointer, NothingLost, UploadInv, ReadInv, OwnLoad
<1>1. CASE Download
  BY <1>1, SpendType DEF Download, MaySync
<1>2. CASE ScriptReplaces
  <2>1. PICK report \in SUBSET Qsos : /\ disk' = [disk EXCEPT !.full = report]
                                      /\ proc.down = "fetch"
                                      /\ proc' \in {[proc EXCEPT !.down = "adi"], [proc EXCEPT !.down = "html"]}
    BY <1>2 DEF ScriptReplaces
  <2>2. UNCHANGED <<taken, logged, win, load, spent>>
    BY <1>2 DEF ScriptReplaces
  <2>3. disk' \in Disk /\ disk'.incr = disk.incr /\ disk'.tmp = disk.tmp
    BY <2>1
  <2>4. proc' \in Process /\ proc'.up = proc.up /\ proc'.down # "none"
    BY <2>1
  <2>5. win.dn # "told" \/ ~OwnLoad
    BY <2>1
  <2> QED BY <2>2, <2>3, <2>4, <2>5
<1>3. CASE ScriptFails
  BY <1>3 DEF ScriptFails
<1>4. CASE DownloadLotwFinished
  <2>1. /\ win.open /\ win.dn = "live" /\ proc.down \in {"adi", "html", "neterr"}
        /\ UNCHANGED <<disk, taken, logged, proc, spent>>
    BY <1>4 DEF DownloadLotwFinished
  <2>2. CASE /\ load' = Reload("download") /\ win' = [win EXCEPT !.dn = "told", !.read = FALSE]
             /\ proc.down = "adi"
    <3>1. load' \in Load /\ load'.by = "download"
      BY <2>2 DEF Reload
    <3>2. /\ win' \in Window /\ win'.dn = "told" /\ ~win'.read /\ win'.up = win.up
      BY <2>2
    <3> QED BY <2>1, <2>2, <3>1, <3>2
  <2>3. CASE UNCHANGED load /\ win' = [win EXCEPT !.dn = "told"] /\ proc.down # "adi"
    BY <2>1, <2>3
  <2> QED BY <1>4, <2>2, <2>3 DEF DownloadLotwFinished
<1>5. CASE DownloadToldOf
  BY <1>5 DEF DownloadToldOf
<1> QED BY <1>1, <1>2, <1>3, <1>4, <1>5

(***************************************************************************)
(* Upload.                                                                 *)
(***************************************************************************)
LEMMA UploadKeeps ==
  ASSUME LogInv, Upload \/ TqslEnds \/ UploadLotwFinished \/ UploadToldOf
  PROVE  LogInv'
<1> USE DEF LogInv, LogTypeOK, Disk, Window, Load, Process, Pointer, NothingLost, UploadInv, ReadInv, OwnLoad
<1>1. CASE Upload
  BY <1>1, SpendType DEF Upload, MaySync
<1>2. CASE TqslEnds
  BY <1>2 DEF TqslEnds
<1>3. CASE UploadLotwFinished
  <2>1. /\ win' = [win EXCEPT !.up = "told", !.read = TRUE] /\ win.up = "live"
        /\ UNCHANGED <<taken, logged, load, proc, spent>>
    BY <1>3 DEF UploadLotwFinished
  <2>2. CASE UNCHANGED disk
    BY <2>1, <2>2
  <2>3. CASE /\ proc.up = "accepted" /\ Cardinality(disk.incr) = Cardinality(disk.tmp)
             /\ disk' = [disk EXCEPT !.incr = {}]
    <3>1. disk.incr = disk.tmp
      <4>1. disk.incr \subseteq Qsos /\ disk.tmp \subseteq disk.incr
        BY <2>1
      <4>2. IsFiniteSet(disk.incr)
        BY <4>1, FS_Subset, LogAssumption DEF LogAssumption
      <4> QED BY <2>3, <4>1, <4>2, FS_Subset
    <3>2. logged \subseteq taken
      BY <2>3, <3>1
    <3> QED BY <2>1, <2>3, <3>2
  <2> QED BY <1>3, <2>2, <2>3 DEF UploadLotwFinished
<1>4. CASE UploadToldOf
  BY <1>4 DEF UploadToldOf
<1> QED BY <1>1, <1>2, <1>3, <1>4

(***************************************************************************)
(* Crashes, and windows that come and go.                                  *)
(***************************************************************************)
LEMMA FaultsKeep ==
  ASSUME LogInv, ProcessCrashes \/ LotwError \/ Start \/ CloseLog \/ Crash \/ OrphanEnds
  PROVE  LogInv'
<1> USE DEF LogInv, LogTypeOK, Disk, Window, Load, Process, Pointer, NoWindow, NoLoad, NothingLost,
            UploadInv, ReadInv, OwnLoad
<1>1. CASE ProcessCrashes
  BY <1>1, SpendType DEF ProcessCrashes
<1>2. CASE LotwError
  <2>1. UNCHANGED <<disk, taken, logged, spent>>
    BY <1>2 DEF LotwError
  <2>2. PICK p \in {"dn", "up"} :
          /\ win[p] = "live" /\ proc[IF p = "dn" THEN "down" ELSE "up"] = "crashed"
          /\ proc' = [proc EXCEPT ![IF p = "dn" THEN "down" ELSE "up"] = "none"]
          /\ \/ win' = [win EXCEPT ![p] = "stale", !.read = TRUE] /\ UNCHANGED load
             \/ win' = NoWindow /\ load' = NoLoad
    BY <1>2 DEF LotwError
  <2>3. CASE p = "dn"
    <3>1. proc' = [proc EXCEPT !.down = "none"] /\ win.dn = "live" /\ win.up = "null"
      BY <2>2, <2>3
    <3>2. CASE win' = [win EXCEPT !.dn = "stale", !.read = TRUE] /\ UNCHANGED load
      BY <2>1, <3>1, <3>2
    <3>3. CASE win' = NoWindow /\ load' = NoLoad
      BY <2>1, <3>1, <3>3
    <3> QED BY <2>2, <2>3, <3>2, <3>3
  <2>4. CASE p = "up"
    <3>1. proc' = [proc EXCEPT !.up = "none"] /\ win.up = "live" /\ win.dn = "null"
      BY <2>2, <2>4
    <3>2. CASE win' = [win EXCEPT !.up = "stale", !.read = TRUE] /\ UNCHANGED load
      BY <2>1, <3>1, <3>2
    <3>3. CASE win' = NoWindow /\ load' = NoLoad
      BY <2>1, <3>1, <3>3
    <3> QED BY <2>2, <2>4, <3>2, <3>3
  <2> QED BY <2>3, <2>4
<1>3. CASE Start
  BY <1>3 DEF Start, Reload
<1>4. CASE CloseLog
  BY <1>4 DEF CloseLog
<1>5. CASE Crash
  BY <1>5, SpendType DEF Crash
<1>6. CASE OrphanEnds
  BY <1>6 DEF OrphanEnds
<1> QED BY <1>1, <1>2, <1>3, <1>4, <1>5, <1>6

(***************************************************************************)
(* The invariant of log book and exchanges holds in every reachable state. *)
(***************************************************************************)
THEOREM LogInvariance == LogSpec => []LogInv
<1>1. LogInv /\ [LogNext]_logVars => LogInv'
  <2> SUFFICES ASSUME LogInv, [LogNext]_logVars PROVE LogInv'
    OBVIOUS
  <2>1. CASE UNCHANGED logVars
    BY <2>1 DEF logVars, LogInv, LogTypeOK, NothingLost, UploadInv, ReadInv, OwnLoad
  <2> QED BY <2>1, IndexKeeps, AcceptKeeps, DownloadKeeps, UploadKeeps, FaultsKeep DEF LogNext
<1> QED BY <1>1, LogInvInit, PTL DEF LogSpec

(***************************************************************************)
(* Every member, file and process keeps its type.                          *)
(***************************************************************************)
THEOREM LogTypeCorrect == LogSpec => []LogTypeOK
<1>1. LogInv => LogTypeOK
  BY DEF LogInv
<1> QED BY <1>1, LogInvariance, PTL

(***************************************************************************)
(* No contact is lost between logging and LoTW (uploadLotwFinished).       *)
(***************************************************************************)
THEOREM ContactsKept == LogSpec => []NothingLost
<1>1. LogInv => NothingLost
  BY DEF LogInv
<1> QED BY <1>1, LogInvariance, PTL

(***************************************************************************)
(* Decodes and exchanges are held back while an exchange runs, unless the  *)
(* Rescan button was used.                                                 *)
(***************************************************************************)
THEOREM ExchangesHoldBack == LogSpec => []HeldBack
<1>1. LogInv => HeldBack
  BY DEF LogInv, ReadInv, HeldBack, Exchanging
<1> QED BY <1>1, LogInvariance, PTL
=============================================================================
