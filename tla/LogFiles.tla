------------------------------ MODULE LogFiles ------------------------------
(***************************************************************************)
(* The log book and its exchange with LoTW (Logbook of the World).  A      *)
(* contact goes to wsjtx_log.adi, to the worked-before index in memory and *)
(* to lotw.adi, the contacts not uploaded yet.  Upload gives a copy of     *)
(* lotw.adi to tqsl; download has a script replace wsjtx_log.adi, and      *)
(* loads the index again.  The load runs on a thread of its own, scripts   *)
(* in processes of their own.  m_logbookRead holds decodes and further     *)
(* exchanges back meanwhile.                                               *)
(*                                                                         *)
(* A file is the set of contacts in it, empty when it is missing.  Backup  *)
(* copies of wsjtx_log.adi are left out.                                   *)
(***************************************************************************)
EXTENDS Naturals, FiniteSets

CONSTANTS
  Qsos,         \* contacts
  MaxSyncs,     \* bound: uploads and downloads
  MaxRescans,   \* bound: presses of the Rescan button of the settings
  MaxFaults     \* bound: crashes, of the program or of a script

ASSUME LogAssumption ==
  /\ IsFiniteSet(Qsos)
  /\ MaxSyncs \in Nat /\ MaxRescans \in Nat /\ MaxFaults \in Nat

VARIABLES
  disk,    \* the files
  taken,   \* contacts tqsl took: LoTW has them, or refused them for good
  logged,  \* contacts that were logged
  win,     \* members of MainWindow, see Window
  load,    \* the load of the index under way, see Load
  proc,    \* the script and tqsl
  spent    \* how much of the bounds is used

logVars == <<disk, taken, logged, win, load, proc, spent>>

Disk == [full : SUBSET Qsos,   \* wsjtx_log.adi
         incr : SUBSET Qsos,   \* lotw.adi
         tmp : SUBSET Qsos]    \* lotw.adi.tmp

\* dn, up: dnLotw and upLotw.  told: the process has ended and a message box is open;
\* stale: the object is deleted and the pointer is not null.
Pointer == {"null", "live", "told", "stale"}
Window == [open : BOOLEAN,
           read : BOOLEAN,          \* m_logbookRead
           index : SUBSET Qsos,     \* worked_
           dn : Pointer, up : Pointer]

\* by: who asked for the load, or for the last one; snap: what it read
Load == [on : BOOLEAN, by : {"start", "download", "button"},
         ready : BOOLEAN, snap : SUBSET Qsos]

Process == [down : {"none", "fetch", "adi", "html", "neterr", "crashed"},
            up : {"none", "sign", "accepted", "failed", "crashed"}]

LogTypeOK ==
  /\ disk \in Disk /\ taken \subseteq Qsos /\ logged \subseteq Qsos
  /\ win \in Window /\ load \in Load /\ proc \in Process
  /\ spent \in [syncs : 0 .. MaxSyncs, rescans : 0 .. MaxRescans, faults : 0 .. MaxFaults]

NoWindow == [open |-> FALSE, read |-> FALSE, index |-> {}, dn |-> "null", up |-> "null"]
NoLoad == [on |-> FALSE, by |-> "start", ready |-> FALSE, snap |-> {}]

LogInit ==
  /\ disk = [full |-> {}, incr |-> {}, tmp |-> {}]
  /\ taken = {} /\ logged = {}
  /\ win = NoWindow /\ load = NoLoad
  /\ proc = [down |-> "none", up |-> "none"]
  /\ spent = [syncs |-> 0, rescans |-> 0, faults |-> 0]

Spend(what, max) == spent[what] < max /\ spent' = [spent EXCEPT ![what] = @ + 1]
-----------------------------------------------------------------------------
(* The index *)

\* WorkedBefore::reload; the result of a load still under way is no longer waited for.
Reload(who) == [on |-> TRUE, by |-> who, ready |-> FALSE, snap |-> {}]

\* The loader reads the file at some moment of its run.
LoaderReads ==
  /\ load.on /\ ~load.ready
  /\ load' = [load EXCEPT !.ready = TRUE, !.snap = disk.full]
  /\ UNCHANGED <<disk, taken, logged, win, proc, spent>>

\* finished_loading: what was added since then is not in the new index.  A file that
\* cannot be read leaves the index as it was.
LoaderFinished ==
  /\ win.open /\ load.on /\ load.ready
  /\ load' = [load EXCEPT !.on = FALSE, !.ready = FALSE, !.snap = {}]
  /\ \E index \in {load.snap, win.index} : win' = [win EXCEPT !.index = index, !.read = TRUE]
  /\ UNCHANGED <<disk, taken, logged, proc, spent>>

\* The Rescan button leaves m_logbookRead as it is.
RescanButton ==
  /\ win.open /\ Spend("rescans", MaxRescans)
  /\ load' = Reload("button")
  /\ UNCHANGED <<disk, taken, logged, win, proc>>

AcceptAnyCall(q) ==
  /\ win.open /\ q \notin logged
  /\ logged' = logged \cup {q}
  /\ disk' = [disk EXCEPT !.full = @ \cup {q}, !.incr = @ \cup {q}]
  /\ \E his \in Qsos \cup {0} : win' = [win EXCEPT !.index = @ \cup {his}]
  /\ UNCHANGED <<taken, load, proc, spent>>

\* acceptQSO for q.  The index and the full log follow m_hisCall, which may be q's
\* station, another one or none; without one, nothing is added to either.
AcceptQSO(q) ==
  /\ win.open /\ q \notin logged
  /\ logged' = logged \cup {q}
  /\ \/ /\ disk' = [disk EXCEPT !.full = @ \cup {q}, !.incr = @ \cup {q}]
        /\ \E his \in Qsos : win' = [win EXCEPT !.index = @ \cup {his}]
     \/ /\ disk' = [disk EXCEPT !.incr = @ \cup {q}]
        /\ UNCHANGED win
  /\ UNCHANGED <<taken, load, proc, spent>>

EraseLog ==
  /\ win.open /\ disk.full # {}
  /\ disk' = [disk EXCEPT !.full = {}]
  /\ UNCHANGED <<taken, logged, win, load, proc, spent>>
-----------------------------------------------------------------------------
(* Download *)

MaySync == win.open /\ win.read /\ win.dn = "null" /\ win.up = "null"

\* Refused while there is something to upload.  One script at a time: a script that a
\* crash left behind ends before the next is started.
Download ==
  /\ MaySync /\ disk.incr = {} /\ proc.down = "none"
  /\ Spend("syncs", MaxSyncs)
  /\ win' = [win EXCEPT !.dn = "live", !.read = FALSE]
  /\ proc' = [proc EXCEPT !.down = "fetch"]
  /\ UNCHANGED <<disk, taken, logged, load>>

\* copy_log.sh: the file is replaced by what came, be it a page that says the password
\* is wrong.  LoTW reports what it has worked off so far.
ScriptReplaces ==
  /\ proc.down = "fetch"
  /\ \/ \E report \in SUBSET taken :
          /\ disk' = [disk EXCEPT !.full = report]
          /\ proc' = [proc EXCEPT !.down = "adi"]
     \/ /\ disk' = [disk EXCEPT !.full = {}]
        /\ proc' = [proc EXCEPT !.down = "html"]
  /\ UNCHANGED <<taken, logged, win, load, spent>>

ScriptFails ==
  /\ proc.down = "fetch"
  /\ proc' = [proc EXCEPT !.down = "neterr"]
  /\ UNCHANGED <<disk, taken, logged, win, load, spent>>

\* downloadLotwFinished up to its message box.
DownloadLotwFinished ==
  /\ win.open /\ win.dn = "live" /\ proc.down \in {"adi", "html", "neterr"}
  /\ IF proc.down = "adi"
       THEN load' = Reload("download") /\ win' = [win EXCEPT !.dn = "told", !.read = FALSE]
       ELSE UNCHANGED load /\ win' = [win EXCEPT !.dn = "told"]
  /\ UNCHANGED <<disk, taken, logged, proc, spent>>

DownloadToldStaysHeld ==
  /\ win.open /\ win.dn = "told"
  /\ win' = [win EXCEPT !.dn = "null"]
  /\ proc' = [proc EXCEPT !.down = "none"]
  /\ UNCHANGED <<disk, taken, logged, load, spent>>

\* The rest of it: a failed download allows another attempt.
DownloadToldOf ==
  /\ win.open /\ win.dn = "told"
  /\ win' = [win EXCEPT !.dn = "null", !.read = @ \/ proc.down # "adi"]
  /\ proc' = [proc EXCEPT !.down = "none"]
  /\ UNCHANGED <<disk, taken, logged, load, spent>>
-----------------------------------------------------------------------------
(* Upload *)

UploadUnheld ==
  /\ MaySync /\ disk.incr # {} /\ proc.up = "none"
  /\ Spend("syncs", MaxSyncs)
  /\ disk' = [disk EXCEPT !.tmp = disk.incr]
  /\ win' = [win EXCEPT !.up = "live"] /\ proc' = [proc EXCEPT !.up = "sign"]
  /\ UNCHANGED <<taken, logged, load>>

\* tqsl may be missing: then only the copy is made.
Upload ==
  /\ MaySync /\ disk.incr # {} /\ proc.up = "none"
  /\ Spend("syncs", MaxSyncs)
  /\ disk' = [disk EXCEPT !.tmp = disk.incr]
  /\ \/ /\ win' = [win EXCEPT !.up = "live", !.read = FALSE]
        /\ proc' = [proc EXCEPT !.up = "sign"]
     \/ UNCHANGED <<win, proc>>
  /\ UNCHANGED <<taken, logged, load>>

\* tqsl ends with 0, 8 or 9, or with another code; then LoTW may have got the contacts
\* all the same.
TqslEnds ==
  /\ proc.up = "sign"
  /\ \E code \in {"accepted", "failed"} :
       /\ proc' = [proc EXCEPT !.up = code]
       /\ \/ taken' = taken \cup disk.tmp
          \/ code = "failed" /\ UNCHANGED taken
  /\ UNCHANGED <<disk, logged, win, load, spent>>

UploadDropsAll ==
  /\ win.open /\ win.up = "live" /\ proc.up \in {"accepted", "failed"}
  /\ win' = [win EXCEPT !.up = "told", !.read = TRUE]
  /\ disk' = IF proc.up = "accepted" THEN [disk EXCEPT !.incr = {}] ELSE disk
  /\ UNCHANGED <<taken, logged, load, proc, spent>>

\* uploadLotwFinished up to its message box: lotw.adi is renamed if it did not grow.
UploadLotwFinished ==
  /\ win.open /\ win.up = "live" /\ proc.up \in {"accepted", "failed"}
  /\ win' = [win EXCEPT !.up = "told", !.read = TRUE]
  /\ disk' = IF proc.up = "accepted" /\ disk.tmp # {}
                  /\ Cardinality(disk.incr) = Cardinality(disk.tmp)
               THEN [disk EXCEPT !.incr = {}] ELSE disk
  /\ UNCHANGED <<taken, logged, load, proc, spent>>

UploadToldOf ==
  /\ win.open /\ win.up = "told"
  /\ win' = [win EXCEPT !.up = "null"]
  /\ disk' = [disk EXCEPT !.tmp = {}]
  /\ proc' = [proc EXCEPT !.up = "none"]
  /\ UNCHANGED <<taken, logged, load, spent>>
-----------------------------------------------------------------------------
(* Faults, and the life of the window *)

\* The script or tqsl is killed or crashes.
ProcessCrashes ==
  /\ Spend("faults", MaxFaults)
  /\ \/ proc.down = "fetch" /\ proc' = [proc EXCEPT !.down = "crashed"]
     \/ proc.up = "sign" /\ proc' = [proc EXCEPT !.up = "crashed"]
  /\ UNCHANGED <<disk, taken, logged, win, load>>

\* lotwError: deletes the process from within its signal and sets only its parameter to
\* null.  Qt then uses the deleted object: the program ends there, or goes on.
LotwError ==
  /\ win.open
  /\ \E p \in {"dn", "up"} :
       /\ win[p] = "live" /\ proc[IF p = "dn" THEN "down" ELSE "up"] = "crashed"
       /\ proc' = [proc EXCEPT ![IF p = "dn" THEN "down" ELSE "up"] = "none"]
       /\ \/ win' = [win EXCEPT ![p] = "stale", !.read = TRUE] /\ UNCHANGED load
          \/ win' = NoWindow /\ load' = NoLoad
  /\ UNCHANGED <<disk, taken, logged, spent>>

Start ==
  /\ ~win.open
  /\ win' = [NoWindow EXCEPT !.open = TRUE]
  /\ load' = Reload("start")
  /\ UNCHANGED <<disk, taken, logged, proc, spent>>

\* closeEvent ignores the request while there is a process.
CloseLog ==
  /\ win.open /\ win.dn = "null" /\ win.up = "null"
  /\ win' = NoWindow /\ load' = NoLoad
  /\ UNCHANGED <<disk, taken, logged, proc, spent>>

Crash ==
  /\ win.open /\ Spend("faults", MaxFaults)
  /\ win' = NoWindow /\ load' = NoLoad
  /\ UNCHANGED <<disk, taken, logged, proc>>

\* A process whose program is gone ends unnoticed.
OrphanEnds ==
  /\ \/ /\ win.dn = "null" /\ proc.down \notin {"none", "fetch"}
        /\ proc' = [proc EXCEPT !.down = "none"]
     \/ /\ win.up = "null" /\ proc.up \notin {"none", "sign"}
        /\ proc' = [proc EXCEPT !.up = "none"]
  /\ UNCHANGED <<disk, taken, logged, win, load, spent>>
-----------------------------------------------------------------------------
LogNext ==
  \/ LoaderReads \/ LoaderFinished \/ RescanButton
  \/ \E q \in Qsos : AcceptQSO(q)
  \/ EraseLog
  \/ Download \/ ScriptReplaces \/ ScriptFails \/ DownloadLotwFinished \/ DownloadToldOf
  \/ Upload \/ TqslEnds \/ UploadLotwFinished \/ UploadToldOf
  \/ ProcessCrashes \/ LotwError \/ Start \/ CloseLog \/ Crash \/ OrphanEnds

LogSpec == LogInit /\ [][LogNext]_logVars

\* Threads and processes end, Qt delivers that they did, and the operator who asked for
\* an exchange closes its message box.
LogFairSpec ==
  /\ LogSpec
  /\ WF_logVars(LoaderReads) /\ WF_logVars(LoaderFinished)
  /\ WF_logVars(ScriptReplaces \/ ScriptFails) /\ WF_logVars(TqslEnds)
  /\ WF_logVars(DownloadLotwFinished) /\ WF_logVars(DownloadToldOf)
  /\ WF_logVars(UploadLotwFinished) /\ WF_logVars(UploadToldOf) /\ WF_logVars(LotwError)
-----------------------------------------------------------------------------
(***************************************************************************)
(* No contact is lost: it stays in lotw.adi until tqsl has taken it,       *)
(* whatever is logged while tqsl runs, crashes or is asked again           *)
(* (acceptQSO, uploadLotwFinished).                                        *)
(***************************************************************************)
NothingLost == logged \subseteq disk.incr \cup taken

(***************************************************************************)
(* While an exchange runs, decodes and further exchanges are held back, so *)
(* nothing starts a contact while wsjtx_log.adi is being replaced; only    *)
(* the load that the Rescan button asked for may end this too early        *)
(* (m_logbookRead, mainwindow.cpp:9908).                                   *)
(***************************************************************************)
Exchanging == win.open /\ \/ win.dn = "live" /\ proc.down = "fetch"
                          \/ win.up = "live" /\ proc.up = "sign"
HeldBack == Exchanging => ~win.read \/ load.by = "button"

(***************************************************************************)
(* The program does not stay held back: m_logbookRead comes back whether   *)
(* the exchange succeeds, fails, crashes or is followed by a load.         *)
(***************************************************************************)
ComesBack == win.open /\ ~win.read ~> win.read \/ ~win.open

(***************************************************************************)
(* A window refuses to close, and to exchange, only for a process that     *)
(* runs or whose end it is about to handle ("Wait for the logbook to       *)
(* finish updating...", closeEvent, mainwindow.cpp:3277).                  *)
(***************************************************************************)
RefusesOnlyWhileUpdating == /\ win.dn # "null" => proc.down # "none"
                            /\ win.up # "null" => proc.up # "none"
=============================================================================
