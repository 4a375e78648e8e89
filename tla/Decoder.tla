------------------------------ MODULE Decoder ------------------------------
(***************************************************************************)
(* The decoder process jt9 and the half of MainWindow that drives it.  The *)
(* two share a directory with two marker files.  jt9 waits (label 10 of    *)
(* jt9a) until .lock is gone, decodes what is in the shared memory, prints *)
(* <DecodeFinished> and waits (label 100) until .lock is there again.      *)
(* MainWindow removes .lock to ask for a decode and puts it back when it   *)
(* reads the answer; .quit tells jt9 to end.  jt9 looks every 10 ms.       *)
(*                                                                         *)
(* The contents of the shared memory and the decoded lines are left out.   *)
(* A crash of the program leaves its files and its jt9 behind.             *)
(***************************************************************************)
EXTENDS Naturals

CONSTANTS
  MaxStarts,  \* bound: starts of the main window, each with a jt9 of its own
  MaxFaults   \* bound: crashes, of the program or of jt9

ASSUME DecoderAssumption == MaxStarts \in Nat /\ MaxFaults \in Nat

VARIABLES
  app,    \* "down", "open", or "closing": closeEvent waits for jt9
  gui,    \* members of MainWindow, see Gui
  files,  \* the marker files in temp_dir
  jt,     \* where each jt9 is
  pipe,   \* <DecodeFinished> lines of the newest jt9 not read yet
  used    \* starts and faults so far

decoderVars == <<app, gui, files, jt, pipe, used>>

Processes == 1 .. MaxStarts
Places == {"none", "hold", "look", "work", "done", "quit", "dead"}

Gui == [busy : BOOLEAN,   \* m_decoderBusy
        data : BOOLEAN,   \* m_dataAvailable
        valid : BOOLEAN]  \* m_valid: failures of jt9 are still reported

DecoderTypeOK ==
  /\ app \in {"down", "open", "closing"}
  /\ gui \in Gui
  /\ files \in [lock : BOOLEAN, quit : BOOLEAN]
  /\ jt \in [Processes -> Places]
  /\ pipe \in Nat
  /\ used \in [starts : 0 .. MaxStarts, faults : 0 .. MaxFaults]

DecoderInit ==
  /\ app = "down"
  /\ gui = [busy |-> FALSE, data |-> FALSE, valid |-> FALSE]
  /\ files = [lock |-> FALSE, quit |-> FALSE]
  /\ jt = [p \in Processes |-> "none"]
  /\ pipe = 0
  /\ used = [starts |-> 0, faults |-> 0]

Own == used.starts          \* the jt9 of this main window
IsOwn(p) == app # "down" /\ p = Own
-----------------------------------------------------------------------------
(* MainWindow *)

OpenBesideQuit ==
  /\ app = "down" /\ used.starts < MaxStarts
  /\ app' = "open"
  /\ used' = [used EXCEPT !.starts = @ + 1]
  /\ files' = [files EXCEPT !.lock = TRUE]
  /\ jt' = [jt EXCEPT ![used.starts + 1] = "hold"]
  /\ gui' = [busy |-> FALSE, data |-> FALSE, valid |-> TRUE]
  /\ pipe' = 0

\* The constructor: a .quit left behind would end the new jt9 at once.
Open ==
  /\ app = "down" /\ used.starts < MaxStarts
  /\ app' = "open"
  /\ used' = [used EXCEPT !.starts = @ + 1]
  /\ files' = [lock |-> TRUE, quit |-> FALSE]
  /\ jt' = [jt EXCEPT ![used.starts + 1] = "hold"]
  /\ gui' = [busy |-> FALSE, data |-> FALSE, valid |-> TRUE]
  /\ pipe' = 0

\* decode(): the shared memory is filled, .lock removed, decodeBusy(true).
Decode ==
  /\ files' = [files EXCEPT !.lock = FALSE]
  /\ gui' = [gui EXCEPT !.busy = TRUE, !.data = TRUE]
  /\ UNCHANGED <<app, jt, pipe, used>>

\* dataSink, at the end of a receive period: asks without looking at m_decoderBusy.
DataSink == app = "open" /\ Decode

\* The Decode button, Shift-D, a double click on the waterfall.
DecodeAgain ==
  /\ app = "open" /\ ~gui.busy /\ gui.data
  /\ Decode

DecodeDoneAtAnyLine ==
  /\ app # "down"
  /\ pipe' = pipe - 1
  /\ files' = [files EXCEPT !.lock = TRUE]
  /\ gui' = [gui EXCEPT !.busy = FALSE]
  /\ UNCHANGED <<app, jt, used>>

DecodeDoneUnlocked ==
  /\ app # "down" /\ pipe > 0
  /\ pipe' = pipe - 1
  /\ gui' = [gui EXCEPT !.busy = FALSE]
  /\ UNCHANGED <<app, files, jt, used>>

\* readFromStdout at <DecodeFinished>, and decodeDone.  waitForFinished of a closing
\* window delivers the line as well.
DecodeDone ==
  /\ app # "down" /\ pipe > 0
  /\ pipe' = pipe - 1
  /\ files' = [files EXCEPT !.lock = TRUE]
  /\ gui' = [gui EXCEPT !.busy = FALSE]
  /\ UNCHANGED <<app, jt, used>>

\* subProcessFailed or subProcessError: report it once and call close(), which closeEvent
\* may refuse.
SubProcessFailed ==
  /\ app = "open" /\ gui.valid /\ jt[Own] = "dead"
  /\ gui' = [gui EXCEPT !.valid = FALSE]
  /\ UNCHANGED <<app, files, jt, pipe, used>>

\* closeEvent up to waitForFinished.
Close ==
  /\ app = "open"
  /\ app' = "closing"
  /\ gui' = [gui EXCEPT !.valid = FALSE]
  /\ files' = [lock |-> FALSE, quit |-> TRUE]
  /\ UNCHANGED <<jt, pipe, used>>

CloseWaits ==
  /\ app = "closing" /\ jt[Own] = "quit"
  /\ app' = "down"
  /\ \E l \in {files.lock, FALSE} : files' = [lock |-> l, quit |-> FALSE]
  /\ pipe' = 0
  /\ UNCHANGED <<gui, jt, used>>

\* The rest of it: jt9 has ended or is killed after a second.  At the end of the program
\* temp_dir is removed.
CloseEnds ==
  /\ app = "closing"
  /\ app' = "down"
  /\ jt' = [jt EXCEPT ![Own] = IF @ = "quit" THEN @ ELSE "dead"]
  /\ \E l \in {files.lock, FALSE} : files' = [lock |-> l, quit |-> FALSE]
  /\ pipe' = 0
  /\ UNCHANGED <<gui, used>>
-----------------------------------------------------------------------------
(* jt9a *)

MovesTo(p, place) == jt' = [jt EXCEPT ![p] = place]

\* Label 10: .lock is gone ...
SeesLockGone(p) ==
  /\ jt[p] = "hold" /\ ~files.lock
  /\ MovesTo(p, "look")
  /\ UNCHANGED <<app, gui, files, pipe, used>>

\* ... and .quit is looked at next.
LooksForQuit(p) ==
  /\ jt[p] = "look"
  /\ MovesTo(p, IF files.quit THEN "quit" ELSE "work")
  /\ UNCHANGED <<app, gui, files, pipe, used>>

FinishesAtOnce(p) ==
  /\ jt[p] = "work"
  /\ MovesTo(p, "hold") /\ pipe' = IF IsOwn(p) THEN pipe + 1 ELSE pipe
  /\ UNCHANGED <<app, gui, files, used>>

FinishesSilently(p) ==
  /\ jt[p] = "work"
  /\ \/ MovesTo(p, "done") /\ pipe' \in {pipe, IF IsOwn(p) THEN pipe + 1 ELSE pipe}
     \/ ~IsOwn(p) /\ MovesTo(p, "dead") /\ pipe' = pipe
  /\ UNCHANGED <<app, gui, files, used>>

\* multimode_decoder ends.  A jt9 without a main window prints to a closed pipe, which may
\* end it.
Finishes(p) ==
  /\ jt[p] = "work"
  /\ \/ MovesTo(p, "done") /\ pipe' = IF IsOwn(p) THEN pipe + 1 ELSE pipe
     \/ ~IsOwn(p) /\ MovesTo(p, "dead") /\ pipe' = pipe
  /\ UNCHANGED <<app, gui, files, used>>

\* Label 100: .lock is back.
SeesLockBack(p) ==
  /\ jt[p] = "done" /\ files.lock
  /\ MovesTo(p, "hold")
  /\ UNCHANGED <<app, gui, files, pipe, used>>

Jt9(p) == SeesLockGone(p) \/ LooksForQuit(p) \/ Finishes(p) \/ SeesLockBack(p)
-----------------------------------------------------------------------------
(* Faults *)

Fault == /\ used.faults < MaxFaults
         /\ used' = [used EXCEPT !.faults = @ + 1]

\* jt9 crashes in a decode.
Jt9Crashes ==
  /\ app # "down" /\ jt[Own] = "work"
  /\ Fault /\ MovesTo(Own, "dead")
  /\ UNCHANGED <<app, gui, files, pipe>>

\* The program crashes: its jt9 goes on without it.
ProgramCrashes ==
  /\ app # "down"
  /\ Fault
  /\ app' = "down" /\ pipe' = 0
  /\ UNCHANGED <<gui, files, jt>>
-----------------------------------------------------------------------------
\* What a main window does while it stays open, or closing.
WindowStep == DataSink \/ DecodeAgain \/ DecodeDone \/ SubProcessFailed
ProcessStep == Jt9Crashes \/ \E p \in Processes : Jt9(p)

DecoderNext == Open \/ WindowStep \/ Close \/ CloseEnds \/ ProcessStep \/ ProgramCrashes

DecoderSpec == DecoderInit /\ [][DecoderNext]_decoderVars

\* Qt delivers what the process wrote and that it ended, waitForFinished has a time limit,
\* the newest jt9 gets processor time and its decodes end.
Jt9Own == app # "down" /\ Jt9(Own)
DecoderFairness ==
  /\ WF_decoderVars(DecodeDone) /\ WF_decoderVars(SubProcessFailed)
  /\ WF_decoderVars(CloseEnds)
  /\ WF_decoderVars(Jt9Own)

DecoderFairSpec == DecoderSpec /\ DecoderFairness
-----------------------------------------------------------------------------
(***************************************************************************)
(* One decode at a time: what jt9 works on and what it has answered make at *)
(* most one decode, and while there is one m_decoderBusy says so, although  *)
(* dataSink asks without looking.  So a command of the operator, which does *)
(* look, never changes the parameters under a decode (decode, decodeDone).  *)
(***************************************************************************)
Working == jt[Own] \in {"look", "work"}
OneDecodeAtATime ==
  app = "open" => /\ pipe + (IF Working THEN 1 ELSE 0) <= 1
                  /\ Working \/ pipe > 0 => gui.busy

(***************************************************************************)
(* The decoder of an open window never quits, also after a crash that left *)
(* .quit behind ("its presence will cause jt9 to exit a soon as we start   *)
(* it and decodes will hang", mainwindow.cpp:882).                         *)
(***************************************************************************)
StaysWhileOpen == app = "open" => jt[Own] # "quit"

(***************************************************************************)
(* jt9 and MainWindow wait for each other: .lock is gone, but jt9 waits    *)
(* for it to come back (label 100) and has no answer to give.              *)
(***************************************************************************)
Unseen == jt[Own] = "done" /\ ~files.lock /\ pipe = 0

(***************************************************************************)
(* A decode asked for ends, unless the window closes or the operator was   *)
(* told that jt9 failed: m_decoderBusy does not stay set without a word.   *)
(* A request that is Unseen does not end: the code has no way out of it    *)
(* but closing the window.                                                 *)
(***************************************************************************)
DecodesEnd ==
  app = "open" /\ gui.busy /\ ~Unseen ~> app # "open" \/ ~gui.busy \/ ~gui.valid

(***************************************************************************)
(* What dataSink asks without looking, during a decode or before the answer *)
(* is read, costs a decode and never the handshake: a request goes unseen  *)
(* only when it comes after the answer was read and before jt9 has seen    *)
(* .lock come back (decode, decodeDone, label 100 of jt9a).                *)
(***************************************************************************)
InGap == jt[Own] = "done" /\ files.lock /\ pipe = 0
LostOnlyInGap ==
  [][app = "open" /\ app' = "open" /\ Unseen' => Unseen \/ InGap]_decoderVars
=============================================================================
