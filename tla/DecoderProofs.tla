--------------------------- MODULE DecoderProofs ---------------------------
(***************************************************************************)
(* Proofs about Decoder, for any number of starts and faults.              *)
(***************************************************************************)
EXTENDS Decoder, TLAPS

(***************************************************************************)
(* Why one decode at a time is enough although dataSink does not look: an  *)
(* answer on its way means that .lock is away, so jt9 cannot pass label    *)
(* 100 before readFromStdout has put .lock back; and whenever .lock is     *)
(* away, m_decoderBusy is set.                                             *)
(***************************************************************************)
Handshake ==
  /\ ~files.quit
  /\ jt[Own] \in {"hold", "look", "work", "done", "dead"}
  /\ jt[Own] \in {"look", "work"} => pipe = 0 /\ ~files.lock
  /\ jt[Own] \in {"hold", "dead"} => pipe = 0
  /\ jt[Own] = "done" => pipe \in {0, 1}
  /\ pipe > 0 => ~files.lock
  /\ ~files.lock => gui.busy

DecoderInv ==
  /\ DecoderTypeOK
  /\ app # "down" => Own \in Processes
  /\ app = "open" => Handshake

(***************************************************************************)
(* The invariant gives what the runs check (decodeDone, jt9a).             *)
(***************************************************************************)
LEMMA DecoderInvImplies == DecoderInv => OneDecodeAtATime /\ StaysWhileOpen
  BY DEF DecoderInv, Handshake, OneDecodeAtATime, StaysWhileOpen, Working, DecoderTypeOK, Gui

(***************************************************************************)
(* It holds before the first main window.                                  *)
(***************************************************************************)
LEMMA DecoderInvInit == DecoderInit => DecoderInv
  BY DecoderAssumption DEF DecoderInit, DecoderInv, DecoderTypeOK, Gui, Processes, Places

(***************************************************************************)
(* The steps of the main window: the constructor, decode(), decodeDone,    *)
(* subProcessFailed and closeEvent.                                        *)
(***************************************************************************)
LEMMA WindowKeeps ==
  ASSUME DecoderInv, Open \/ WindowStep \/ Close \/ CloseEnds
  PROVE  DecoderInv'
<1> USE DecoderAssumption DEF DecoderInv, DecoderTypeOK, Gui, Processes, Places, Own
<1>1. CASE Open
  BY <1>1 DEF Open, Handshake
<1>2. CASE DataSink
  BY <1>2 DEF DataSink, Decode, Handshake
<1>3. CASE DecodeAgain
  BY <1>3 DEF DecodeAgain, Decode, Handshake
<1>4. CASE DecodeDone
  <2>1. /\ pipe \in Nat /\ pipe > 0 /\ pipe' = pipe - 1 /\ pipe' \in Nat
        /\ files' = [files EXCEPT !.lock = TRUE] /\ gui' = [gui EXCEPT !.busy = FALSE]
        /\ UNCHANGED <<app, jt, used>>
    BY <1>4 DEF DecodeDone
  <2>2. DecoderTypeOK' /\ (app # "down" => Own \in Processes)'
    BY <2>1
  <2>3. ASSUME app = "open" PROVE Handshake'
    BY <2>1, <2>3 DEF Handshake
  <2> QED BY <2>1, <2>2, <2>3
<1>5. CASE SubProcessFailed
  BY <1>5 DEF SubProcessFailed, Handshake
<1>6. CASE Close
  BY <1>6 DEF Close
<1>7. CASE CloseEnds
  <2>1. PICK lock \in BOOLEAN : files' = [lock |-> lock, quit |-> FALSE]
    <3>1. {files.lock, FALSE} \subseteq BOOLEAN
      OBVIOUS
    <3> QED BY <1>7, <3>1 DEF CloseEnds
  <2>2. jt' \in [Processes -> Places]
    BY <1>7 DEF CloseEnds
  <2>3. app' = "down" /\ pipe' = 0 /\ UNCHANGED <<gui, used>>
    BY <1>7 DEF CloseEnds
  <2> QED BY <2>1, <2>2, <2>3
<1> QED BY <1>1, <1>2, <1>3, <1>4, <1>5, <1>6, <1>7 DEF WindowStep

(***************************************************************************)
(* The steps of the jt9 processes, those of earlier windows among them.    *)
(***************************************************************************)
LEMMA ProcessKeeps ==
  ASSUME DecoderInv, ProcessStep
  PROVE  DecoderInv'
<1> USE DecoderAssumption DEF DecoderInv, DecoderTypeOK, Gui, Processes, Places, Own, MovesTo
<1>1. CASE Jt9Crashes
  BY <1>1 DEF Jt9Crashes, Fault, Handshake
<1>2. ASSUME NEW p \in Processes, SeesLockGone(p) PROVE DecoderInv'
  BY <1>2 DEF SeesLockGone, Handshake
<1>3. ASSUME NEW p \in Processes, LooksForQuit(p) PROVE DecoderInv'
  BY <1>3 DEF LooksForQuit, Handshake
<1>4. ASSUME NEW p \in Processes, Finishes(p) PROVE DecoderInv'
  BY <1>4 DEF Finishes, IsOwn, Handshake
<1>5. ASSUME NEW p \in Processes, SeesLockBack(p) PROVE DecoderInv'
  BY <1>5 DEF SeesLockBack, Handshake
<1> QED BY <1>1, <1>2, <1>3, <1>4, <1>5 DEF ProcessStep, Jt9

(***************************************************************************)
(* A crash, also one while no main window is open.                         *)
(***************************************************************************)
LEMMA CrashKeeps ==
  ASSUME DecoderInv, Fault, app' = "down", UNCHANGED <<gui, files, jt>>, pipe' \in {0, pipe}
  PROVE  DecoderInv'
  BY DecoderAssumption DEF DecoderInv, DecoderTypeOK, Fault, Gui, Processes

(***************************************************************************)
(* A step that changes nothing.                                            *)
(***************************************************************************)
LEMMA DecoderStutters ==
  ASSUME DecoderInv, UNCHANGED decoderVars
  PROVE  DecoderInv'
  BY DEF DecoderInv, DecoderTypeOK, Handshake, decoderVars, Own

(***************************************************************************)
(* The decoder invariant holds in every reachable state.                   *)
(***************************************************************************)
THEOREM DecoderInvariance == DecoderSpec => []DecoderInv
<1>1. DecoderInv /\ [DecoderNext]_decoderVars => DecoderInv'
  <2> SUFFICES ASSUME DecoderInv, [DecoderNext]_decoderVars PROVE DecoderInv'
    OBVIOUS
  <2>1. CASE ProgramCrashes
    BY <2>1, CrashKeeps DEF ProgramCrashes
  <2> QED BY <2>1, WindowKeeps, ProcessKeeps, DecoderStutters DEF DecoderNext
<1> QED BY <1>1, DecoderInvInit, PTL DEF DecoderSpec

(***************************************************************************)
(* Every member keeps its type; the answers of jt9 are never read twice.   *)
(***************************************************************************)
THEOREM DecoderTypeCorrect == DecoderSpec => []DecoderTypeOK
<1>1. DecoderInv => DecoderTypeOK
  BY DEF DecoderInv
<1> QED BY <1>1, DecoderInvariance, PTL

(***************************************************************************)
(* jt9 never has two decodes, and m_decoderBusy is set while it has one.   *)
(***************************************************************************)
THEOREM DecodesAlone == DecoderSpec => []OneDecodeAtATime
<1>1. DecoderInv => OneDecodeAtATime
  BY DecoderInvImplies
<1> QED BY <1>1, DecoderInvariance, PTL

(***************************************************************************)
(* The decoder of an open window has not quit.                             *)
(***************************************************************************)
THEOREM NeverQuitsEarly == DecoderSpec => []StaysWhileOpen
<1>1. DecoderInv => StaysWhileOpen
  BY DecoderInvImplies
<1> QED BY <1>1, DecoderInvariance, PTL

(***************************************************************************)
(* jt9 and MainWindow begin to wait for each other only by a request made  *)
(* in the gap between decodeDone and jt9's next look at .lock.             *)
(***************************************************************************)
LEMMA LostInGap ==
  ASSUME DecoderInv, app = "open", Unseen', WindowStep \/ ProcessStep \/ UNCHANGED decoderVars
  PROVE  Unseen \/ InGap
<1>1. /\ jt \in [Processes -> Places] /\ pipe \in Nat /\ Own \in Processes
      /\ files \in [lock : BOOLEAN, quit : BOOLEAN]
  BY DEF DecoderInv, DecoderTypeOK
<1>2. CASE DataSink \/ DecodeAgain
  BY <1>1, <1>2 DEF DataSink, DecodeAgain, Decode, Unseen, InGap, Own
<1>3. CASE DecodeDone
  BY <1>1, <1>3 DEF DecodeDone, Unseen
<1>4. CASE SubProcessFailed \/ UNCHANGED decoderVars
  BY <1>4 DEF SubProcessFailed, decoderVars, Unseen, Own
<1>5. CASE Jt9Crashes
  BY <1>1, <1>5 DEF Jt9Crashes, Fault, MovesTo, Unseen, Own
<1>6. ASSUME NEW p \in Processes, Jt9(p) PROVE Unseen
  <2>1. Own' = Own /\ files' = files
    BY <1>6 DEF Jt9, SeesLockGone, LooksForQuit, Finishes, SeesLockBack, Own
  <2>2. CASE Finishes(p) /\ p = Own
    BY <1>1, <2>1, <2>2 DEF Finishes, MovesTo, IsOwn, Unseen
  <2>3. CASE Finishes(p) /\ p # Own
    BY <1>1, <2>1, <2>3 DEF Finishes, MovesTo, IsOwn, Unseen
  <2>4. CASE SeesLockGone(p) \/ LooksForQuit(p) \/ SeesLockBack(p)
    BY <1>1, <2>1, <2>4 DEF SeesLockGone, LooksForQuit, SeesLockBack, MovesTo, Unseen
  <2> QED BY <1>6, <2>2, <2>3, <2>4 DEF Jt9
<1> QED BY <1>2, <1>3, <1>4, <1>5, <1>6 DEF WindowStep, ProcessStep

(***************************************************************************)
(* No other request goes unseen, for any number of windows and crashes.    *)
(***************************************************************************)
THEOREM OnlyTheGapLoses == DecoderSpec => LostOnlyInGap
<1>1. ASSUME DecoderInv, [DecoderNext]_decoderVars, app = "open", app' = "open", Unseen'
      PROVE  Unseen \/ InGap
  <2>1. WindowStep \/ ProcessStep \/ UNCHANGED decoderVars
    BY <1>1 DEF DecoderNext, Open, Close, CloseEnds, ProgramCrashes
  <2> QED BY <1>1, <2>1, LostInGap
<1> QED BY <1>1, DecoderInvariance, PTL DEF DecoderSpec, LostOnlyInGap
=============================================================================
