------------------------------ MODULE Session ------------------------------
(***************************************************************************)
(* The life of the program: main() constructs one main window after        *)
(* another, each with a jt9 of its own, and the settings change hands      *)
(* between two of them.  Decoder and Settings share the steps that open a  *)
(* window, close it and crash.                                             *)
(***************************************************************************)
EXTENDS Decoder, Settings

sessionVars == <<decoderVars, settingsVars>>

SessionInit == DecoderInit /\ SettingsInit

SessionOpen == OpenWindow /\ Open

\* closeEvent, of a click or of a command of the menu.
SessionClose ==
  /\ CloseWindow \/ Restarts
  /\ IF ms'.at = "closing" THEN Close ELSE UNCHANGED decoderVars

SessionEnds == WindowClosed /\ CloseEnds

\* The program may also crash between two main windows.
SessionCrash ==
  /\ SettingsCrash
  /\ IF app = "down" THEN Fault /\ UNCHANGED <<app, gui, files, jt, pipe>>
     ELSE ProgramCrashes

SessionNext ==
  \/ SessionOpen \/ SessionClose \/ SessionEnds \/ SessionCrash
  \/ (WindowStep \/ ProcessStep) /\ UNCHANGED settingsVars
  \/ (MenuStep \/ LoopStep) /\ UNCHANGED decoderVars

SessionSpec == SessionInit /\ [][SessionNext]_sessionVars

SessionFairSpec ==
  /\ SessionSpec
  /\ WF_sessionVars(DecodeDone /\ UNCHANGED settingsVars)
  /\ WF_sessionVars(SubProcessFailed /\ UNCHANGED settingsVars)
  /\ WF_sessionVars(SessionEnds)
  /\ WF_sessionVars(Jt9Own /\ UNCHANGED settingsVars)
  /\ WF_sessionVars((SaveCurrent \/ LoadNew \/ FinishSwap) /\ UNCHANGED decoderVars)

(***************************************************************************)
(* A window that a command of the menu closed is followed by another one,  *)
(* or the program is gone: no swap of configurations gets stuck behind a   *)
(* decoder that does not end (closeEvent, main, MultiSettings::exit).      *)
(***************************************************************************)
SwapEnds == ms.at \in {"closing", "save", "load", "finish"} ~> ms.at \in {"ready", "off"}

SessionTypeOK == DecoderTypeOK /\ SettingsTypeOK
=============================================================================
