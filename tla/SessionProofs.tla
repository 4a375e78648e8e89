--------------------------- MODULE SessionProofs ---------------------------
(***************************************************************************)
(* What Decoder and Settings guarantee holds in the program that has both. *)
(***************************************************************************)
EXTENDS Session, DecoderProofs, SettingsProofs

(***************************************************************************)
(* Each step of the program is one of the settings, or does not touch them.*)
(***************************************************************************)
LEMMA SettingsStepOf == SessionNext => [SettingsNext]_settingsVars
  BY DEF SessionNext, SettingsNext, SessionOpen, SessionClose, SessionEnds, SessionCrash

(***************************************************************************)
(* Each step keeps the handshake with jt9, a crash between two main        *)
(* windows among them.                                                     *)
(***************************************************************************)
LEMMA SessionKeepsDecoder ==
  ASSUME DecoderInv, [SessionNext]_sessionVars
  PROVE  DecoderInv'
<1>1. CASE SessionOpen
  BY <1>1, WindowKeeps DEF SessionOpen
<1>2. CASE SessionClose
  BY <1>2, WindowKeeps, DecoderStutters DEF SessionClose
<1>3. CASE SessionEnds
  BY <1>3, WindowKeeps DEF SessionEnds
<1>4. CASE SessionCrash
  BY <1>4, CrashKeeps DEF SessionCrash, ProgramCrashes
<1>5. CASE WindowStep \/ ProcessStep
  BY <1>5, WindowKeeps, ProcessKeeps
<1>6. CASE UNCHANGED decoderVars
  BY <1>6, DecoderStutters
<1> QED BY <1>1, <1>2, <1>3, <1>4, <1>5, <1>6 DEF SessionNext, sessionVars

(***************************************************************************)
(* One decode at a time, whatever the operator does with configurations.   *)
(***************************************************************************)
THEOREM SessionInvariance == SessionSpec => []DecoderInv
<1>1. SessionInit => DecoderInv
  BY DecoderInvInit DEF SessionInit
<1>2. DecoderInv /\ [SessionNext]_sessionVars => DecoderInv'
  BY SessionKeepsDecoder
<1> QED BY <1>1, <1>2, PTL DEF SessionSpec

THEOREM SessionDecodesAlone == SessionSpec => [](OneDecodeAtATime /\ StaysWhileOpen)
<1>1. DecoderInv => OneDecodeAtATime /\ StaysWhileOpen
  BY DecoderInvImplies
<1> QED BY <1>1, SessionInvariance, PTL

(***************************************************************************)
(* Opening, closing and changing a window lose no request of an open one.  *)
(***************************************************************************)
THEOREM SessionLosesInGap == SessionSpec => LostOnlyInGap
<1>1. ASSUME DecoderInv, [SessionNext]_sessionVars, app = "open", app' = "open", Unseen'
      PROVE  Unseen \/ InGap
  <2>1. CASE SessionOpen \/ SessionClose \/ SessionEnds \/ SessionCrash
    <3>1. UNCHANGED decoderVars
      BY <1>1, <2>1 DEF SessionOpen, SessionClose, SessionEnds, SessionCrash, Open, Close,
                        CloseEnds, ProgramCrashes
    <3> QED BY <1>1, <3>1, LostInGap
  <2>2. CASE WindowStep \/ ProcessStep \/ UNCHANGED decoderVars
    BY <1>1, <2>2, LostInGap
  <2> QED BY <1>1, <2>1, <2>2 DEF SessionNext, sessionVars
<1> QED BY <1>1, SessionInvariance, PTL DEF SessionSpec, LostOnlyInGap

(***************************************************************************)
(* The program as a whole does with the settings file what Settings says.  *)
(***************************************************************************)
THEOREM SessionHasSettings == SessionSpec => SettingsSpec
<1>1. SessionInit => SettingsInit
  BY DEF SessionInit
<1>2. [SessionNext]_sessionVars => [SettingsNext]_settingsVars
  BY SettingsStepOf DEF sessionVars
<1> QED BY <1>1, <1>2, PTL DEF SessionSpec, SettingsSpec

(***************************************************************************)
(* So it keeps the promise about configurations, and every member of both  *)
(* keeps its type.                                                         *)
(***************************************************************************)
THEOREM SessionKeepsConfigurations ==
  ASSUME ~CrashInSwap
  PROVE  SessionSpec => ConfigurationsKept /\ []CurrentIsNoGroup
  BY SessionHasSettings, ConfigurationsStay, CurrentOnce, PTL

THEOREM SessionTypeCorrect == ASSUME ~CrashInSwap PROVE SessionSpec => []SessionTypeOK
<1>1. DecoderInv /\ SettingsInv => SessionTypeOK
  BY DEF DecoderInv, SettingsInv, SessionTypeOK
<1> QED BY <1>1, SessionInvariance, SessionHasSettings, SettingsInvariance, PTL
=============================================================================
