------------------------------- MODULE Transmit -------------------------------
(***************************************************************************)
(* The transmit sequencer of MainWindow, composed with rig control: the    *)
(* 100 ms tick of guiUpdate keys the radio at the start of a period, the   *)
(* rig's report of PTT starts the Tx delay, the delay starts the audio,    *)
(* and the end of the message, Halt Tx or a failure of the rig takes it    *)
(* all down again, PTT last.  The modulator runs on the audio thread and   *)
(* only meets the GUI in the queue of the calls posted to it.              *)
(*                                                                         *)
(* FT8, no Tune, simplex, and nobody turns the dial, so m_freqNominal is   *)
(* the frequency reported last.  Monitor comes on with the rig.  The clock *)
(* counts ticks in two Tx/Rx periods.                                      *)
(***************************************************************************)
EXTENDS Rig

CONSTANTS
  Period, TxEnd, LateStart,   \* of a period, in ticks
  EndDelay, TxDelay,          \* the two PTT delays, in ticks
  MaxOperator,                \* bound: actions of the operator
  MaxBacklog                  \* bound: calls of other threads waiting at a tick

\* The gap between two periods is longer than the delays.
ASSUME SlotAssumption ==
  /\ Period \in Nat /\ TxEnd \in Nat /\ LateStart \in Nat
  /\ EndDelay \in Nat \ {0} /\ TxDelay \in Nat \ {0} /\ MaxOperator \in Nat
  /\ MaxBacklog \in Nat
  /\ LateStart <= TxEnd /\ TxEnd + EndDelay + 1 < Period

VARIABLES
  tx,     \* MainWindow's transmit state, its two timers (0: not running)
  audio,  \* the modulator, and the calls posted to it
  clock,  \* ticks into the pair of periods, at the last tick
  left    \* bound: actions of the operator still to come

txVars == <<tx, audio, clock, left>>
transmitVars == <<rigVars, tx, audio, clock, left>>

Sequencer ==
  [auto : BOOLEAN,          \* Enable Tx
   txFirst : BOOLEAN,       \* transmit in the first period of a pair
   iptt : BOOLEAN, iptt0 : BOOLEAN,     \* keyed; as of the last tick
   btxok : BOOLEAN, btxok0 : BOOLEAN,   \* may go on; as of the last tick
   transmitting : BOOLEAN,
   whenReady : BOOLEAN,     \* m_tx_when_ready: PTT asked for, not seen yet
   monitoring : BOOLEAN,
   reopen : BOOLEAN,        \* rigOpen is posted or offered
   ptt0 : 0..EndDelay + 1,  \* ptt0Timer
   ptt1 : 0..TxDelay + 1]   \* ptt1Timer

TxTime(c, first) == IF first THEN c < TxEnd ELSE c >= Period /\ c < Period + TxEnd
InTime(c) == c % Period < LateStart      \* a transmission may still start late

\* A running timer is due within a tick, or at once.
Due(n) == n \in {1, 2}

\* Mutant.
CountDownAlways(n) == n - 1              \* a timer that does not run, too

CountDown(n) == IF n > 1 THEN n - 1 ELSE n
-----------------------------------------------------------------------------
(* MainWindow: operators on g, the sequencer, Configuration and the calls   *)
(* posted to the modulator.                                                 *)

\* on_stopTxButton_clicked
Halt(g) == [g EXCEPT !.tx.auto = FALSE, !.tx.btxok = FALSE]

\* Mutant.
StopTxNoTimer(g) ==                      \* ptt0Timer not started
  [g EXCEPT !.tx.btxok = FALSE, !.tx.transmitting = FALSE, !.tx.iptt = FALSE,
            !.tx.monitoring = TRUE, !.posted = Append(@, "stop")]

StopTx(g) ==
  [g EXCEPT !.tx.btxok = FALSE, !.tx.transmitting = FALSE, !.tx.iptt = FALSE,
            !.tx.ptt0 = EndDelay + 1, !.tx.monitoring = TRUE,
            !.posted = Append(@, "stop")]

\* setRig puts the radio on the dial frequency again, which also opens it.
KeyUp(g) ==
  LET c == IF g.tx.monitoring THEN TransceiverFrequency(OpenRig(g.conf), view.freq)
                              ELSE g.conf
  IN [g EXCEPT !.tx.iptt = TRUE, !.tx.whenReady = TRUE, !.conf = TransceiverPtt(c, TRUE)]

Keys(g, c, msg) == ~g.tx.iptt /\ msg /\ TxTime(c, g.tx.txFirst) /\ InTime(c)

\* The part of guiUpdate for a station that transmits or would: the message may be
\* gone, a transmission may start, and one that is over may not go on.
Sequence(g, c, msg) ==
  LET a == IF msg THEN g ELSE Halt(g)
      b == IF Keys(a, c, msg) THEN KeyUp(a) ELSE a
  IN IF TxTime(c, g.tx.txFirst) THEN b ELSE [b EXCEPT !.tx.btxok = FALSE]

Begin(g) ==                 \* with transmitDisplay
  IF g.tx.iptt /\ ~g.tx.iptt0
    THEN [g EXCEPT !.tx.transmitting = TRUE, !.tx.btxok = TRUE, !.tx.monitoring = FALSE]
    ELSE g

\* Mutant.
EndLate(g) ==                            \* the level of btxok0, not its edge
  IF ~g.tx.btxok /\ ~g.tx.btxok0 /\ g.tx.iptt THEN StopTx(g) ELSE g

\* The falling edge of m_btxok ends the transmission.
End(g) == IF ~g.tx.btxok /\ g.tx.btxok0 /\ g.tx.iptt THEN StopTx(g) ELSE g

GuiUpdate(g, c, msg) ==
  LET a == IF g.tx.transmitting \/ g.tx.auto THEN Sequence(g, c, msg) ELSE g
      b == End(Begin(a))
  IN [b EXCEPT !.tx.iptt0 = b.tx.iptt, !.tx.btxok0 = b.tx.btxok]

\* What MainWindow makes of a report of the rig.
Reported(t, s) ==
  LET rising == s.ptt /\ ~view.ptt
  IN [t EXCEPT !.ptt1 = IF rising /\ t.whenReady /\ t.iptt THEN TxDelay + 1 ELSE @,
               !.whenReady = @ /\ ~rising,
               !.monitoring = @ \/ (s.online /\ ~view.online /\ ~t.transmitting)]
-----------------------------------------------------------------------------
(* The GUI thread *)

TxInit ==
  /\ conf = OpenRig([active |-> FALSE, num |-> 0, cached |-> Unknown, calls |-> <<>>])
  /\ rig = Instance /\ events = <<>> /\ view = Unknown
  /\ \E f \in Frequencies :
       radio = [freq |-> f, ptt |-> FALSE, shown |-> [freq |-> f, ptt |-> FALSE]]
  /\ budget = [commands |-> MaxCommands, turns |-> 0, faults |-> MaxFaults]
  /\ tx = [auto |-> FALSE, txFirst |-> TRUE, iptt |-> FALSE, iptt0 |-> FALSE,
           btxok |-> FALSE, btxok0 |-> FALSE, transmitting |-> FALSE,
           whenReady |-> FALSE, monitoring |-> FALSE, reopen |-> FALSE,
           ptt0 |-> 0, ptt1 |-> 0]
  /\ audio = [playing |-> FALSE, calls |-> <<>>]
  /\ clock = 0 /\ left = MaxOperator

\* The bound on commands counts the times the radio is keyed: beyond it there is
\* no message to send.
Tick(msg) ==
  LET c == (clock + 1) % (2 * Period)
      g == [tx |-> [tx EXCEPT !.ptt0 = CountDown(@), !.ptt1 = CountDown(@)],
            conf |-> conf, posted |-> audio.calls]
      h == GuiUpdate(g, c, msg)
      keyed == h.tx.iptt /\ ~tx.iptt
  IN /\ Drained /\ tx.ptt0 # 1 /\ tx.ptt1 # 1
     /\ Len(conf.calls) + Len(events) + Len(audio.calls) <= MaxBacklog
     /\ keyed => budget.commands > 0
     /\ budget' = [budget EXCEPT !.commands = IF keyed THEN @ - 1 ELSE @]
     /\ clock' = c /\ tx' = h.tx /\ conf' = h.conf
     /\ audio' = [audio EXCEPT !.calls = h.posted]
     /\ UNCHANGED <<rig, radio, events, view, left>>

\* Mutant.
EndTimerSilent ==                        \* PTT not lowered under a message
  /\ Drained /\ Due(tx.ptt0)
  /\ tx' = [tx EXCEPT !.ptt0 = 0]
  /\ conf' = IF audio.playing THEN conf ELSE TransceiverPtt(conf, FALSE)
  /\ UNCHANGED <<rig, radio, events, view, budget, audio, clock, left>>

EndTimer ==                 \* stopTx2
  /\ Drained /\ Due(tx.ptt0)
  /\ tx' = [tx EXCEPT !.ptt0 = 0]
  /\ conf' = TransceiverPtt(conf, FALSE)
  /\ UNCHANGED <<rig, radio, events, view, budget, audio, clock, left>>

DelayTimer ==               \* startTx2
  /\ Drained /\ Due(tx.ptt1)
  /\ tx' = [tx EXCEPT !.ptt1 = 0]
  /\ audio' = IF audio.playing THEN audio ELSE [audio EXCEPT !.calls = Append(@, "start")]
  /\ UNCHANGED <<rigVars, clock, left>>

TxHandleUpdate ==
  /\ HandleUpdate
  /\ tx' = IF Head(events).num = conf.num THEN Reported(tx, Head(events).s) ELSE tx
  /\ UNCHANGED <<audio, clock, left>>

TxHandleFailure ==
  /\ HandleFailure
  /\ tx' = [tx EXCEPT !.auto = FALSE, !.btxok = FALSE, !.reopen = TRUE]
  /\ UNCHANGED <<audio, clock, left>>

RigOpen ==                  \* the automatic retry, or the operator's
  /\ Drained /\ tx.reopen
  /\ tx' = [tx EXCEPT !.reopen = FALSE]
  /\ conf' = OpenRig(conf)
  /\ UNCHANGED <<rig, radio, events, view, budget, audio, clock, left>>

Operate(t) ==
  /\ Drained /\ left > 0
  /\ tx' = t /\ tx' # tx
  /\ left' = left - 1
  /\ UNCHANGED <<rigVars, audio, clock>>

EnableTx(on)   == Operate([tx EXCEPT !.auto = on])
HaltTx         == Operate(Halt([tx |-> tx]).tx)
SetTxFirst(on) == Operate([tx EXCEPT !.txFirst = on])
-----------------------------------------------------------------------------
(* The audio thread *)

\* start stops first what still plays.
ModulatorCall ==
  /\ audio.calls # <<>>
  /\ audio' = [playing |-> Head(audio.calls) = "start", calls |-> Tail(audio.calls)]
  /\ UNCHANGED <<rigVars, tx, clock, left>>

\* The samples of the message run out towards the end of the period.
MessageEnds ==
  /\ audio.playing /\ ~InTime(clock)
  /\ audio' = [audio EXCEPT !.playing = FALSE]
  /\ UNCHANGED <<rigVars, tx, clock, left>>
-----------------------------------------------------------------------------
RigThread == (TakeCall \/ PollTimer \/ DriverThrows \/ Settle) /\ UNCHANGED txVars

Ticks    == \E msg \in BOOLEAN : Tick(msg)
TxGui    == TxHandleUpdate \/ TxHandleFailure
Operator == HaltTx \/ \E on \in BOOLEAN : EnableTx(on) \/ SetTxFirst(on)

TxNext == \/ Ticks \/ EndTimer \/ DelayTimer \/ TxGui \/ RigOpen \/ Operator
          \/ ModulatorCall \/ MessageEnds \/ RigThread

TxSpec == TxInit /\ [][TxNext]_transmitVars
-----------------------------------------------------------------------------
(* Properties *)

TxTypeOK ==
  /\ TypeOK
  /\ tx \in Sequencer
  /\ audio \in [playing : BOOLEAN, calls : Seq({"start", "stop"})]
  /\ clock \in 0..2 * Period - 1
  /\ left \in 0..MaxOperator

\* PTT is never left asked for: either a transmission is on or the timer runs that
\* lowers it, whatever was halted, started again or failed in between.
PttIsDropped == conf.cached.ptt /\ ~tx.iptt => tx.ptt0 > 0

\* With every command carried out, the radio is keyed only for a transmission
\* or its end delay.
KeyedForTransmission == Quiet /\ radio.ptt => tx.iptt \/ tx.ptt0 > 0

\* Once guiUpdate has run, nothing is sent outside the station's own part of the
\* periods, also when the operator changes periods in a transmission.
SendsInSlot == [][clock' # clock => (tx'.iptt => TxTime(clock', tx'.txFirst))]_transmitVars
=============================================================================
