---------------------------- MODULE TransmitProofs ----------------------------
(***************************************************************************)
(* Proofs about transmitting, for any lengths of the period, the message   *)
(* and the delays: types, PTT is never left asked for, the radio is keyed  *)
(* only to transmit, and nothing is sent in the other station's periods.   *)
(*                                                                         *)
(* The rig's invariants (RigProofs) hold under the sequencer as they do    *)
(* under any client; on top of it, the flags of two ticks agree.           *)
(***************************************************************************)
EXTENDS Transmit, RigProofs

Posts   == Seq({"start", "stop"})
Windows == [tx : Sequencer, conf : Confs, posted : Posts]   \* what guiUpdate works on

Dropped(t, c) == c.cached.ptt /\ ~t.iptt => t.ptt0 > 0

\* Between two ticks a station is keyed, transmitting and seen so by the next tick,
\* or none of these; and while it is, the last tick left it free to go on.
Edges(t) == /\ t.iptt0 = t.iptt /\ t.transmitting = t.iptt
            /\ t.iptt => t.btxok0

\* What the parts of guiUpdate leave alone.
SameFlags(t, u) == /\ t.iptt0 = u.iptt0 /\ t.transmitting = u.transmitting
                   /\ t.btxok0 = u.btxok0 /\ t.txFirst = u.txFirst
SameKeying(t, u) == /\ t.iptt = u.iptt /\ t.iptt0 = u.iptt0 /\ t.btxok0 = u.btxok0
                    /\ t.txFirst = u.txFirst /\ t.ptt0 = u.ptt0

OwnTypes == /\ tx \in Sequencer
            /\ audio \in [playing : BOOLEAN, calls : Posts]
            /\ clock \in 0..2 * Period - 1
            /\ left \in 0..MaxOperator

TxInv == RigInv /\ OwnTypes /\ Dropped(tx, conf) /\ Edges(tx)
-----------------------------------------------------------------------------
(* Configuration::impl and PTT *)

\* Only the PTT command asks for PTT; a new instance forgets it.
LEMMA PttCommands ==
  ASSUME NEW c \in Confs
  PROVE  /\ OpenRig(c).cached.ptt => c.cached.ptt
         /\ \A f : TransceiverFrequency(c, f).cached.ptt = c.cached.ptt
         /\ TransceiverPtt(c, FALSE).cached.ptt = FALSE
         /\ CloseRig(c).cached.ptt = c.cached.ptt
         /\ \A s : FollowRig(c, s).cached.ptt = c.cached.ptt
<1>1. OpenRig(c).cached.ptt => c.cached.ptt
  BY DEF OpenRig, Post, Confs, TransceiverState, Unknown
<1>2. ASSUME NEW f PROVE TransceiverFrequency(c, f).cached.ptt = c.cached.ptt
  BY DEF TransceiverFrequency, Post, Confs, TransceiverState
<1>3. TransceiverPtt(c, FALSE).cached.ptt = FALSE
  BY DEF TransceiverPtt, Post, Confs, TransceiverState
<1>4. CloseRig(c).cached.ptt = c.cached.ptt BY DEF CloseRig, Confs
<1>5. ASSUME NEW s PROVE FollowRig(c, s).cached.ptt = c.cached.ptt
  <2> DEFINE d == [c EXCEPT !.cached.online = s.online, !.cached.freq = s.freq]
  <2>1. d.cached.ptt = c.cached.ptt BY DEF Confs, TransceiverState
  <2>2. CloseRig(d).cached.ptt = d.cached.ptt BY DEF CloseRig, Confs
  <2> QED BY <2>1, <2>2 DEF FollowRig
<1> QED BY <1>1, <1>2, <1>3, <1>4, <1>5
-----------------------------------------------------------------------------
(* guiUpdate *)

\* Ending a transmission starts the timer that lowers PTT.
LEMMA StopTxType ==
  ASSUME NEW g \in Windows
  PROVE  /\ StopTx(g) \in Windows /\ StopTx(g).conf = g.conf
         /\ StopTx(g).tx.ptt0 > 0 /\ ~StopTx(g).tx.iptt /\ ~StopTx(g).tx.transmitting
<1>1. EndDelay + 1 \in 0..EndDelay + 1 /\ EndDelay + 1 > 0 BY SlotAssumption
<1>2. Append(g.posted, "stop") \in Posts BY DEF Windows, Posts
<1>3. g.tx \in Sequencer BY DEF Windows
<1> QED BY <1>1, <1>2, <1>3 DEF StopTx, Windows, Sequencer

\* Halting touches no timer and ends nothing by itself.
LEMMA HaltType ==
  ASSUME NEW g \in Windows
  PROVE  /\ Halt(g) \in Windows /\ Halt(g).conf = g.conf
         /\ SameKeying(Halt(g).tx, g.tx) /\ SameFlags(Halt(g).tx, g.tx)
BY DEF Halt, Windows, Sequencer, SameKeying, SameFlags

\* Keying posts its commands in order and leaves the other flags to Begin.
LEMMA KeyUpType ==
  ASSUME NEW g \in Windows, NEW online \in BOOLEAN, Ordered(g.conf, online),
         view \in TransceiverState
  PROVE  /\ KeyUp(g) \in Windows /\ Ordered(KeyUp(g).conf, online) /\ KeyUp(g).tx.iptt
         /\ SameFlags(KeyUp(g).tx, g.tx)
<1> DEFINE c == IF g.tx.monitoring THEN TransceiverFrequency(OpenRig(g.conf), view.freq)
                                   ELSE g.conf
           p == TransceiverPtt(c, TRUE)
<1>1. view.freq \in Frequencies \cup {0} BY DEF TransceiverState
<1>2. Ordered(OpenRig(g.conf), online) BY CommandsOrdered
<1>3. Ordered(c, online) BY <1>1, <1>2, CommandsOrdered
<1>4. TRUE \in BOOLEAN OBVIOUS
<1> HIDE DEF c
<1>5. Ordered(p, online) BY <1>3, <1>4, CommandsOrdered
<1>6. KeyUp(g) = [g EXCEPT !.tx.iptt = TRUE, !.tx.whenReady = TRUE, !.conf = p]
  BY DEF KeyUp, c
<1>7. p \in Confs BY <1>5 DEF Ordered
<1> HIDE DEF p
<1> DEFINE t == [g.tx EXCEPT !.iptt = TRUE, !.whenReady = TRUE]
<1>8. t \in Sequencer /\ t.iptt /\ SameFlags(t, g.tx)
  BY DEF Windows, Sequencer, SameFlags
<1>9. KeyUp(g) = [g EXCEPT !.tx = t, !.conf = p] BY <1>6 DEF Windows
<1> HIDE DEF t
<1>10. KeyUp(g) \in Windows /\ KeyUp(g).tx = t /\ KeyUp(g).conf = p
  BY <1>7, <1>8, <1>9 DEF Windows
<1> QED BY <1>5, <1>8, <1>10

\* After Sequence a station that was keyed still is, without leave to go on outside
\* its period; one that was not is keyed only in its period.
LEMMA SequenceType ==
  ASSUME NEW g \in Windows, NEW c, NEW msg \in BOOLEAN, NEW online \in BOOLEAN,
         Ordered(g.conf, online), view \in TransceiverState, Dropped(g.tx, g.conf)
  PROVE  LET h == Sequence(g, c, msg)
         IN /\ h \in Windows /\ Ordered(h.conf, online) /\ Dropped(h.tx, h.conf)
            /\ SameFlags(h.tx, g.tx)
            /\ g.tx.iptt => h.tx.iptt
            /\ h.tx.iptt /\ ~g.tx.iptt => TxTime(c, g.tx.txFirst)
            /\ ~TxTime(c, g.tx.txFirst) => ~h.tx.btxok
<1> DEFINE a == IF msg THEN g ELSE Halt(g)
           b == IF Keys(a, c, msg) THEN KeyUp(a) ELSE a
           h == [b EXCEPT !.tx.btxok = FALSE]
<1>1. /\ a \in Windows /\ a.conf = g.conf
      /\ SameKeying(a.tx, g.tx) /\ SameFlags(a.tx, g.tx)
  <2>1. CASE msg BY <2>1 DEF SameKeying, SameFlags
  <2>2. CASE ~msg BY <2>2, HaltType
  <2> QED BY <2>1, <2>2
<1>2. Ordered(a.conf, online) /\ Dropped(a.tx, a.conf) BY <1>1 DEF Dropped, SameKeying
<1> HIDE DEF a
<1>3. /\ b \in Windows /\ Ordered(b.conf, online)
      /\ SameFlags(b.tx, g.tx)
  BY <1>1, <1>2, KeyUpType DEF SameFlags
<1>4. Dropped(b.tx, b.conf) BY <1>1, <1>2, KeyUpType DEF Dropped
<1>5. (g.tx.iptt => b.tx.iptt) /\ (b.tx.iptt /\ ~g.tx.iptt => TxTime(c, g.tx.txFirst))
  BY <1>1, <1>2, KeyUpType DEF Keys, SameKeying, SameFlags
<1> HIDE DEF b
<1>6. /\ h \in Windows /\ h.conf = b.conf /\ ~h.tx.btxok
      /\ SameKeying(h.tx, b.tx) /\ SameFlags(h.tx, b.tx)
  BY <1>3 DEF Windows, Sequencer, SameKeying, SameFlags
<1>7. Sequence(g, c, msg) = IF TxTime(c, g.tx.txFirst) THEN b ELSE h
  BY DEF Sequence, a, b, h
<1> HIDE DEF h
<1>8. Ordered(h.conf, online) /\ Dropped(h.tx, h.conf) BY <1>3, <1>4, <1>6 DEF Dropped, SameKeying
<1> QED BY <1>3, <1>4, <1>5, <1>6, <1>7, <1>8 DEF SameFlags, SameKeying

\* Begin completes a keying and changes nothing otherwise.
LEMMA BeginType ==
  ASSUME NEW g \in Windows
  PROVE  /\ Begin(g) \in Windows /\ Begin(g).conf = g.conf
         /\ SameKeying(Begin(g).tx, g.tx)
         /\ g.tx.iptt /\ ~g.tx.iptt0 => Begin(g).tx.transmitting /\ Begin(g).tx.btxok
         /\ ~(g.tx.iptt /\ ~g.tx.iptt0) => Begin(g) = g
<1> DEFINE t == [g.tx EXCEPT !.transmitting = TRUE, !.btxok = TRUE, !.monitoring = FALSE]
           b == [g EXCEPT !.tx = t]
<1>1. g.tx \in Sequencer BY DEF Windows
<1>2. t \in Sequencer /\ SameKeying(t, g.tx) /\ t.transmitting /\ t.btxok
  BY <1>1 DEF Sequencer, SameKeying
<1>3. SameKeying(g.tx, g.tx) BY DEF SameKeying
<1>4. Begin(g) = IF g.tx.iptt /\ ~g.tx.iptt0 THEN b ELSE g
  BY DEF Begin, Windows
<1> HIDE DEF t
<1>5. b \in Windows /\ b.conf = g.conf /\ b.tx = t BY <1>2 DEF Windows
<1> HIDE DEF b
<1> QED BY <1>2, <1>3, <1>4, <1>5

\* A tick of guiUpdate: the flags agree again, PTT will be lowered, and a station that
\* is keyed is so in its period.
LEMMA GuiUpdateType ==
  ASSUME NEW g \in Windows, NEW c, NEW msg \in BOOLEAN, NEW online \in BOOLEAN,
         Ordered(g.conf, online), view \in TransceiverState,
         Dropped(g.tx, g.conf), Edges(g.tx)
  PROVE  LET h == GuiUpdate(g, c, msg)
         IN /\ h \in Windows /\ Ordered(h.conf, online)
            /\ Dropped(h.tx, h.conf) /\ Edges(h.tx)
            /\ h.tx.iptt => TxTime(c, h.tx.txFirst)
<1> DEFINE a == IF g.tx.transmitting \/ g.tx.auto THEN Sequence(g, c, msg) ELSE g
           d == Begin(a)
           b == End(d)
           h == [b EXCEPT !.tx.iptt0 = b.tx.iptt, !.tx.btxok0 = b.tx.btxok]
           due == TxTime(c, g.tx.txFirst)
<1>1. /\ a \in Windows /\ Ordered(a.conf, online) /\ Dropped(a.tx, a.conf)
      /\ SameFlags(a.tx, g.tx)
      /\ g.tx.iptt => a.tx.iptt /\ (~due => ~a.tx.btxok)
      /\ a.tx.iptt /\ ~g.tx.iptt => due
  BY SequenceType DEF Edges, SameFlags
<1> HIDE DEF a
<1>2. /\ d \in Windows /\ d.conf = a.conf
      /\ SameKeying(d.tx, a.tx)
      /\ a.tx.iptt /\ ~a.tx.iptt0 => d.tx.transmitting /\ d.tx.btxok
      /\ ~(a.tx.iptt /\ ~a.tx.iptt0) => d = a
  BY <1>1, BeginType
<1>3. Ordered(d.conf, online) /\ Dropped(d.tx, d.conf) BY <1>1, <1>2 DEF Dropped, SameKeying
<1>4. d.tx.transmitting = d.tx.iptt
  <2>1. g.tx.iptt0 = g.tx.iptt /\ g.tx.transmitting = g.tx.iptt BY DEF Edges
  <2>2. g.tx.iptt \in BOOLEAN /\ a.tx.iptt \in BOOLEAN /\ d.tx.transmitting \in BOOLEAN
    BY <1>1, <1>2 DEF Windows, Sequencer
  <2> QED BY <1>1, <1>2, <2>1, <2>2 DEF SameFlags, SameKeying
<1>5. d.tx.iptt => d.tx.btxok \/ d.tx.btxok0
  <2>1. CASE g.tx.iptt BY <1>1, <1>2, <2>1 DEF Edges, SameFlags, SameKeying
  <2>2. CASE ~g.tx.iptt BY <1>1, <1>2, <2>2 DEF Edges, SameFlags, SameKeying
  <2> QED BY <2>1, <2>2
<1>6. d.tx.iptt /\ d.tx.btxok => due
  <2>1. CASE g.tx.iptt BY <1>1, <1>2, <2>1 DEF Edges, SameFlags, SameKeying
  <2>2. CASE ~g.tx.iptt BY <1>1, <1>2, <2>2 DEF SameFlags, SameKeying, Edges
  <2> QED BY <2>1, <2>2
<1>7. d.tx.txFirst = g.tx.txFirst BY <1>1, <1>2 DEF SameFlags, SameKeying
<1> HIDE DEF d
<1>8. /\ StopTx(d) \in Windows /\ StopTx(d).conf = d.conf
      /\ StopTx(d).tx.ptt0 > 0 /\ ~StopTx(d).tx.iptt /\ ~StopTx(d).tx.transmitting
  BY <1>2, StopTxType
<1>9. b = StopTx(d) \/ (b = d /\ (d.tx.iptt => d.tx.btxok)) BY <1>5 DEF End
<1>10. /\ b \in Windows /\ Ordered(b.conf, online) /\ Dropped(b.tx, b.conf)
       /\ b.tx.transmitting = b.tx.iptt /\ (b.tx.iptt => b.tx.btxok)
       /\ b.tx.iptt => due /\ b.tx.txFirst = g.tx.txFirst
  <2>1. CASE b = StopTx(d)
    <3>1. b.tx.iptt \in BOOLEAN /\ b.tx.transmitting \in BOOLEAN
      BY <1>8, <2>1 DEF Windows, Sequencer
    <3>2. b.tx.transmitting = b.tx.iptt BY <1>8, <2>1, <3>1
    <3> QED BY <1>3, <1>8, <2>1, <3>2 DEF Dropped
  <2>2. CASE b = d /\ (d.tx.iptt => d.tx.btxok)
    BY <1>2, <1>3, <1>4, <1>6, <1>7, <2>2
  <2> QED BY <1>9, <2>1, <2>2
<1>11. GuiUpdate(g, c, msg) = h BY DEF GuiUpdate, h, b, d, a
<1> HIDE DEF b
<1>12. /\ h \in Windows /\ h.conf = b.conf
       /\ h.tx.iptt = b.tx.iptt /\ h.tx.transmitting = b.tx.transmitting
       /\ h.tx.txFirst = b.tx.txFirst /\ h.tx.ptt0 = b.tx.ptt0
       /\ h.tx.iptt0 = b.tx.iptt /\ h.tx.btxok0 = b.tx.btxok
  BY <1>10 DEF Windows, Sequencer
<1> HIDE DEF h
<1>13. Dropped(h.tx, h.conf) BY <1>10, <1>12 DEF Dropped
<1>14. Edges(h.tx) BY <1>10, <1>12 DEF Edges
<1> QED BY <1>10, <1>11, <1>12, <1>13, <1>14
-----------------------------------------------------------------------------
(* The actions *)

\* What the invariant says of the state the GUI thread works on.
LEMMA TxInvMeaning ==
  ASSUME TxInv
  PROVE  /\ conf \in Confs /\ Ordered(conf, Online(Here)) /\ Online(Here) \in BOOLEAN
         /\ view \in TransceiverState /\ budget \in Budgets /\ events \in Seq(Events)
BY RigInvMeaning DEF TxInv, Ordered

\* A slot of the GUI that posts commands in order keeps the rig's invariant.
LEMMA SlotKeepsRigInv ==
  ASSUME TxInv, Ordered(conf', Online(Here)), budget' \in Budgets,
         UNCHANGED <<rig, radio, events, view>>
  PROVE  RigInv'
BY TxInvMeaning, GuiStep DEF TxInv, Ordered

\* Time goes round.
LEMMA ClockType == ASSUME clock \in 0..2 * Period - 1
                   PROVE  (clock + 1) % (2 * Period) \in 0..2 * Period - 1
<1> DEFINE m == 2 * Period
<1>1. m \in Nat /\ m > 0 /\ clock + 1 \in Nat BY SlotAssumption
<1> HIDE DEF m
<1>2. (clock + 1) % m \in 0..m - 1 BY <1>1
<1> QED BY <1>2 DEF m

\* A timer that is counted down keeps running.
LEMMA CountDownType ==
  ASSUME NEW k \in Nat, NEW n \in 0..k
  PROVE  CountDown(n) \in 0..k /\ (n > 0 => CountDown(n) > 0)
BY DEF CountDown

\* A tick.
LEMMA TickKeepsInv ==
  ASSUME TxInv, NEW msg \in BOOLEAN, Tick(msg)
  PROVE  TxInv' /\ (tx'.iptt => TxTime(clock', tx'.txFirst))
<1> DEFINE c == (clock + 1) % (2 * Period)
           t == [tx EXCEPT !.ptt0 = CountDown(@), !.ptt1 = CountDown(@)]
           g == [tx |-> t, conf |-> conf, posted |-> audio.calls]
           h == GuiUpdate(g, c, msg)
           keyed == h.tx.iptt /\ ~tx.iptt
<1>1. /\ keyed => budget.commands > 0
      /\ budget' = [budget EXCEPT !.commands = IF keyed THEN @ - 1 ELSE @]
      /\ clock' = c /\ tx' = h.tx /\ conf' = h.conf
      /\ audio' = [audio EXCEPT !.calls = h.posted]
      /\ UNCHANGED <<rig, radio, events, view, left>>
  BY DEF Tick
<1>2. /\ tx \in Sequencer /\ audio \in [playing : BOOLEAN, calls : Posts]
      /\ left \in 0..MaxOperator /\ Dropped(tx, conf) /\ Edges(tx)
  BY DEF TxInv, OwnTypes
<1>3. /\ Ordered(conf, Online(Here)) /\ Online(Here) \in BOOLEAN /\ conf \in Confs
      /\ view \in TransceiverState /\ budget \in Budgets
  BY TxInvMeaning
<1>4. t \in Sequencer /\ Dropped(t, conf) /\ Edges(t)
  <2>1. EndDelay + 1 \in Nat /\ TxDelay + 1 \in Nat BY SlotAssumption
  <2>2. tx.ptt0 \in 0..EndDelay + 1 /\ tx.ptt1 \in 0..TxDelay + 1 BY <1>2 DEF Sequencer
  <2>3. /\ CountDown(tx.ptt0) \in 0..EndDelay + 1 /\ CountDown(tx.ptt1) \in 0..TxDelay + 1
        /\ tx.ptt0 > 0 => CountDown(tx.ptt0) > 0
    BY <2>1, <2>2, CountDownType
  <2>4. t \in Sequencer /\ t.ptt0 = CountDown(tx.ptt0) /\ t.iptt = tx.iptt
        /\ t.iptt0 = tx.iptt0 /\ t.transmitting = tx.transmitting /\ t.btxok0 = tx.btxok0
    BY <1>2, <2>3 DEF Sequencer
  <2> HIDE DEF t
  <2> QED BY <1>2, <2>3, <2>4 DEF Dropped, Edges
<1> HIDE DEF t
<1>5. g \in Windows /\ g.tx = t /\ g.conf = conf BY <1>2, <1>3, <1>4 DEF Windows
<1> HIDE DEF g, c
<1>6. /\ h \in Windows /\ Ordered(h.conf, Online(Here))
      /\ Dropped(h.tx, h.conf) /\ Edges(h.tx) /\ (h.tx.iptt => TxTime(c, h.tx.txFirst))
  BY <1>3, <1>4, <1>5, GuiUpdateType
<1> HIDE DEF h
<1>7. budget' \in Budgets
  <2>1. budget.commands \in 0..MaxCommands BY <1>3 DEF Budgets
  <2>2. (IF keyed THEN budget.commands - 1 ELSE budget.commands) \in 0..MaxCommands
    BY <1>1, <2>1, RigBoundAssumption
  <2> HIDE DEF keyed
  <2> QED BY <1>1, <1>3, <2>2 DEF Budgets
<1>8. RigInv' BY <1>1, <1>6, <1>7, SlotKeepsRigInv
<1>9. clock' \in 0..2 * Period - 1
  BY <1>1, ClockType DEF c, TxInv, OwnTypes
<1>10. h.tx \in Sequencer /\ h.posted \in Posts BY <1>6 DEF Windows
<1>11. OwnTypes' BY <1>1, <1>2, <1>9, <1>10 DEF OwnTypes
<1>12. Dropped(tx', conf') /\ Edges(tx') BY <1>1, <1>6
<1> QED BY <1>1, <1>6, <1>8, <1>11, <1>12 DEF TxInv

\* A slot that leaves the flags, the timer that lowers PTT and what was asked for.
LEMMA QuietSlot ==
  ASSUME TxInv, RigInv', OwnTypes', SameKeying(tx', tx), SameFlags(tx', tx),
         conf'.cached.ptt => conf.cached.ptt
  PROVE  TxInv'
<1>1. Dropped(tx, conf) /\ Edges(tx) BY DEF TxInv
<1>2. Dropped(tx', conf') BY <1>1 DEF Dropped, SameKeying
<1>3. Edges(tx') BY <1>1 DEF Edges, SameKeying, SameFlags
<1> QED BY <1>2, <1>3 DEF TxInv

\* stopTx2 and startTx2.
LEMMA TimersKeepInv == ASSUME TxInv, EndTimer \/ DelayTimer PROVE TxInv'
<1>1. /\ Ordered(conf, Online(Here)) /\ Online(Here) \in BOOLEAN /\ conf \in Confs
      /\ view \in TransceiverState /\ budget \in Budgets
  BY TxInvMeaning
<1>2. OwnTypes /\ RigInv /\ Edges(tx) /\ tx \in Sequencer BY DEF TxInv, OwnTypes
<1>3. CASE EndTimer
  <2>1. /\ tx' = [tx EXCEPT !.ptt0 = 0] /\ conf' = TransceiverPtt(conf, FALSE)
        /\ UNCHANGED <<rig, radio, events, view, budget, audio, clock, left>>
    BY <1>3 DEF EndTimer
  <2>2. FALSE \in BOOLEAN OBVIOUS
  <2>3. Ordered(conf', Online(Here)) BY <1>1, <2>1, <2>2, CommandsOrdered
  <2>4. RigInv' BY <1>1, <2>1, <2>3, SlotKeepsRigInv
  <2>5. 0 \in 0..EndDelay + 1 BY SlotAssumption
  <2>6. tx' \in Sequencer /\ SameFlags(tx', tx) /\ tx'.iptt = tx.iptt
    BY <1>2, <2>1, <2>5 DEF Sequencer, SameFlags
  <2>7. OwnTypes' BY <1>2, <2>1, <2>6 DEF OwnTypes
  <2>8. ~conf'.cached.ptt BY <1>1, <2>1, PttCommands
  <2>9. Edges(tx') BY <1>2, <2>6 DEF Edges, SameFlags
  <2>10. Dropped(tx', conf') BY <2>8 DEF Dropped
  <2> QED BY <2>4, <2>7, <2>9, <2>10 DEF TxInv
<1>4. CASE DelayTimer
  <2>1. /\ tx' = [tx EXCEPT !.ptt1 = 0] /\ UNCHANGED <<rigVars, clock, left>>
        /\ audio' = IF audio.playing THEN audio
                    ELSE [audio EXCEPT !.calls = Append(@, "start")]
    BY <1>4 DEF DelayTimer
  <2>2. UNCHANGED <<conf, rig, radio, events, view, budget>> BY <2>1 DEF rigVars
  <2>3. RigInv' BY <1>1, <2>2, SlotKeepsRigInv
  <2>4. 0 \in 0..TxDelay + 1 BY SlotAssumption
  <2>5. tx' \in Sequencer /\ SameFlags(tx', tx) /\ SameKeying(tx', tx)
    BY <1>2, <2>1, <2>4 DEF Sequencer, SameFlags, SameKeying
  <2>6. audio' \in [playing : BOOLEAN, calls : Posts]
    <3>1. audio \in [playing : BOOLEAN, calls : Posts] BY <1>2 DEF OwnTypes
    <3>2. Append(audio.calls, "start") \in Posts BY <3>1 DEF Posts
    <3> QED BY <2>1, <3>1, <3>2
  <2>7. OwnTypes' BY <1>2, <2>1, <2>5, <2>6 DEF OwnTypes
  <2> QED BY <2>2, <2>3, <2>5, <2>7, QuietSlot
<1> QED BY <1>3, <1>4

\* What a report does to the sequencer leaves its flags and the timer of PTT.
LEMMA ReportedType ==
  ASSUME NEW t \in Sequencer, NEW s \in TransceiverState, view \in TransceiverState
  PROVE  /\ Reported(t, s) \in Sequencer
         /\ SameFlags(Reported(t, s), t) /\ SameKeying(Reported(t, s), t)
<1> DEFINE rising == s.ptt /\ ~view.ptt
           p == IF rising /\ t.whenReady /\ t.iptt THEN TxDelay + 1 ELSE t.ptt1
           w == t.whenReady /\ ~rising
           m == t.monitoring \/ (s.online /\ ~view.online /\ ~t.transmitting)
<1>1. TxDelay + 1 \in 0..TxDelay + 1 BY SlotAssumption
<1>2. p \in 0..TxDelay + 1 BY <1>1 DEF Sequencer
<1>3. w \in BOOLEAN /\ m \in BOOLEAN BY DEF Sequencer
<1>4. Reported(t, s) = [t EXCEPT !.ptt1 = p, !.whenReady = w, !.monitoring = m]
  BY DEF Reported
<1> HIDE DEF p, w, m
<1> QED BY <1>2, <1>3, <1>4 DEF Sequencer, SameFlags, SameKeying

\* Updates and failures.
LEMMA TxGuiKeepsInv == ASSUME TxInv, TxGui PROVE TxInv'
<1>1. /\ conf \in Confs /\ view \in TransceiverState /\ events \in Seq(Events)
  BY TxInvMeaning
<1>2. OwnTypes /\ RigInv /\ Edges(tx) /\ tx \in Sequencer /\ Dropped(tx, conf)
  BY DEF TxInv, OwnTypes
<1>3. CASE TxHandleUpdate
  <2>1. /\ tx' = IF Head(events).num = conf.num THEN Reported(tx, Head(events).s) ELSE tx
        /\ HandleUpdate /\ UNCHANGED <<audio, clock, left>>
    BY <1>3 DEF TxHandleUpdate
  <2>2. RigInv' BY <1>2, <2>1, GuiKeepsInv DEF Gui
  <2>3. events # <<>> /\ conf' = FollowRig(conf, Head(events).s)
    BY <2>1 DEF HandleUpdate
  <2>4. Head(events) \in Events BY <1>1, <2>3
  <2>5. Head(events).s \in TransceiverState BY <2>4 DEF Events
  <2>6. SameFlags(tx, tx) /\ SameKeying(tx, tx) BY DEF SameFlags, SameKeying
  <2>7. tx' \in Sequencer /\ SameFlags(tx', tx) /\ SameKeying(tx', tx)
    BY <1>1, <1>2, <2>1, <2>5, <2>6, ReportedType
  <2>8. OwnTypes' BY <1>2, <2>1, <2>7 DEF OwnTypes
  <2>9. conf'.cached.ptt = conf.cached.ptt BY <1>1, <2>3, PttCommands
  <2> QED BY <2>2, <2>7, <2>8, <2>9, QuietSlot
<1>4. CASE TxHandleFailure
  <2>1. /\ tx' = [tx EXCEPT !.auto = FALSE, !.btxok = FALSE, !.reopen = TRUE]
        /\ HandleFailure /\ UNCHANGED <<audio, clock, left>>
    BY <1>4 DEF TxHandleFailure
  <2>2. RigInv' BY <1>2, <2>1, GuiKeepsInv DEF Gui
  <2>3. conf' = CloseRig(conf) BY <2>1 DEF HandleFailure
  <2>4. tx' \in Sequencer /\ SameFlags(tx', tx) /\ SameKeying(tx', tx)
    BY <1>2, <2>1 DEF Sequencer, SameFlags, SameKeying
  <2>5. OwnTypes' BY <1>2, <2>1, <2>4 DEF OwnTypes
  <2>6. conf'.cached.ptt = conf.cached.ptt BY <1>1, <2>3, PttCommands
  <2> QED BY <2>2, <2>4, <2>5, <2>6, QuietSlot
<1> QED BY <1>3, <1>4 DEF TxGui

\* The operator's buttons and the posted rigOpen.
LEMMA OperatorKeepsInv == ASSUME TxInv, Operator \/ RigOpen PROVE TxInv'
<1>1. /\ Ordered(conf, Online(Here)) /\ Online(Here) \in BOOLEAN /\ conf \in Confs
      /\ view \in TransceiverState /\ budget \in Budgets
  BY TxInvMeaning
<1>2. OwnTypes /\ tx \in Sequencer BY DEF TxInv, OwnTypes
<1>3. CASE RigOpen
  <2>1. /\ tx' = [tx EXCEPT !.reopen = FALSE] /\ conf' = OpenRig(conf)
        /\ UNCHANGED <<rig, radio, events, view, budget, audio, clock, left>>
    BY <1>3 DEF RigOpen
  <2>2. Ordered(conf', Online(Here)) BY <1>1, <2>1, CommandsOrdered
  <2>3. RigInv' BY <1>1, <2>1, <2>2, SlotKeepsRigInv
  <2>4. tx' \in Sequencer /\ SameFlags(tx', tx) /\ SameKeying(tx', tx)
    BY <1>2, <2>1 DEF Sequencer, SameFlags, SameKeying
  <2>5. OwnTypes' BY <1>2, <2>1, <2>4 DEF OwnTypes
  <2>6. conf'.cached.ptt => conf.cached.ptt BY <1>1, <2>1, PttCommands
  <2> QED BY <2>3, <2>4, <2>5, <2>6, QuietSlot
<1>4. ASSUME NEW t, Operate(t), t \in Sequencer,
             t.iptt = tx.iptt, t.ptt0 = tx.ptt0, t.iptt0 = tx.iptt0,
             t.btxok0 = tx.btxok0, t.transmitting = tx.transmitting
      PROVE  TxInv'
  <2>1. left > 0 /\ tx' = t /\ left' = left - 1 /\ UNCHANGED <<rigVars, audio, clock>>
    BY <1>4 DEF Operate
  <2>2. UNCHANGED <<conf, rig, radio, events, view, budget>> BY <2>1 DEF rigVars
  <2>3. RigInv' BY <1>1, <2>2, SlotKeepsRigInv
  <2>4. left' \in 0..MaxOperator BY <1>2, <2>1, SlotAssumption DEF OwnTypes
  <2>5. OwnTypes' BY <1>2, <1>4, <2>1, <2>4 DEF OwnTypes
  <2>6. Dropped(tx', conf') /\ Edges(tx') BY <1>4, <2>1, <2>2 DEF TxInv, Dropped, Edges
  <2> QED BY <2>3, <2>5, <2>6 DEF TxInv
<1>5. CASE HaltTx
  <2> DEFINE t == Halt([tx |-> tx]).tx
  <2>1. t = [tx EXCEPT !.auto = FALSE, !.btxok = FALSE] BY DEF Halt
  <2>2. t \in Sequencer /\ SameKeying(t, tx) /\ SameFlags(t, tx)
    BY <1>2, <2>1 DEF Sequencer, SameKeying, SameFlags
  <2>3. Operate(t) BY <1>5 DEF HaltTx
  <2> HIDE DEF t
  <2> QED BY <1>4, <2>2, <2>3 DEF SameKeying, SameFlags
<1>6. ASSUME NEW on \in BOOLEAN, EnableTx(on) PROVE TxInv'
  <2> DEFINE t == [tx EXCEPT !.auto = on]
  <2>1. t \in Sequencer /\ SameKeying(t, tx) /\ SameFlags(t, tx)
    BY <1>2 DEF Sequencer, SameKeying, SameFlags
  <2>2. Operate(t) BY <1>6 DEF EnableTx
  <2> HIDE DEF t
  <2> QED BY <1>4, <2>1, <2>2 DEF SameKeying, SameFlags
<1>7. ASSUME NEW on \in BOOLEAN, SetTxFirst(on) PROVE TxInv'
  <2> DEFINE t == [tx EXCEPT !.txFirst = on]
  <2>1. /\ t \in Sequencer /\ t.iptt = tx.iptt /\ t.ptt0 = tx.ptt0 /\ t.iptt0 = tx.iptt0
        /\ t.btxok0 = tx.btxok0 /\ t.transmitting = tx.transmitting
    BY <1>2 DEF Sequencer
  <2>2. Operate(t) BY <1>7 DEF SetTxFirst
  <2> HIDE DEF t
  <2> QED BY <1>4, <2>1, <2>2
<1> QED BY <1>3, <1>5, <1>6, <1>7 DEF Operator

\* The audio thread has no part in it.
LEMMA AudioKeepsInv == ASSUME TxInv, ModulatorCall \/ MessageEnds PROVE TxInv'
<1>1. OwnTypes /\ audio \in [playing : BOOLEAN, calls : Posts] BY DEF TxInv, OwnTypes
<1>2. UNCHANGED <<rigVars, tx, clock, left>> BY DEF ModulatorCall, MessageEnds
<1>3. UNCHANGED <<conf, rig, radio, events, view, budget>> BY <1>2 DEF rigVars
<1>4. RigInv'
  <2>1. /\ Ordered(conf, Online(Here)) /\ conf \in Confs /\ view \in TransceiverState
        /\ budget \in Budgets
    BY TxInvMeaning
  <2>2. Ordered(conf', Online(Here)) BY <1>3, <2>1
  <2> QED BY <1>3, <2>1, <2>2, SlotKeepsRigInv
<1>5. audio' \in [playing : BOOLEAN, calls : Posts]
  <2>1. CASE ModulatorCall
    <3>1. Tail(audio.calls) \in Posts BY <1>1, <2>1 DEF ModulatorCall, Posts
    <3> QED BY <2>1, <3>1 DEF ModulatorCall
  <2>2. CASE MessageEnds BY <1>1, <2>2 DEF MessageEnds
  <2> QED BY <2>1, <2>2
<1>6. OwnTypes' BY <1>1, <1>2, <1>5 DEF OwnTypes
<1>7. SameFlags(tx', tx) /\ SameKeying(tx', tx) BY <1>2 DEF SameFlags, SameKeying
<1> QED BY <1>3, <1>4, <1>6, <1>7, QuietSlot

\* The rig's thread takes calls; what is asked for is the GUI's.
LEMMA RigThreadKeepsInv == ASSUME TxInv, RigThread PROVE TxInv'
<1>1. UNCHANGED <<tx, audio, clock, left>> BY DEF RigThread, txVars
<1>2. RigInv'
  <2>1. CASE TakeCall
    BY <2>1, StartKeepsInv, SetKeepsInv, StopKeepsInv DEF TakeCall, TxInv
  <2>2. CASE PollTimer BY <2>2, PollKeepsInv DEF TxInv
  <2>3. CASE DriverThrows
    BY <2>3, StartKeepsInv, SetKeepsInv, PollKeepsInv DEF DriverThrows, TxInv
  <2>4. CASE Settle BY <2>4, RadioKeepsInv DEF TxInv
  <2> QED BY <2>1, <2>2, <2>3, <2>4 DEF RigThread
<1>3. conf'.cached = conf.cached
  <2>1. ASSUME NEW op, Taken(op) PROVE conf'.cached = conf.cached
    BY <2>1, TxInvMeaning DEF Taken, Confs
  <2>2. CASE TakeCall BY <2>1, <2>2 DEF TakeCall, StartRig, SetRig, StopRig
  <2>3. CASE PollTimer BY <2>3 DEF PollTimer
  <2>4. CASE DriverThrows
    BY <2>1, <2>4 DEF DriverThrows, StartFails, SetFails, PollFails
  <2>5. CASE Settle BY <2>5 DEF Settle
  <2> QED BY <2>2, <2>3, <2>4, <2>5 DEF RigThread
<1>4. OwnTypes' BY <1>1 DEF TxInv, OwnTypes
<1>5. SameFlags(tx', tx) /\ SameKeying(tx', tx) BY <1>1 DEF SameFlags, SameKeying
<1> QED BY <1>2, <1>3, <1>4, <1>5, QuietSlot

\* At startup the rig is being opened, PTT off and nothing under way.
LEMMA InitTxInv == TxInit => TxInv
<1> SUFFICES ASSUME TxInit PROVE TxInv OBVIOUS
<1> DEFINE c == [active |-> FALSE, num |-> 0, cached |-> Unknown, calls |-> <<>>]
<1>1. /\ conf = OpenRig(c) /\ rig = Instance /\ events = <<>> /\ view = Unknown
      /\ budget = [commands |-> MaxCommands, turns |-> 0, faults |-> MaxFaults]
  BY DEF TxInit
<1>2. PICK f \in Frequencies :
        radio = [freq |-> f, ptt |-> FALSE, shown |-> [freq |-> f, ptt |-> FALSE]]
  BY DEF TxInit
<1>3. /\ tx = [auto |-> FALSE, txFirst |-> TRUE, iptt |-> FALSE, iptt0 |-> FALSE,
               btxok |-> FALSE, btxok0 |-> FALSE, transmitting |-> FALSE,
               whenReady |-> FALSE, monitoring |-> FALSE, reopen |-> FALSE,
               ptt0 |-> 0, ptt1 |-> 0]
      /\ audio = [playing |-> FALSE, calls |-> <<>>] /\ clock = 0 /\ left = MaxOperator
  BY DEF TxInit
<1>4. c \in Confs BY UnknownType DEF Confs
<1>5. FALSE \in BOOLEAN OBVIOUS
<1>6. ~Online(Here) BY <1>1 DEF Online, Here, Instance, Unknown
<1>7. Ordered(c, FALSE) BY <1>4 DEF Ordered, Handover
<1>8. Ordered(conf, FALSE) BY <1>1, <1>5, <1>7, CommandsOrdered
<1>9. ~conf.cached.ptt
  <2>1. ~c.cached.ptt BY DEF Unknown
  <2> HIDE DEF c
  <2> QED BY <1>1, <1>4, <2>1, PttCommands
<1>10. budget \in Budgets BY <1>1, RigBoundAssumption DEF Budgets
<1>11. radio \in Radios /\ ~radio.ptt BY <1>2 DEF Radios, Shows
<1>12. rig \in Rigs /\ view \in TransceiverState /\ events \in Seq(Events)
  BY <1>1, InstanceType, UnknownType
<1>13. conf \in Confs /\ Handover(conf, rig.requested.online)
  BY <1>1, <1>8 DEF Ordered, Instance, Unknown
<1>14. RigInv
  <2>1. TypeOK
    BY <1>10, <1>11, <1>12, <1>13 DEF TypeOK, Confs, Calls, Rigs, Radios, Shows, Events, Budgets
  <2> QED BY <1>11, <1>13, <2>1 DEF RigInv, PttReleased
<1>15. OwnTypes
  BY <1>3, SlotAssumption DEF OwnTypes, Sequencer, Posts
<1>16. Dropped(tx, conf) /\ Edges(tx) BY <1>3, <1>9 DEF Dropped, Edges
<1> QED BY <1>14, <1>15, <1>16 DEF TxInv

\* Every step of the three threads and of the operator.
LEMMA NextKeepsTxInv == TxInv /\ [TxNext]_transmitVars => TxInv'
<1> SUFFICES ASSUME TxInv, [TxNext]_transmitVars PROVE TxInv' OBVIOUS
<1>1. CASE Ticks BY <1>1, TickKeepsInv DEF Ticks
<1>2. CASE EndTimer \/ DelayTimer BY <1>2, TimersKeepInv
<1>3. CASE TxGui BY <1>3, TxGuiKeepsInv
<1>4. CASE RigOpen \/ Operator BY <1>4, OperatorKeepsInv
<1>5. CASE ModulatorCall \/ MessageEnds BY <1>5, AudioKeepsInv
<1>6. CASE RigThread BY <1>6, RigThreadKeepsInv
<1>7. CASE UNCHANGED transmitVars
  <2>1. UNCHANGED <<tx, audio, clock, left, rigVars>> BY <1>7 DEF transmitVars
  <2>2. UNCHANGED <<conf, rig, radio, events, view, budget>> BY <2>1 DEF rigVars
  <2>3. RigInv' BY <2>2, TxInvMeaning, SlotKeepsRigInv
  <2>4. OwnTypes' BY <2>1 DEF TxInv, OwnTypes
  <2>5. SameFlags(tx', tx) /\ SameKeying(tx', tx) BY <2>1 DEF SameFlags, SameKeying
  <2> QED BY <2>2, <2>3, <2>4, <2>5, QuietSlot
<1> QED BY <1>1, <1>2, <1>3, <1>4, <1>5, <1>6, <1>7 DEF TxNext

\* The invariant holds in every state, however ticks, timers, reports, failures and
\* the operator's buttons interleave.
THEOREM TxInvariance == TxSpec => []TxInv
BY InitTxInv, NextKeepsTxInv, PTL DEF TxSpec

\* Every member keeps its type, the rig's included, with the sequencer as its client.
THEOREM TxTypeCorrect == TxSpec => []TxTypeOK
<1>1. TxInv => TxTypeOK BY DEF TxInv, RigInv, OwnTypes, TxTypeOK, Posts
<1> QED BY <1>1, TxInvariance, PTL

\* PTT is never left asked for without a transmission or the timer that lowers it,
\* for any lengths of the delays.
THEOREM PttAlwaysDropped == TxSpec => []PttIsDropped
<1>1. TxInv => PttIsDropped BY DEF TxInv, Dropped, PttIsDropped
<1> QED BY <1>1, TxInvariance, PTL

\* Nothing is sent in the other station's periods, whenever the operator changes
\* periods.
THEOREM SlotsKept == TxSpec => SendsInSlot
<1>1. TxInv /\ [TxNext]_transmitVars
        => [clock' # clock => (tx'.iptt => TxTime(clock', tx'.txFirst))]_transmitVars
  <2> SUFFICES ASSUME TxInv, TxNext, clock' # clock
               PROVE  tx'.iptt => TxTime(clock', tx'.txFirst)
    OBVIOUS
  <2>1. CASE Ticks BY <2>1, TickKeepsInv DEF Ticks
  <2>2. CASE ~Ticks
    <3>1. UNCHANGED clock
      BY <2>2 DEF TxNext, EndTimer, DelayTimer, TxGui, TxHandleUpdate, TxHandleFailure,
                  RigOpen, Operator, HaltTx, EnableTx, SetTxFirst, Operate,
                  ModulatorCall, MessageEnds, RigThread, txVars
    <3> QED BY <3>1
  <2> QED BY <2>1, <2>2
<1> QED BY <1>1, TxInvariance, PTL DEF TxSpec, SendsInSlot
-----------------------------------------------------------------------------
(* PTT between the sequencer and the rig: guiUpdate asks for it as any other *)
(* client does.                                                              *)

\* Keying the radio, on the dial frequency.
LEMMA KeyUpSound ==
  ASSUME NEW g \in Windows, NEW online \in BOOLEAN, NEW x, NEW es,
         Ordered(g.conf, online), Sound(g.conf, x, es), view \in TransceiverState
  PROVE  Sound(KeyUp(g).conf, x, es)
<1> DEFINE c == IF g.tx.monitoring THEN TransceiverFrequency(OpenRig(g.conf), view.freq)
                                   ELSE g.conf
<1>1. view.freq \in Frequencies \cup {0} /\ TRUE \in BOOLEAN BY DEF TransceiverState
<1>2. Ordered(OpenRig(g.conf), online) /\ Sound(OpenRig(g.conf), x, es)
  BY CommandsOrdered, CommandsSound
<1>3. Ordered(c, online) /\ Sound(c, x, es)
  BY <1>1, <1>2, CommandsOrdered, CommandsSound
<1>4. KeyUp(g).conf = TransceiverPtt(c, TRUE) BY DEF KeyUp, Windows
<1> HIDE DEF c
<1> QED BY <1>1, <1>3, <1>4, CommandsSound

\* A tick of guiUpdate.
LEMMA GuiUpdateSound ==
  ASSUME NEW g \in Windows, NEW c, NEW msg \in BOOLEAN, NEW online \in BOOLEAN,
         NEW x, NEW es, Ordered(g.conf, online), Sound(g.conf, x, es),
         view \in TransceiverState
  PROVE  Sound(GuiUpdate(g, c, msg).conf, x, es)
<1> DEFINE a == IF msg THEN g ELSE Halt(g)
           b == IF Keys(a, c, msg) THEN KeyUp(a) ELSE a
           s == IF g.tx.transmitting \/ g.tx.auto THEN Sequence(g, c, msg) ELSE g
           d == Begin(s)
           e == End(d)
<1>1. a \in Windows /\ a.conf = g.conf BY HaltType
<1> HIDE DEF a
<1>2. KeyUp(a) \in Windows /\ Sound(KeyUp(a).conf, x, es) BY <1>1, KeyUpType, KeyUpSound
<1>3. b \in Windows /\ Sound(b.conf, x, es) BY <1>1, <1>2
<1>4. Sequence(g, c, msg) \in {b, [b EXCEPT !.tx.btxok = FALSE]} BY DEF Sequence, a, b
<1> HIDE DEF b
<1>5. [b EXCEPT !.tx.btxok = FALSE] \in Windows /\ [b EXCEPT !.tx.btxok = FALSE].conf = b.conf
  BY <1>3 DEF Windows, Sequencer
<1>6. s \in Windows /\ Sound(s.conf, x, es) BY <1>3, <1>4, <1>5
<1> HIDE DEF s
<1>7. d \in Windows /\ d.conf = s.conf BY <1>6, BeginType
<1>8. GuiUpdate(g, c, msg) = [e EXCEPT !.tx.iptt0 = e.tx.iptt, !.tx.btxok0 = e.tx.btxok]
  BY DEF GuiUpdate, s, d, e
<1> HIDE DEF d
<1>9. e \in Windows /\ e.conf = d.conf BY <1>7, StopTxType DEF End
<1> HIDE DEF e
<1>10. GuiUpdate(g, c, msg).conf = e.conf BY <1>8, <1>9 DEF Windows
<1> QED BY <1>6, <1>7, <1>9, <1>10

\* Every slot of the GUI that posts to the rig.
LEMMA SlotsKeepPtt ==
  ASSUME TxInv, PttInv, Ticks \/ EndTimer \/ RigOpen PROVE PttInv'
<1>1. /\ Ordered(conf, Online(Here)) /\ Online(Here) \in BOOLEAN /\ conf \in Confs
      /\ view \in TransceiverState
  BY TxInvMeaning
<1>2. Sound(conf, Here, events) BY DEF PttInv
<1>3. UNCHANGED <<rig, radio, events>> BY DEF Ticks, Tick, EndTimer, RigOpen
<1>4. ASSUME NEW msg \in BOOLEAN, Tick(msg) PROVE Sound(conf', Here, events)
  <2> DEFINE c == (clock + 1) % (2 * Period)
             t == [tx EXCEPT !.ptt0 = CountDown(@), !.ptt1 = CountDown(@)]
             g == [tx |-> t, conf |-> conf, posted |-> audio.calls]
  <2>1. conf' = GuiUpdate(g, c, msg).conf BY <1>4 DEF Tick
  <2>2. tx \in Sequencer /\ audio.calls \in Posts BY DEF TxInv, OwnTypes
  <2>3. t \in Sequencer
    <3>1. EndDelay + 1 \in Nat /\ TxDelay + 1 \in Nat BY SlotAssumption
    <3>2. tx.ptt0 \in 0..EndDelay + 1 /\ tx.ptt1 \in 0..TxDelay + 1 BY <2>2 DEF Sequencer
    <3>3. CountDown(tx.ptt0) \in 0..EndDelay + 1 /\ CountDown(tx.ptt1) \in 0..TxDelay + 1
      BY <3>1, <3>2, CountDownType
    <3> QED BY <2>2, <3>3 DEF Sequencer
  <2> HIDE DEF t
  <2>4. g \in Windows /\ g.conf = conf BY <1>1, <2>2, <2>3 DEF Windows
  <2> HIDE DEF g, c
  <2> QED BY <1>1, <1>2, <2>1, <2>4, GuiUpdateSound
<1>5. CASE EndTimer
  <2>1. FALSE \in BOOLEAN /\ conf' = TransceiverPtt(conf, FALSE) BY <1>5 DEF EndTimer
  <2>2. Sound(conf', Here, events) BY <1>1, <1>2, <2>1, CommandsSound
  <2> QED BY <1>3, <2>2, SlotKeepsPtt
<1>6. CASE RigOpen
  <2>1. Sound(conf', Here, events) BY <1>1, <1>2, <1>6, CommandsSound DEF RigOpen
  <2> QED BY <1>3, <2>1, SlotKeepsPtt
<1>7. CASE Ticks BY <1>3, <1>4, <1>7, SlotKeepsPtt DEF Ticks
<1> QED BY <1>5, <1>6, <1>7

\* Every step of the three threads and of the operator keeps what the rig promises
\* about PTT.
LEMMA TxKeepsPttInv ==
  ASSUME ~LagPtt, ~DropFails
  PROVE  TxInv /\ PttInv /\ [TxNext]_transmitVars => PttInv'
<1> SUFFICES ASSUME TxInv, PttInv, [TxNext]_transmitVars PROVE PttInv' OBVIOUS
<1>1. RigInv BY DEF TxInv
<1>2. ASSUME UNCHANGED <<conf, rig, radio, events>> PROVE PttInv'
  BY <1>2, SlotKeepsPtt DEF PttInv
<1>3. CASE Ticks \/ EndTimer \/ RigOpen BY <1>3, SlotsKeepPtt
<1>4. CASE TxGui
  BY <1>1, <1>4, GuiKeepsPtt DEF TxGui, TxHandleUpdate, TxHandleFailure, Gui
<1>5. CASE RigThread
  BY <1>1, <1>5, NextKeepsPttInv DEF RigThread, Next
<1>6. CASE DelayTimer \/ Operator \/ ModulatorCall \/ MessageEnds \/ UNCHANGED transmitVars
  <2>1. UNCHANGED rigVars
    BY <1>6 DEF DelayTimer, Operator, HaltTx, EnableTx, SetTxFirst, Operate,
                ModulatorCall, MessageEnds, transmitVars
  <2> QED BY <1>2, <2>1 DEF rigVars
<1> QED BY <1>3, <1>4, <1>5, <1>6 DEF TxNext

\* At startup the rig is about to be started.
LEMMA InitTxPttInv == TxInit => PttInv
<1> SUFFICES ASSUME TxInit PROVE PttInv OBVIOUS
<1> DEFINE c == [active |-> FALSE, num |-> 0, cached |-> Unknown, calls |-> <<>>]
<1>1. conf = OpenRig(c) /\ rig = Instance BY DEF TxInit
<1>2. PICK f \in Frequencies :
        radio = [freq |-> f, ptt |-> FALSE, shown |-> [freq |-> f, ptt |-> FALSE]]
  BY DEF TxInit
<1>3. ~Online(Here) BY <1>1 DEF Here, Online, Instance, Unknown
<1>4. Shown(Here) BY <1>2 DEF Shown, Here
<1>5. FALSE \in BOOLEAN /\ c \in Confs BY UnknownType DEF Confs
<1>6. Ordered(c, FALSE) BY <1>5 DEF Ordered, Handover
<1>7. ~c.active /\ Len(c.calls) = 0 OBVIOUS
<1>8. Sound(c, Here, events) BY <1>7 DEF Sound, Latest, Connected
<1> HIDE DEF c
<1>9. Sound(conf, Here, events) BY <1>1, <1>5, <1>6, <1>8, CommandsSound
<1> QED BY <1>3, <1>4, <1>9 DEF PttInv, Mirrors

\* With every command carried out the radio is keyed only for a transmission or its
\* end delay, whatever was halted, failed or opened again meanwhile, if it shows PTT
\* at once and drops it when told.
THEOREM KeyedOnlyToTransmit ==
  ASSUME ~LagPtt, ~DropFails PROVE TxSpec => []KeyedForTransmission
<1>1. TxInv /\ PttInv /\ [TxNext]_transmitVars => PttInv' BY TxKeepsPttInv
<1>2. TxSpec => []PttInv BY <1>1, InitTxPttInv, TxInvariance, PTL DEF TxSpec
<1>3. TxInv /\ PttInv => KeyedForTransmission
  <2> SUFFICES ASSUME TxInv, PttInv, Quiet, radio.ptt PROVE tx.iptt \/ tx.ptt0 > 0
    BY DEF KeyedForTransmission
  <2>1. conf.cached.ptt BY QuietPtt DEF TxInv, PttApplied
  <2> QED BY <2>1 DEF TxInv, Dropped
<1> QED BY <1>2, <1>3, TxInvariance, PTL
-----------------------------------------------------------------------------
(* What MainWindow is told of the rig, with the sequencer as the client.    *)

\* A client gave commands, or did nothing.
Commanded(c, d, n) ==
  /\ d \in Confs /\ Ahead(d, n) /\ (d = c \/ d.num > c.num)
  /\ Numbered(c, Here) => Numbered(d, Here)

\* Keying the radio is a command, or two with the dial frequency before it, or three.
LEMMA KeyUpCommands ==
  ASSUME NEW g \in Windows, NEW n \in Nat, Ahead(g.conf, n), view \in TransceiverState,
         KeyUp(g) \in Windows
  PROVE  Commanded(g.conf, KeyUp(g).conf, n)
<1> DEFINE o == OpenRig(g.conf)
           q == TransceiverFrequency(o, view.freq)
           c == IF g.tx.monitoring THEN q ELSE g.conf
           p == TransceiverPtt(c, TRUE)
<1>1. view.freq \in Frequencies \cup {0} /\ TRUE \in BOOLEAN BY DEF TransceiverState
<1>2. g.conf \in Confs /\ g.conf.num \in Nat BY DEF Windows, Confs
<1>3. /\ o \in Confs /\ Ahead(o, n) /\ (o = g.conf \/ o.num > g.conf.num)
      /\ Numbered(g.conf, Here) => Numbered(o, Here)
  BY <1>2, CommandsAhead, CommandsNumbered
<1>4. KeyUp(g).conf = p BY DEF KeyUp, Windows
<1>5. p \in Confs BY <1>4 DEF Windows
<1> HIDE DEF o
<1>6. q \in Confs
  <2> DEFINE d == [o EXCEPT !.cached.online = TRUE, !.cached.freq = view.freq]
  <2>1. d \in Confs BY <1>1, <1>3 DEF Confs, TransceiverState
  <2>2. q = Post(d, "set") BY DEF TransceiverFrequency
  <2> HIDE DEF d
  <2> QED BY <2>1, <2>2, PostType
<1>7. Ahead(q, n) /\ q.num > o.num /\ Numbered(q, Here)
  BY <1>1, <1>3, CommandsAhead, CommandsNumbered
<1> HIDE DEF q
<1>8. o.num \in Nat /\ q.num \in Nat BY <1>3, <1>6 DEF Confs
<1>9. c \in Confs /\ Ahead(c, n) /\ (c = g.conf \/ c.num > g.conf.num)
  BY <1>2, <1>3, <1>6, <1>7, <1>8
<1> HIDE DEF c
<1>10. Ahead(p, n) /\ p.num > c.num /\ Numbered(p, Here)
  BY <1>1, <1>9, CommandsAhead, CommandsNumbered
<1> HIDE DEF p
<1>11. c.num \in Nat /\ p.num \in Nat BY <1>5, <1>9 DEF Confs
<1>12. p.num > g.conf.num BY <1>2, <1>9, <1>10, <1>11
<1> QED BY <1>4, <1>5, <1>10, <1>12 DEF Commanded

\* A tick of guiUpdate.
LEMMA GuiUpdateCommands ==
  ASSUME NEW g \in Windows, NEW c, NEW msg \in BOOLEAN, NEW online \in BOOLEAN,
         NEW n \in Nat, Ordered(g.conf, online), Ahead(g.conf, n),
         view \in TransceiverState
  PROVE  Commanded(g.conf, GuiUpdate(g, c, msg).conf, n)
<1> DEFINE a == IF msg THEN g ELSE Halt(g)
           b == IF Keys(a, c, msg) THEN KeyUp(a) ELSE a
           s == IF g.tx.transmitting \/ g.tx.auto THEN Sequence(g, c, msg) ELSE g
           d == Begin(s)
           e == End(d)
           Done(w) == w \in Windows /\ Commanded(g.conf, w.conf, n)
<1>0. Done(g) BY DEF Commanded, Windows
<1>1. a \in Windows /\ a.conf = g.conf BY HaltType
<1> HIDE DEF a
<1>2. KeyUp(a) \in Windows BY <1>1, KeyUpType
<1>3. Done(KeyUp(a)) BY <1>1, <1>2, KeyUpCommands
<1>4. Done(b) BY <1>0, <1>1, <1>3
<1>5. Sequence(g, c, msg) \in {b, [b EXCEPT !.tx.btxok = FALSE]} BY DEF Sequence, a, b
<1> HIDE DEF b
<1>6. [b EXCEPT !.tx.btxok = FALSE] \in Windows /\ [b EXCEPT !.tx.btxok = FALSE].conf = b.conf
  BY <1>4 DEF Windows, Sequencer
<1>7. Done(s) BY <1>0, <1>4, <1>5, <1>6
<1> HIDE DEF s
<1>8. d \in Windows /\ d.conf = s.conf BY <1>7, BeginType
<1>9. GuiUpdate(g, c, msg) = [e EXCEPT !.tx.iptt0 = e.tx.iptt, !.tx.btxok0 = e.tx.btxok]
  BY DEF GuiUpdate, s, d, e
<1> HIDE DEF d
<1>10. e \in Windows /\ e.conf = d.conf BY <1>8, StopTxType DEF End
<1> HIDE DEF e
<1>11. GuiUpdate(g, c, msg).conf = e.conf BY <1>9, <1>10 DEF Windows
<1> QED BY <1>7, <1>8, <1>10, <1>11

\* Every slot of the GUI that posts to the rig.
LEMMA SlotsCommand ==
  ASSUME TxInv, NumberInv, Ticks \/ EndTimer \/ RigOpen
  PROVE  Commanded(conf, conf', rig.num) /\ UNCHANGED <<rig, radio, events, view>>
<1>1. /\ Ordered(conf, Online(Here)) /\ Online(Here) \in BOOLEAN /\ conf \in Confs
      /\ view \in TransceiverState /\ RigInv
  BY TxInvMeaning DEF TxInv
<1>2. Ahead(conf, rig.num) /\ rig.num \in Nat BY <1>1, HereNumbers
<1>3. UNCHANGED <<rig, radio, events, view>> BY DEF Ticks, Tick, EndTimer, RigOpen
<1>4. ASSUME NEW msg \in BOOLEAN, Tick(msg) PROVE Commanded(conf, conf', rig.num)
  <2> DEFINE c == (clock + 1) % (2 * Period)
             t == [tx EXCEPT !.ptt0 = CountDown(@), !.ptt1 = CountDown(@)]
             g == [tx |-> t, conf |-> conf, posted |-> audio.calls]
  <2>1. conf' = GuiUpdate(g, c, msg).conf BY <1>4 DEF Tick
  <2>2. tx \in Sequencer /\ audio.calls \in Posts BY DEF TxInv, OwnTypes
  <2>3. t \in Sequencer
    <3>1. EndDelay + 1 \in Nat /\ TxDelay + 1 \in Nat BY SlotAssumption
    <3>2. tx.ptt0 \in 0..EndDelay + 1 /\ tx.ptt1 \in 0..TxDelay + 1 BY <2>2 DEF Sequencer
    <3>3. CountDown(tx.ptt0) \in 0..EndDelay + 1 /\ CountDown(tx.ptt1) \in 0..TxDelay + 1
      BY <3>1, <3>2, CountDownType
    <3> QED BY <2>2, <3>3 DEF Sequencer
  <2> HIDE DEF t
  <2>4. g \in Windows /\ g.conf = conf BY <1>1, <2>2, <2>3 DEF Windows
  <2> HIDE DEF g, c
  <2> QED BY <1>1, <1>2, <2>1, <2>4, GuiUpdateCommands
<1>5. TxInv' BY NextKeepsTxInv DEF TxNext
<1>6. conf' \in Confs BY <1>5 DEF TxInv, RigInv, TypeOK, Confs, Calls
<1>7. CASE EndTimer
  <2>1. FALSE \in BOOLEAN /\ conf' = TransceiverPtt(conf, FALSE) BY <1>7 DEF EndTimer
  <2> QED BY <1>1, <1>2, <1>3, <1>6, <2>1, CommandsAhead, CommandsNumbered DEF Commanded
<1>8. CASE RigOpen
  BY <1>1, <1>2, <1>3, <1>6, <1>8, CommandsAhead, CommandsNumbered DEF RigOpen, Commanded
<1>9. CASE Ticks BY <1>3, <1>4, <1>9 DEF Ticks
<1> QED BY <1>7, <1>8, <1>9

LEMMA SlotsReport ==
  ASSUME TxInv, NumberInv, Ticks \/ EndTimer \/ RigOpen PROVE NumberInv' /\ ReportStep
<1>1. RigInv BY DEF TxInv
<1> QED BY <1>1, SlotsCommand, CommandReports DEF Commanded

LEMMA TxReports ==
  TxInv /\ NumberInv /\ [TxNext]_transmitVars => NumberInv' /\ ReportStep
<1> SUFFICES ASSUME TxInv, NumberInv, [TxNext]_transmitVars PROVE NumberInv' /\ ReportStep
  OBVIOUS
<1>1. RigInv BY DEF TxInv
<1>2. CASE Ticks \/ EndTimer \/ RigOpen BY <1>2, SlotsReport
<1>3. CASE TxGui
  BY <1>1, <1>3, GuiReports DEF TxGui, TxHandleUpdate, TxHandleFailure, Gui
<1>4. CASE RigThread BY <1>1, <1>4, NextReports DEF RigThread, Next
<1>5. CASE DelayTimer \/ Operator \/ ModulatorCall \/ MessageEnds \/ UNCHANGED transmitVars
  <2>1. UNCHANGED rigVars
    BY <1>5 DEF DelayTimer, Operator, HaltTx, EnableTx, SetTxFirst, Operate,
                ModulatorCall, MessageEnds, transmitVars
  <2> QED BY <1>1, <2>1, NextReports
<1> QED BY <1>2, <1>3, <1>4, <1>5 DEF TxNext

\* Opening the rig at startup is the first command.
LEMMA InitTxReports == TxInit => NumberInv /\ Reports!Init
<1> SUFFICES ASSUME TxInit PROVE NumberInv /\ Reports!Init OBVIOUS
<1> DEFINE c == [active |-> FALSE, num |-> 0, cached |-> Unknown, calls |-> <<>>]
<1>1. /\ conf = OpenRig(c) /\ rig.num = 0 /\ Len(events) = 0 /\ view = Unknown
      /\ events = <<>>
  BY DEF TxInit, Instance
<1>2. c \in Confs BY UnknownType DEF Confs
<1>3. c.num = 0 /\ Len(c.calls) = 0 OBVIOUS
<1>4. Ahead(c, 0) BY <1>3 DEF Ahead
<1> HIDE DEF c
<1>5. Ahead(conf, 0)
  <2> DEFINE z == 0
  <2>1. z \in Nat /\ Ahead(c, z) BY <1>4
  <2> HIDE DEF z
  <2>2. Ahead(OpenRig(c), z) BY <1>2, <2>1, CommandsAhead
  <2> QED BY <1>1, <2>2 DEF z
<1>6. NumberInv BY <1>1, <1>5 DEF NumberInv, Bounded
<1>7. \A i \in 1..Len(events) : ~IsFresh(events[i], conf.num) BY <1>1
<1>8. Fresh(events, conf.num) = <<>>
  <2>1. events \in Seq(Events) BY <1>1
  <2> QED BY <1>7, <2>1, FreshNone
<1> QED BY <1>1, <1>6, <1>8, UnknownType DEF Reports!Init

\* Rig control keeps its promise under the sequencer as well: no report from before
\* MainWindow's newest command reaches it, so the rising edge of PTT for which it
\* waits before it sends is the one it asked for, or a later one.
THEOREM SequencerSeesReports == TxSpec => ReportsInOrder
<1>1. TxInv /\ NumberInv /\ [TxNext]_transmitVars => NumberInv' /\ ReportStep BY TxReports
<1>2. TxInit => NumberInv /\ Reports!Init BY InitTxReports
<1>3. TxSpec => []NumberInv BY <1>1, <1>2, TxInvariance, PTL DEF TxSpec
<1>4. TxSpec => [][Reports!Next]_<<Fresh(events, conf.num), view>>
  BY <1>1, <1>3, TxInvariance, PTL DEF TxSpec, ReportStep
<1> QED BY <1>2, <1>4, PTL DEF TxSpec, ReportsInOrder, Reports!Spec

\* What the sequencer posts leaves its newest command last in the queue.
LEMMA TxKeepsSeen ==
  TxInv /\ NumberInv /\ SeenInv /\ [TxNext]_transmitVars => SeenInv'
<1> SUFFICES ASSUME TxInv, NumberInv, SeenInv, [TxNext]_transmitVars PROVE SeenInv'
  OBVIOUS
<1>1. RigInv BY DEF TxInv
<1>2. CASE Ticks \/ EndTimer \/ RigOpen
  <2>1. Commanded(conf, conf', rig.num) /\ UNCHANGED <<rig, events, view>>
    BY <1>2, SlotsCommand
  <2>2. Numbered(conf, Here) BY SeenMeaning
  <2> QED BY <1>1, <2>1, <2>2, CommandKeepsSeen DEF Commanded
<1>3. CASE TxGui BY <1>1, <1>3, GuiKeepsSeen DEF TxGui, TxHandleUpdate, TxHandleFailure, Gui
<1>4. CASE RigThread BY <1>1, <1>4, NextKeepsSeen DEF RigThread, Next
<1>5. CASE DelayTimer \/ Operator \/ ModulatorCall \/ MessageEnds \/ UNCHANGED transmitVars
  <2>1. UNCHANGED rigVars
    BY <1>5 DEF DelayTimer, Operator, HaltTx, EnableTx, SetTxFirst, Operate,
                ModulatorCall, MessageEnds, transmitVars
  <2> QED BY <1>1, <2>1, NextKeepsSeen
<1> QED BY <1>2, <1>3, <1>4, <1>5 DEF TxNext

\* Only the rig's thread touches instance and radio.
LEMMA TxKeepsAgreed ==
  ASSUME ~LagPtt
  PROVE  TxInv /\ SeenInv /\ Agrees(Here) /\ [TxNext]_transmitVars => Agrees(Here)'
<1> SUFFICES ASSUME TxInv, SeenInv, Agrees(Here), [TxNext]_transmitVars PROVE Agrees(Here)'
  OBVIOUS
<1>1. CASE RigThread
  BY <1>1, NextKeepsAgreed DEF RigThread, Next, TxInv
<1>2. CASE ~RigThread
  <2>1. UNCHANGED <<rig, radio>>
    BY <1>2 DEF TxNext, Ticks, Tick, EndTimer, RigOpen, TxGui, TxHandleUpdate,
                TxHandleFailure, HandleUpdate, HandleFailure, DelayTimer, Operator, HaltTx,
                EnableTx, SetTxFirst, Operate, ModulatorCall, MessageEnds, transmitVars, rigVars
  <2> QED BY <2>1, SlotKeepsAgreed
<1> QED BY <1>1, <1>2

\* The first command starts an instance that is offline.
LEMMA InitTxSeen == TxInit => SeenInv /\ Agrees(Here)
<1> SUFFICES ASSUME TxInit PROVE SeenInv /\ Agrees(Here) OBVIOUS
<1> DEFINE c == [active |-> FALSE, num |-> 0, cached |-> Unknown, calls |-> <<>>]
<1>1. ~Online(Here) BY DEF TxInit, Here, Online, Instance, Unknown
<1>2. c \in Confs BY UnknownType DEF Confs
<1>3. Numbered(c, Here) BY DEF Numbered
<1>4. conf = OpenRig(c) BY DEF TxInit
<1> HIDE DEF c
<1>5. Numbered(conf, Here) BY <1>2, <1>3, <1>4, CommandsNumbered
<1>6. Shown(Here)
  <2>1. PICK f \in Frequencies :
          radio = [freq |-> f, ptt |-> FALSE, shown |-> [freq |-> f, ptt |-> FALSE]]
    BY DEF TxInit
  <2> QED BY <2>1 DEF Shown, Here
<1> QED BY <1>1, <1>5, <1>6, UntoldTold DEF SeenInv, Up, Agrees

\* With nothing on its way MainWindow knows PTT as the radio has it, however many
\* commands a tick posted and which updates they made stale, for a radio that shows PTT
\* at once.
THEOREM SequencerSeesPtt == ASSUME ~LagPtt PROVE TxSpec => []PttSeen
<1>1. TxInv /\ NumberInv /\ [TxNext]_transmitVars => NumberInv' /\ ReportStep BY TxReports
<1>2. TxInit => NumberInv BY InitTxReports
<1>3. TxSpec => []NumberInv BY <1>1, <1>2, TxInvariance, PTL DEF TxSpec
<1>4. TxSpec => []SeenInv
  BY <1>3, TxInvariance, InitTxSeen, TxKeepsSeen, PTL DEF TxSpec
<1>5. TxInv /\ SeenInv /\ Agrees(Here) /\ [TxNext]_transmitVars => Agrees(Here)'
  BY TxKeepsAgreed
<1>6. TxSpec => []Agrees(Here)
  BY <1>4, <1>5, TxInvariance, InitTxSeen, PTL DEF TxSpec
<1>7. TxInv /\ SeenInv /\ Agrees(Here) => PttSeen BY QuietAgrees DEF TxInv
<1> QED BY <1>4, <1>6, <1>7, TxInvariance, PTL
=============================================================================
