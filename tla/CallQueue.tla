------------------------------ MODULE CallQueue ------------------------------
(***************************************************************************)
(* The automatic QSO sequencer of MainWindow (widgets/mainwindow.cpp, with *)
(* widgets/logqso.cpp): who is answered, with which message, when to give  *)
(* up and take the next station of the call queue, and what gets logged.   *)
(*                                                                         *)
(* Everything here runs on the GUI thread, so one Qt slot runs to its end  *)
(* before the next starts; what interleaves are the slots themselves: the  *)
(* 100 ms guiUpdate timer, the decoder's lines arriving one by one during  *)
(* the following slot, the clock, the log dialog and the operator.  Each   *)
(* slot is one action.  A member function called by a slot is an operator  *)
(* from the state before it to the state after it, so that an action is    *)
(* the composition of every call the slot makes.                           *)
(*                                                                         *)
(* Mode FT8, special operating activity NONE, Auto Seq checked, calls not  *)
(* held for confirmation (cbConfStart unchecked), no "other" calls added   *)
(* (cbAddOther unchecked).                                                 *)
(***************************************************************************)
EXTENDS Naturals, FiniteSets

CONSTANTS
  N,            \* number of other stations
  Heard,        \* kinds of message they send
  MaxAge,       \* MAX_CALL_QUEUE_AGE_MINUTES, in slots; 0: nothing gets old
  MaxFailCount, \* MAX_FAIL_COUNT
  HoldRepeat,   \* the 50 of stopTx: transmissions before a held call times out
  Limits,       \* settings of sbTxRepeat the operator uses
  MaxLines,     \* bound: lines decoded in a behaviour
  MaxCommands,  \* bound: commands given in a behaviour
  Operator,     \* the operator's commands that occur
  SkipGrid, UseRR73, Add73, ReplyTo73, ReplyToRR73, CallFirst,  \* check boxes
  EarlyLog, LockPeriod,
  ClearDXOption, AutoLog, QuickCall                           \* Configuration

\* Call signs are numbered in their lexical order, which is the order in
\* which a QMap<QString, ...> is iterated.
Calls  == 1..N
NoCall == 0
Hidden == N + 1      \* the log dialog shows no call

Kinds == {"cq", "dircq", "oth", "oth73",             \* not to us
          "reply", "report", "rreport", "rrr", "rr73", "73"}
Commands == {"cq", "listen", "auto", "stop", "escape", "dblclick", "ctrlclick",
             "limit", "period", "band", "log"}

ASSUME StationAssumption == N \in Nat \ {0}
ASSUME HeardAssumption   == Heard \subseteq Kinds
ASSUME LimitAssumption   == /\ MaxAge \in Nat
                            /\ MaxFailCount \in Nat \ {0}
                            /\ HoldRepeat \in Nat \ {0, 1}
                            /\ Limits \subseteq 1..HoldRepeat /\ Limits # {}
ASSUME BoundAssumption    == MaxLines \in Nat /\ MaxCommands \in Nat
ASSUME OperatorAssumption == Operator \subseteq Commands
ASSUME OptionAssumption  ==
  /\ SkipGrid \in BOOLEAN /\ UseRR73 \in BOOLEAN /\ Add73 \in BOOLEAN
  /\ ReplyTo73 \in BOOLEAN /\ ReplyToRR73 \in BOOLEAN /\ CallFirst \in BOOLEAN
  /\ EarlyLog \in BOOLEAN /\ LockPeriod \in BOOLEAN
  /\ ClearDXOption \in BOOLEAN /\ AutoLog \in BOOLEAN /\ QuickCall \in BOOLEAN

VARIABLES
  st,     \* the members of MainWindow, see State
  left,   \* lines and commands still to come, at most
  heldOn  \* observer: the message transmitted last and how often in a row

vars == <<st, left, heldOn>>

Messages == [kind : Kinds, par : 0..1, age : 0..MaxAge]
NoMsg    == [kind |-> "none", par |-> 0, age |-> 0]
AnyMessage == Messages \cup {NoMsg}
Sent     == [to : Calls \cup {NoCall}, k : 1..6]   \* our Tx message k to a call
NoSent   == [to |-> NoCall, k |-> 0]
Repeats  == 0..HoldRepeat
TxStates == {"off", "on", "late", "cut"}
NoRun    == [sent |-> NoSent, n |-> 0]
FailCap  == 2 * MaxFailCount     \* counts above it are not told apart

State ==
  [mode  : {"manual", "cq", "listen"},   \* cqButton, listenButton
   auto  : BOOLEAN,                      \* m_auto
   txPar : 0..1,                         \* m_txFirst: parity of our slots
   slot  : 0..1,                         \* parity of the current slot
   phase : {"due", "early", "sent", "cut", "over"},
   tx    : TxStates,                     \* m_transmitting, m_txStartDt
   cur   : Sent \cup {NoSent},           \* m_currentMessage
   restart : BOOLEAN,                    \* m_restart
   unheard : SUBSET Calls,               \* the decoder may still report these
   ntx   : 1..6,                         \* m_ntx, and with it m_QSOProgress
   hisCall : Calls \cup {NoCall},        \* m_hisCall
   callInProg : Calls \cup {NoCall},     \* m_callInProg
   limit : Limits \cup {0},              \* sbTxRepeat, 0 is hold
   prefTxLimit : Limits,                 \* m_prefTxLimit
   dupTxCount  : Repeats,                \* m_dupTxCount
   msgAtEndTx  : Sent \cup {NoSent},     \* m_msgAtEndTx
   msgMap      : [Calls -> AnyMessage],      \* the call queue
   reportsRecd : [Calls -> AnyMessage],
   reportsSent : SUBSET Calls,
   repliesSent : [Calls -> 0..(MaxAge + 1)],            \* its age, MaxAge+1: none
   loggedCalls : SUBSET (Calls \cup {NoCall}),
   logBook     : SUBSET (Calls \cup {NoCall}),
   failMap     : [Calls -> 0..FailCap],
   logDlg      : Calls \cup {NoCall, Hidden},           \* call shown
   logTimer    : BOOLEAN]                               \* logQSOTimer
-----------------------------------------------------------------------------
(* What a message says, and how MainWindow classifies it. *)

ForUs(m) == m.kind \in {"reply", "report", "rreport", "rrr", "rr73", "73"}
IsCq(m)  == m.kind \in {"cq", "dircq"}
Is73(m)  == m.kind \in {"oth73", "rr73", "73"}    \* is_73 or is_RR73
HasReport(m) == m.kind \in {"report", "rreport"}  \* anyReportSnr

\* is_wantedDirCq or is_wantedDxLocalCq
Wanted(m) == IsCq(m) \/ (Add73 /\ Is73(m))

AnyAuto(s)       == s.mode # "manual"
CorrectPeriod(s, m) == m.par # s.txPar
Queued(s)        == {c \in Calls : s.msgMap[c] # NoMsg}
Exchanged(s, c)  == c \in s.reportsSent /\ s.reportsRecd[c] # NoMsg
Transmitting(s)  == s.tx # "off"
Calling(s)       == s.ntx = 6                       \* m_QSOProgress = CALLING

\* The Tx message processMessage selects, and by it m_QSOProgress.
Answer(m) == CASE m.kind = "reply"   -> 2
               [] m.kind = "report"  -> 3
               [] m.kind = "rreport" -> 4
               [] m.kind \in {"rrr", "rr73", "73"} -> 5
               [] OTHER -> IF SkipGrid THEN 2 ELSE 1
-----------------------------------------------------------------------------
(* The member functions, as operators from state to state. *)

SetCallInProg(s, c) ==
  [s EXCEPT !.callInProg = c,
            !.limit = IF @ = 0 /\ (c = NoCall \/ c # s.callInProg)
                        THEN s.prefTxLimit ELSE @]

RemoveMessage(s, c) ==
  [s EXCEPT !.msgMap = [d \in Calls |-> IF d = c THEN NoMsg ELSE @[d]]]

RemoveCallsByPeriod(s) ==
  [s EXCEPT !.msgMap =
     [d \in Calls |-> IF CorrectPeriod(s, @[d]) THEN @[d] ELSE NoMsg]]

\* Mutant: the queue keeps the calls of the other period.
SetPeriodKeepQueue(s, par) ==
  IF par = s.txPar THEN s
  ELSE SetCallInProg([s EXCEPT !.txPar = par,
                               !.tx = IF @ = "off" THEN @ ELSE "cut"], NoCall)

\* txFirstCheckBox changes; guiUpdate stops a transmission now out of its slot.
SetPeriod(s, par) ==
  IF par = s.txPar THEN s
  ELSE SetCallInProg(
         RemoveCallsByPeriod([s EXCEPT !.txPar = par,
                                       !.tx = IF @ = "off" THEN @ ELSE "cut"]),
         NoCall)

ResetWatchdog(s) == [s EXCEPT !.dupTxCount = 0]     \* tx_watchdog (false)

\* Mutant: the call in progress is not cleared.
SetToCqKeepCall(s) == [s EXCEPT !.ntx = 6]

SetToCq(s) == SetCallInProg([s EXCEPT !.ntx = 6], NoCall)

ProcessMessage(s, c, m) ==
  LET a == SetPeriod(s, 1 - m.par)
      b == IF s.mode = "listen" /\ Wanted(m) THEN ResetWatchdog(a) ELSE a
      d == SetCallInProg([b EXCEPT !.ntx = Answer(m), !.hisCall = c], c)
  IN [d EXCEPT !.restart = @ \/ Transmitting(d),
               !.tx      = IF @ = "on" THEN "late" ELSE @,
               !.auto    = @ \/ QuickCall]

\* The newest message, the first in call order of equally new ones.
Newest(s, S) == CHOOSE c \in S : \A d \in S :
                  \/ s.msgMap[c].age < s.msgMap[d].age
                  \/ s.msgMap[c].age = s.msgMap[d].age /\ c <= d

PeekMessage(s) ==
  LET toMe   == {c \in Queued(s) : ForUs(s.msgMap[c])}
      dirCqs == {c \in Queued(s) : s.msgMap[c].kind = "dircq"}
      cqs    == {c \in Queued(s) : IsCq(s.msgMap[c])}
  IN Newest(s, IF toMe # {}        THEN toMe
               ELSE IF dirCqs # {} THEN dirCqs
               ELSE IF cqs # {}    THEN cqs
               ELSE Queued(s))

ProcessNext(s) ==
  LET c == PeekMessage(s) IN ProcessMessage(ResetWatchdog(s), c, s.msgMap[c])

TxWatchdog(s) ==                                    \* tx_watchdog (true)
  LET a == RemoveMessage(s, s.hisCall)
  IN ResetWatchdog(IF ~s.auto \/ ~AnyAuto(s) THEN [s EXCEPT !.auto = FALSE]
                   ELSE IF Queued(a) # {}     THEN ProcessNext(a)
                   ELSE IF s.mode = "listen"  THEN [a EXCEPT !.auto = FALSE]
                   ELSE SetToCq(a))

ClearDX(s) ==
  [SetCallInProg(s, NoCall) EXCEPT !.auto = @ /\ Calling(s),
                                   !.hisCall = NoCall, !.ntx = 6]

PostLog(s, c) ==
  [SetCallInProg(RemoveMessage(s, c), NoCall) EXCEPT
     !.loggedCalls = @ \cup {c},
     !.reportsSent = @ \ {c},
     !.reportsRecd = [d \in Calls |-> IF d = c THEN NoMsg ELSE @[d]],
     !.repliesSent = [d \in Calls |-> IF d = c THEN MaxAge + 1 ELSE @[d]],
     !.dupTxCount = 0, !.msgAtEndTx = NoSent]

\* The log book gets m_hisCall, the incremental log and m_loggedCalls get c.
AcceptQSO(s, c) ==
  LET a == [s EXCEPT !.logBook = @ \cup {s.hisCall}]
  IN PostLog(IF ClearDXOption THEN ClearDX(a) ELSE a, c)

InitLogQSO(s, c) ==
  IF s.logDlg # Hidden THEN s
  ELSE IF AutoLog \/ AnyAuto(s) THEN AcceptQSO(s, c)
  ELSE [s EXCEPT !.logDlg = c]

LogHisCall(s) == InitLogQSO(s, s.hisCall)           \* on_logQSOButton_clicked

SelectLogMethod(s) ==
  IF AnyAuto(s) \/ AutoLog THEN LogHisCall(s) ELSE [s EXCEPT !.logTimer = TRUE]

IncrFailCount(s, c) ==
  [s EXCEPT !.failMap = [d \in Calls |->
                IF d = c /\ @[d] < FailCap THEN @[d] + 1 ELSE @[d]]]

ClearFailCount(s, c) ==
  [s EXCEPT !.failMap = [d \in Calls |-> IF d = c THEN 0 ELSE @[d]]]

StopTxButton(s) ==
  [s EXCEPT !.mode = "manual", !.auto = FALSE,
            !.tx = IF @ = "off" THEN @ ELSE "cut"]

ClearAllCallInfo(s) ==
  [SetCallInProg(s, NoCall) EXCEPT
     !.loggedCalls = {}, !.reportsSent = {},
     !.reportsRecd = [c \in Calls |-> NoMsg],
     !.repliesSent = [c \in Calls |-> MaxAge + 1],
     !.failMap = [c \in Calls |-> 0],
     !.msgMap  = [c \in Calls |-> NoMsg]]
-----------------------------------------------------------------------------
(* readFromStdout: one decoded line, message m of station c. *)

SaveMessage(s, c, m) ==
  [s EXCEPT !.msgMap = [d \in Calls |-> IF d = c THEN m ELSE @[d]]]

RecordReport(s, c, m) ==
  IF ~HasReport(m) THEN s
  ELSE [s EXCEPT !.reportsRecd = [d \in Calls |-> IF d = c THEN m ELSE @[d]]]

MaxFail(s) == IF s.prefTxLimit = 1 THEN MaxFailCount
                                   ELSE (MaxFailCount * 3) \div 2

Ignored(s, c, m) ==
  \/ /\ ~CorrectPeriod(s, m)
     /\ LockPeriod \/ Queued(s) # {} \/ s.callInProg # NoCall
  \/ ~Is73(m) /\ s.failMap[c] >= MaxFail(s)
  \/ Wanted(m) /\ ~ForUs(m) /\ c \in s.logBook     \* workedBefore

Held(s, c, m) ==
  /\ s.limit = 0
  /\ ~(ForUs(m) /\ s.callInProg = c)
  /\ s.callInProg # NoCall

\* Mutant: whether the partner has sent a report does not matter.
InterruptsAlways(s, m) ==
  /\ ForUs(m) /\ AnyAuto(s) /\ s.auto
  /\ s.ntx = 1 \/ (s.ntx = 2 /\ SkipGrid)

\* A call to us may replace a partner that has not sent a report yet.
Interrupts(s, m) ==
  /\ ForUs(m) /\ AnyAuto(s) /\ s.auto
  /\ s.callInProg = NoCall \/ s.reportsRecd[s.callInProg] = NoMsg
  /\ s.ntx = 1 \/ (s.ntx = 2 /\ SkipGrid)

\* A station that starts over after we have its report gets that report's answer.
DecodeInSequence(s, c, m) ==
  IF (IsCq(m) \/ m.kind = "reply") /\ s.reportsRecd[c] # NoMsg
    THEN s.reportsRecd[c] ELSE m

NewlyLogged(s, c, m) ==
  ForUs(m) /\ Is73(m) /\ Exchanged(s, c) /\ c \notin s.loggedCalls

LogDecode(s, c) ==
  IF c \notin {s.callInProg, s.hisCall} THEN InitLogQSO(s, c)
                                        ELSE SelectLogMethod(s)

\* Mutant: in manual mode Tx need not be enabled.
RespondsStopped(s, m, interrupts) ==
  IF AnyAuto(s) THEN ForUs(m) \/ Wanted(m) \/ interrupts ELSE ForUs(m)

Responds(s, m, interrupts) ==
  IF AnyAuto(s) THEN ForUs(m) \/ Wanted(m) \/ interrupts
  ELSE ForUs(m) /\ (Is73(m) \/ (s.auto /\ (Calling(s) => CallFirst)))

Continues(m) == ~Is73(m) \/ (Add73 /\ ~ForUs(m))

Respond(s, c, m, held, inTime) ==
  LET n == DecodeInSequence(s, c, m)
      q == IF AnyAuto(s) THEN SaveMessage(s, c, n) ELSE s
  IN IF held \/ ~inTime THEN q ELSE ProcessMessage(q, c, n)

EndQso(s, c, m, held) ==
  LET replies == \/ m.kind = "73"   /\ ReplyTo73
                 \/ m.kind = "rr73" /\ ReplyToRR73
  IN IF AnyAuto(s) /\ ~replies THEN TxWatchdog(s)
     ELSE IF held               THEN s
     ELSE IF AnyAuto(s)         THEN ProcessMessage(s, c, m)
     ELSE [SetToCq(s) EXCEPT !.auto = FALSE]

Decode(s, c, m, early) ==
  LET r      == RecordReport(s, c, m)
      logs   == NewlyLogged(r, c, m)
      skip   == IF logs THEN c \notin {r.callInProg, r.hisCall} ELSE Ignored(s, c, m)
      held   == Held(s, c, m)
      breaks == Interrupts(r, m)
      l      == IF logs THEN LogDecode(r, c) ELSE r
      inTime == ~Transmitting(l) \/ early
      mine   == l.callInProg \in {c, NoCall}
  IN IF skip \/ ~Responds(r, m, breaks) THEN l
     ELSE IF ~Continues(m)  THEN IF mine THEN EndQso(l, c, m, held) ELSE l
     ELSE IF mine \/ breaks THEN Respond(l, c, m, held, inTime)
     ELSE IF AnyAuto(l)     THEN SaveMessage(l, c, m)
     ELSE l

-----------------------------------------------------------------------------
(* stopTx: a transmission ends; short if it began, or began anew, too late. *)

\* Mutant: the time a roger report was sent is not kept.
RecordSentNoTime(s) ==
  LET c == s.cur.to
      k == s.cur.k
  IN [s EXCEPT
       !.reportsSent = IF k \in {2, 3} THEN @ \cup {c} ELSE @,
       !.repliesSent = [d \in Calls |-> IF d = c /\ k \in 1..2 THEN 0 ELSE @[d]]]

RecordSent(s) ==
  LET c == s.cur.to
      k == s.cur.k
  IN [s EXCEPT
       !.reportsSent = IF k \in {2, 3} THEN @ \cup {c} ELSE @,
       !.repliesSent = [d \in Calls |-> IF d = c /\ k \in 1..3 THEN 0 ELSE @[d]]]

Ends73(s) == s.cur.k = 5 \/ (s.cur.k = 4 /\ UseRR73)

\* Mutant: our own 73 is enough to log.
LoggableAny(s) == s.hisCall # NoCall /\ s.hisCall \notin s.loggedCalls

Loggable(s) == s.hisCall # NoCall /\ Exchanged(s, s.hisCall)
                 /\ s.hisCall \notin s.loggedCalls

SignOff(s) ==
  LET w == TxWatchdog(IF Loggable(s) THEN SelectLogMethod(s) ELSE s)
  IN IF AnyAuto(w) THEN w ELSE SetToCq(w)

TimeOut(s) ==
  LET a == SetCallInProg(s, NoCall)
      b == IF a.limit # 0 THEN IncrFailCount(a, s.hisCall) ELSE a
  IN [TxWatchdog(b) EXCEPT !.msgAtEndTx = NoSent]

MaxRepeat(s) == IF s.limit = 0 THEN HoldRepeat ELSE s.limit

\* Mutant: one repeat too many.
CountRepeatLate(s) ==
  LET n == s.dupTxCount + 1
  IN IF s.limit > 1 /\ s.cur # s.msgAtEndTx
       THEN [s EXCEPT !.dupTxCount = 0, !.msgAtEndTx = s.cur]
     ELSE IF n >= MaxRepeat(s) THEN TimeOut(s)
     ELSE [s EXCEPT !.dupTxCount = n, !.msgAtEndTx = s.cur]

\* Mutant: the message sent last is not remembered.
CountRepeatForget(s) ==
  LET n == s.dupTxCount + 1
  IN IF s.limit > 1 /\ s.cur # s.msgAtEndTx
       THEN [s EXCEPT !.dupTxCount = 0]
     ELSE IF n + 1 >= MaxRepeat(s) THEN TimeOut(s)
     ELSE [s EXCEPT !.dupTxCount = n, !.msgAtEndTx = s.cur]

\* Mutant: the count of repeats is never compared with the limit.
CountRepeatForever(s) == [s EXCEPT !.dupTxCount = @ + 1, !.msgAtEndTx = s.cur]

CountRepeat(s) ==
  LET n == s.dupTxCount + 1
  IN IF s.limit > 1 /\ s.cur # s.msgAtEndTx
       THEN [s EXCEPT !.dupTxCount = 0, !.msgAtEndTx = s.cur]
     ELSE IF n + 1 >= MaxRepeat(s) THEN TimeOut(s)
     ELSE [s EXCEPT !.dupTxCount = n, !.msgAtEndTx = s.cur]

StopTx(s, short) ==
  LET r == RecordSent([s EXCEPT !.tx = "off",
                                !.phase = IF s.tx = "cut" /\ short THEN "cut" ELSE "sent"])
      e == IF EarlyLog /\ AnyAuto(r) /\ r.cur.k = 4 /\ Loggable(r)
             THEN LogHisCall(r) ELSE r
  IN IF short           THEN r
     ELSE IF Ends73(r)   THEN SignOff(r)
     ELSE IF r.cur.k = 6 THEN [r EXCEPT !.dupTxCount = 0, !.msgAtEndTx = NoSent]
     ELSE CountRepeat(e)
-----------------------------------------------------------------------------
(* The clock and guiUpdate. *)

Init ==
  /\ \E n \in Limits :        \* the limit is a saved setting
       st = [mode |-> "manual", auto |-> FALSE, txPar |-> 0, slot |-> 1,
             phase |-> "over", tx |-> "off", cur |-> NoSent, restart |-> FALSE,
             unheard |-> {}, ntx |-> 6, hisCall |-> NoCall, callInProg |-> NoCall,
             limit |-> n, prefTxLimit |-> n, dupTxCount |-> 0, msgAtEndTx |-> NoSent,
             msgMap |-> [c \in Calls |-> NoMsg],
             reportsRecd |-> [c \in Calls |-> NoMsg],
             reportsSent |-> {}, repliesSent |-> [c \in Calls |-> MaxAge + 1],
             loggedCalls |-> {}, logBook |-> {}, failMap |-> [c \in Calls |-> 0],
             logDlg |-> Hidden, logTimer |-> FALSE]
  /\ left = [lines |-> MaxLines, commands |-> MaxCommands]
  /\ heldOn = NoRun

\* A transmission due when the slot began and called off since can still begin
\* late in this slot.
CalledOff(s) == s.phase = "due" /\ ~(s.auto /\ s.slot = s.txPar)
Settled(s) == IF CalledOff(s) THEN [s EXCEPT !.phase = "early"] ELSE s

\* Whether the contact ends on the way from st to s: it is logged, another one
\* begins, CQ is called or Tx disabled.
Over(s) == \/ s.loggedCalls # st.loggedCalls \/ s.callInProg # st.callInProg
           \/ Calling(s) \/ ~s.auto

\* A step of the program: the end of a contact ends the run of repeats.
Step(s) ==
  /\ st' = Settled(s)
  /\ heldOn' = IF Over(s) THEN NoRun ELSE heldOn

TxDue == st.auto /\ st.slot = st.txPar /\ st.tx = "off" /\ st.phase \in {"due", "early", "cut"}

CurrentMessage(s) ==
  [to |-> IF s.ntx = 6 THEN NoCall ELSE s.hisCall, k |-> s.ntx]

\* g_iptt rises and, PTT confirmed, startTx2 runs.
StartTx(late) ==
  /\ TxDue
  /\ late => st.phase # "due"
  /\ Step([st EXCEPT !.tx = IF late THEN "late" ELSE "on", !.phase = "sent",
                     !.cur = CurrentMessage(st),
                     !.prefTxLimit = IF st.limit # 0 THEN st.limit ELSE @])

RestartTx ==
  /\ st.restart
  /\ Step([st EXCEPT !.restart = FALSE, !.cur = CurrentMessage(st)])

EndTx(short) ==
  /\ Transmitting(st) /\ ~st.restart
  /\ short => st.tx \in {"late", "cut"}
  /\ LET s == StopTx(st, short)
         n == IF heldOn.sent = st.cur THEN heldOn.n + 1 ELSE 1
     IN /\ st' = Settled(s)
        /\ heldOn' = IF Over(s) \/ st.cur.k = 6 THEN NoRun
                     ELSE IF short THEN heldOn
                     ELSE [sent |-> st.cur, n |-> IF n > HoldRepeat THEN HoldRepeat ELSE n]

\* Three quarters of the slot have passed: no transmission starts any more.
SlotLate ==
  /\ st.phase \in {"early", "cut"} /\ st.tx = "off" /\ ~TxDue
  /\ Step([st EXCEPT !.phase = IF @ = "early" THEN "over" ELSE "sent"])

\* guiUpdate finds the idle minutes used up: they only count in manual mode.
RunawayWatchdog ==
  /\ st.mode = "manual" /\ st.auto
  /\ Step([TxWatchdog(st) EXCEPT !.tx = IF @ = "off" THEN @ ELSE "cut"])

Older(m) == IF m = NoMsg THEN m ELSE [m EXCEPT !.age = IF @ < MaxAge THEN @ + 1 ELSE @]

AgeAll(s) ==
  [s EXCEPT !.msgMap = [c \in Calls |-> Older(@[c])],
            !.reportsRecd = [c \in Calls |-> Older(@[c])],
            !.repliesSent = [c \in Calls |-> IF @[c] < MaxAge THEN @[c] + 1 ELSE @[c]]]

\* Mutant: queued calls expire one slot early.
CheckExpiredEarly(s) ==
  [s EXCEPT !.msgMap = [c \in Calls |-> IF @[c].age + 1 >= MaxAge THEN NoMsg ELSE @[c]]]

CheckExpiredCallInfo(s) ==
  LET old == {c \in Calls : s.repliesSent[c] = MaxAge}
  IN [s EXCEPT
       !.msgMap = [c \in Calls |-> IF @[c].age >= MaxAge THEN NoMsg ELSE @[c]],
       !.repliesSent = [c \in Calls |-> IF c \in old THEN MaxAge + 1 ELSE @[c]],
       !.reportsRecd = [c \in Calls |-> IF c \in old THEN NoMsg ELSE @[c]],
       !.reportsSent = @ \ old]

\* decodeBusy (true): the decoder starts on the slot that ends.
DecodeBusy(s, cleanup) ==
  LET a == IF cleanup THEN CheckExpiredCallInfo(s) ELSE s
  IN IF a.mode # "listen" \/ (a.auto /\ ~Calling(a)) THEN a
     ELSE IF Queued(a) # {} THEN ProcessNext(a)
     ELSE TxWatchdog(a)

\* The slot ends; it is decoded if nothing was transmitted in it.
SlotEnds(cleanup) ==
  /\ st.tx = "off" /\ st.phase \in {"over", "sent"} /\ st.unheard = {}
  /\ cleanup => MaxAge > 0
  /\ LET s == AgeAll([st EXCEPT !.slot = 1 - @, !.phase = "due",
                                !.unheard = IF st.phase = "over" THEN Calls ELSE {}])
     IN IF st.phase = "over" THEN Step(DecodeBusy(s, cleanup))
                             ELSE ~cleanup /\ Step(s)
-----------------------------------------------------------------------------
(* The decoder's output. *)

DecodeLine(c, kind, early) ==
  /\ c \in st.unheard /\ left.lines > 0
  /\ left' = [left EXCEPT !.lines = @ - 1]
  /\ early => Transmitting(st)
  /\ LET m == [kind |-> kind, par |-> 1 - st.slot, age |-> 0]
     IN Step(Decode([st EXCEPT !.unheard = @ \ {c}], c, m, early))

DecodeFinished ==
  /\ st.unheard # {}
  /\ Step([st EXCEPT !.unheard = {}])
-----------------------------------------------------------------------------
(* The operator, and the log dialog. *)

Command(name, s) ==
  /\ name \in Operator /\ left.commands > 0
  /\ left' = [left EXCEPT !.commands = @ - 1]
  /\ st' = Settled(s) /\ heldOn' = NoRun

CqButton ==
  LET on == [st EXCEPT !.mode = "cq", !.auto = TRUE]
      s  == IF st.mode = "cq" THEN [st EXCEPT !.mode = "manual", !.auto = FALSE]
            ELSE IF st.callInProg = NoCall THEN TxWatchdog(on)
            ELSE on
  IN Command("cq", ResetWatchdog(s))

ListenButton ==
  LET on == [st EXCEPT !.mode = "listen"]
      s  == IF st.mode = "listen" THEN [st EXCEPT !.mode = "manual", !.auto = FALSE]
            ELSE IF st.callInProg = NoCall THEN TxWatchdog(on)
            ELSE [on EXCEPT !.auto = TRUE]
  IN Command("listen", ResetWatchdog(s))

AutoButton == st.mode = "manual" /\ Command("auto", [st EXCEPT !.auto = ~@])

StopTxButtonClicked == Command("stop", StopTxButton(st))

Escape ==
  Command("escape",
    [ClearDX(StopTxButton([st EXCEPT !.msgMap = [c \in Calls |-> NoMsg]]))
       EXCEPT !.auto = FALSE])

\* A decode still on the screen, from the last slot or the one before.
Shown(kind, back) == [kind |-> kind, par |-> (1 + st.slot + back) % 2,
                      age |-> IF back <= MaxAge THEN back ELSE MaxAge]

DoubleClickOnCall(c, kind, back) ==
  LET m == Shown(kind, back)
      a == IF st.msgMap[c] = NoMsg THEN st ELSE ClearFailCount(RemoveMessage(st, c), c)
  IN /\ CorrectPeriod(st, m) \/ ~LockPeriod
     /\ Command("dblclick", ProcessMessage(ResetWatchdog(a), c, m))

\* The closing 73 or RR73 is cut from the text that is queued.
Stripped(kind) == CASE kind \in {"73", "rr73"} -> "reply"
                    [] kind = "oth73" -> "oth"
                    [] OTHER -> kind

CtrlDoubleClickOnCall(c, kind, back) ==
  LET m == Shown(Stripped(kind), back)
      a == SetPeriod(st, 1 - m.par)
  IN /\ AnyAuto(st)
     /\ CorrectPeriod(st, m) \/ ~LockPeriod
     /\ Command("ctrlclick",
                IF c = a.hisCall /\ a.auto THEN a ELSE SaveMessage(a, c, m))

TxRepeatChanged(n) ==
  /\ n # st.limit /\ (n = 0 => st.callInProg # NoCall)
  /\ LET s == [st EXCEPT !.limit = n]
     IN Command("limit", IF n = 0 THEN ClearFailCount(s, s.callInProg) ELSE s)

TxFirstChanged == Command("period", SetPeriod(st, 1 - st.txPar))

\* band_changed halts Tx, the combo box clears what is known of the calls.
BandChanged ==
  Command("band", [ClearAllCallInfo(StopTxButton(st)) EXCEPT !.logBook = {}])

LogQSOButton == st.hisCall # NoCall /\ Command("log", LogHisCall(st))

\* Logging a contact, though it was logged before, starts m_dupTxCount anew.
Logs(s) == st' = Settled(s) /\ heldOn' = NoRun

LogTimer == st.logTimer /\ Logs(LogHisCall([st EXCEPT !.logTimer = FALSE]))

LogDialogAccept ==
  /\ st.logDlg # Hidden
  /\ Logs(AcceptQSO([st EXCEPT !.logDlg = Hidden], st.logDlg))

LogDialogReject ==
  /\ st.logDlg # Hidden
  /\ Step([st EXCEPT !.logDlg = Hidden])
-----------------------------------------------------------------------------
Clock == /\ \/ \E late \in BOOLEAN : StartTx(late)
            \/ RestartTx
            \/ \E short \in BOOLEAN : EndTx(short)
            \/ SlotLate
            \/ \E cleanup \in BOOLEAN : SlotEnds(cleanup)
         /\ UNCHANGED left
Decoder == \/ \E c \in Calls, kind \in Heard, early \in BOOLEAN : DecodeLine(c, kind, early)
           \/ DecodeFinished /\ UNCHANGED left
Person  == \/ CqButton \/ ListenButton \/ AutoButton \/ StopTxButtonClicked
           \/ Escape
           \/ \E c \in Calls, kind \in Heard, back \in 0..1 :
                DoubleClickOnCall(c, kind, back) \/ CtrlDoubleClickOnCall(c, kind, back)
           \/ \E n \in Limits \cup {0} : TxRepeatChanged(n)
           \/ TxFirstChanged \/ BandChanged \/ LogQSOButton
LogDialog == (LogTimer \/ LogDialogAccept \/ LogDialogReject) /\ UNCHANGED left
Watchdog  == RunawayWatchdog /\ UNCHANGED left

Next == Clock \/ Watchdog \/ Decoder \/ Person \/ LogDialog

Spec == Init /\ [][Next]_vars

\* The timers keep running and the decoder ends; nobody need call or click.
Fairness == /\ WF_vars(Clock)
            /\ WF_vars(DecodeFinished /\ UNCHANGED left)
            /\ WF_vars(LogTimer /\ UNCHANGED left)
FairSpec == Spec /\ Fairness
-----------------------------------------------------------------------------
(* Properties *)

\* Every variable keeps its type: calls are known calls, counters are bounded.
TypeOK == /\ st \in State
          /\ left \in [lines : 0..MaxLines, commands : 0..MaxCommands]
          /\ heldOn \in [sent : Sent \cup {NoSent}, n : 0..HoldRepeat]

\* m_hisCall, m_callInProg and m_ntx are set in different slots but tell one
\* story: the call in progress is the one our messages are addressed to, we
\* call CQ only when none is in progress, and no message but CQ lacks a call.
QsoConsistent ==
  /\ st.callInProg # NoCall => st.callInProg = st.hisCall /\ st.ntx # 6
  /\ st.ntx # 6 => st.hisCall # NoCall
  /\ st.cur.k \in 1..5 => st.cur.to # NoCall
  /\ st.restart => Transmitting(st)

\* What stopTx noted as sent to a station can expire: the report is on file
\* only together with the time it was sent, by which checkExpiredCallInfo
\* forgets it.
SentReportsExpire == \A c \in st.reportsSent : st.repliesSent[c] <= MaxAge

ByCommand == left'.commands < left.commands
HeardNow  == IF left'.lines < left.lines THEN st.unheard \ st'.unheard ELSE {}

\* A call cannot be answered in our transmit period: answering it would flip the
\* period and discard the calls queued meanwhile.
OutOfPeriod(s, c) == c \in Queued(s) /\ ~CorrectPeriod(s, s.msgMap[c])

\* No call gets out of period by a change of the period, whoever makes it, and
\* none enters the queue out of period, with two exceptions: a line of it was
\* just decoded for which decodeInSequence queued an earlier report, or which
\* came before guiUpdate stopped a transmission that is to end early.
QueueInPeriod ==
  [][\A c \in Calls : OutOfPeriod(st', c) =>
       \/ OutOfPeriod(st, c)
       \/ c \in HeardNow /\ (st'.msgMap[c] = st.reportsRecd[c] \/ st.tx = "cut")]_vars

\* A contact is logged without the operator only when a report was both sent
\* and received, and not a second time (readFromStdout, stopTx): whichever
\* slot notices the 73, and whoever is called meanwhile.  With AutoLog, that is:
\* without it the log timer may find an automatic mode switched on, and then
\* m_hisCall is logged as it is.
LoggedWhenExchanged ==
  [][\A c \in st'.loggedCalls \ st.loggedCalls :
       Exchanged(st, c) \/ ByCommand \/ st.logDlg # Hidden]_vars

\* A queued call is dropped only for a reason: it is the call just worked, it
\* was logged, it got too old, the period changed or the operator acted.
QueuedUntilServed ==
  [][\A c \in Queued(st) \ Queued(st') :
       \/ c = st.hisCall
       \/ c \in st'.loggedCalls \ st.loggedCalls
       \/ c = st.logDlg
       \/ MaxAge > 0 /\ st.msgMap[c].age + 1 >= MaxAge
       \/ st'.txPar # st.txPar
       \/ ByCommand]_vars

\* Once a partner has sent a report, no line decoded from another station makes
\* the sequencer answer that station instead (is_interrupt in readFromStdout).
NoHijack ==
  [][\A d \in HeardNow : \A c \in Calls \ {d} :
       (st.callInProg = c /\ st.reportsRecd[c] # NoMsg)
         => st'.callInProg \in {c, NoCall}]_vars

\* After Stop Tx only the operator enables transmission again: no decode, late
\* 73, expired timer or end of transmission does.
StopStaysStopped ==
  [][(st.mode = "manual" /\ ~st.auto /\ st'.auto) => ByCommand]_vars

\* In CQ mode nobody is sent the same message in one contact as often as
\* sbTxRepeat says, or HoldRepeat times when held, without the contact being
\* given up: after each whole transmission that does not end it, the message was
\* sent fewer times than that (counted since the contact began, was logged or the
\* operator acted, which start m_dupTxCount anew).
RepeatLimit ==
  [][(st.mode = "cq" /\ heldOn' # heldOn) => heldOn'.n < MaxRepeat(st)]_vars

\* Once the band falls silent (after MaxLines lines at most), every contact comes
\* to an end, completed or timed out, and so does every chain of contacts taken
\* from the queue, whatever was heard before: CQ mode always comes back to calling
\* CQ, and listen mode to Tx off and an empty queue.  (A call queued late in a
\* CQ transmission waits in the queue until the next contact of CQ mode ends.)
SilenceEndsCalls ==
  AnyAuto(st) ~> \/ st.mode = "manual"
                 \/ st.mode = "cq" /\ st.auto /\ Calling(st)
                 \/ st.mode = "listen" /\ ~st.auto /\ Queued(st) = {}
=============================================================================
