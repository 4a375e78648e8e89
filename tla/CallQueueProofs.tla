--------------------------- MODULE CallQueueProofs ---------------------------
(***************************************************************************)
(* Proofs about the sequencer, for every number of stations and every      *)
(* setting: its members keep their types, the call in progress, the call   *)
(* addressed and the message selected agree, and what was sent expires;    *)
(* Tx stays stopped, contacts are not taken over, what is logged was       *)
(* exchanged, no message is repeated past the limit, no queued call is     *)
(* forgotten or gets out of period.                                        *)
(*                                                                         *)
(* The member functions are shown one by one to take a coherent state to a *)
(* coherent state; an action is a composition of them, so its proof only   *)
(* chains their lemmas.                                                    *)
(***************************************************************************)
EXTENDS CallQueue, TLAPS, WellFoundedInduction
\* Giving one member a value of its type keeps a state well typed.
LEMMA UpdateType ==
  ASSUME NEW s \in State
  PROVE  /\ \A v \in {"manual", "cq", "listen"} : [s EXCEPT !.mode = v] \in State
         /\ \A v \in BOOLEAN : [s EXCEPT !.auto = v] \in State
         /\ \A v \in 0..1 : [s EXCEPT !.txPar = v] \in State
         /\ \A v \in 0..1 : [s EXCEPT !.slot = v] \in State
         /\ \A v \in {"due", "early", "sent", "cut", "over"} : [s EXCEPT !.phase = v] \in State
         /\ \A v \in TxStates : [s EXCEPT !.tx = v] \in State
         /\ \A v \in Sent \cup {NoSent} : [s EXCEPT !.cur = v] \in State
         /\ \A v \in BOOLEAN : [s EXCEPT !.restart = v] \in State
         /\ \A v \in SUBSET Calls : [s EXCEPT !.unheard = v] \in State
         /\ \A v \in 1..6 : [s EXCEPT !.ntx = v] \in State
         /\ \A v \in Calls \cup {NoCall} : [s EXCEPT !.hisCall = v] \in State
         /\ \A v \in Calls \cup {NoCall} : [s EXCEPT !.callInProg = v] \in State
         /\ \A v \in Limits \cup {0} : [s EXCEPT !.limit = v] \in State
         /\ \A v \in Limits : [s EXCEPT !.prefTxLimit = v] \in State
         /\ \A v \in Repeats : [s EXCEPT !.dupTxCount = v] \in State
         /\ \A v \in Sent \cup {NoSent} : [s EXCEPT !.msgAtEndTx = v] \in State
         /\ \A v \in [Calls -> AnyMessage] : [s EXCEPT !.msgMap = v] \in State
         /\ \A v \in [Calls -> AnyMessage] : [s EXCEPT !.reportsRecd = v] \in State
         /\ \A v \in SUBSET Calls : [s EXCEPT !.reportsSent = v] \in State
         /\ \A v \in [Calls -> 0..(MaxAge + 1)] : [s EXCEPT !.repliesSent = v] \in State
         /\ \A v \in SUBSET (Calls \cup {NoCall}) : [s EXCEPT !.loggedCalls = v] \in State
         /\ \A v \in SUBSET (Calls \cup {NoCall}) : [s EXCEPT !.logBook = v] \in State
         /\ \A v \in [Calls -> 0..FailCap] : [s EXCEPT !.failMap = v] \in State
         /\ \A v \in Calls \cup {NoCall, Hidden} : [s EXCEPT !.logDlg = v] \in State
         /\ \A v \in BOOLEAN : [s EXCEPT !.logTimer = v] \in State
<1>1. \A v \in {"manual", "cq", "listen"} : [s EXCEPT !.mode = v] \in State BY DEF State
<1>2. \A v \in BOOLEAN : [s EXCEPT !.auto = v] \in State BY DEF State
<1>3. \A v \in 0..1 : [s EXCEPT !.txPar = v] \in State BY DEF State
<1>4. \A v \in 0..1 : [s EXCEPT !.slot = v] \in State BY DEF State
<1>5. \A v \in {"due", "early", "sent", "cut", "over"} : [s EXCEPT !.phase = v] \in State BY DEF State
<1>6. \A v \in TxStates : [s EXCEPT !.tx = v] \in State BY DEF State
<1>7. \A v \in Sent \cup {NoSent} : [s EXCEPT !.cur = v] \in State BY DEF State
<1>8. \A v \in BOOLEAN : [s EXCEPT !.restart = v] \in State BY DEF State
<1>9. \A v \in SUBSET Calls : [s EXCEPT !.unheard = v] \in State BY DEF State
<1>10. \A v \in 1..6 : [s EXCEPT !.ntx = v] \in State BY DEF State
<1>11. \A v \in Calls \cup {NoCall} : [s EXCEPT !.hisCall = v] \in State BY DEF State
<1>12. \A v \in Calls \cup {NoCall} : [s EXCEPT !.callInProg = v] \in State BY DEF State
<1>13. \A v \in Limits \cup {0} : [s EXCEPT !.limit = v] \in State BY DEF State
<1>14. \A v \in Limits : [s EXCEPT !.prefTxLimit = v] \in State BY DEF State
<1>15. \A v \in Repeats : [s EXCEPT !.dupTxCount = v] \in State BY DEF State
<1>16. \A v \in Sent \cup {NoSent} : [s EXCEPT !.msgAtEndTx = v] \in State BY DEF State
<1>17. \A v \in [Calls -> AnyMessage] : [s EXCEPT !.msgMap = v] \in State BY DEF State
<1>18. \A v \in [Calls -> AnyMessage] : [s EXCEPT !.reportsRecd = v] \in State BY DEF State
<1>19. \A v \in SUBSET Calls : [s EXCEPT !.reportsSent = v] \in State BY DEF State
<1>20. \A v \in [Calls -> 0..(MaxAge + 1)] : [s EXCEPT !.repliesSent = v] \in State BY DEF State
<1>21. \A v \in SUBSET (Calls \cup {NoCall}) : [s EXCEPT !.loggedCalls = v] \in State BY DEF State
<1>22. \A v \in SUBSET (Calls \cup {NoCall}) : [s EXCEPT !.logBook = v] \in State BY DEF State
<1>23. \A v \in [Calls -> 0..FailCap] : [s EXCEPT !.failMap = v] \in State BY DEF State
<1>24. \A v \in Calls \cup {NoCall, Hidden} : [s EXCEPT !.logDlg = v] \in State BY DEF State
<1>25. \A v \in BOOLEAN : [s EXCEPT !.logTimer = v] \in State BY DEF State
<1> QED BY <1>1, <1>2, <1>3, <1>4, <1>5, <1>6, <1>7, <1>8, <1>9, <1>10, <1>11, <1>12, <1>13, <1>14, <1>15, <1>16, <1>17, <1>18, <1>19, <1>20, <1>21, <1>22, <1>23, <1>24, <1>25
-----------------------------------------------------------------------------
(* Coherent states: QsoConsistent and SentReportsExpire as one predicate of *)
(* a well-typed state, kept by every member function.                       *)

Linked(s) ==
  /\ s.callInProg # NoCall => s.callInProg = s.hisCall /\ s.ntx # 6
  /\ s.ntx # 6 => s.hisCall # NoCall
  /\ s.cur.k \in 1..5 => s.cur.to # NoCall
  /\ s.restart => s.tx # "off"
  /\ \A c \in s.reportsSent : s.repliesSent[c] <= MaxAge

Coherent == {s \in State : Linked(s)}

\* setCallInProg: the limit it restores is one the operator preferred.
LEMMA SetCallInProgCoherent ==
  ASSUME NEW s \in State, NEW c \in Calls \cup {NoCall},
         Linked([s EXCEPT !.callInProg = c])
  PROVE  SetCallInProg(s, c) \in Coherent
<1>1. s.limit \in Limits \cup {0} /\ s.prefTxLimit \in Limits BY DEF State
<1>2. PICK v \in Limits \cup {0} :
        SetCallInProg(s, c) = [s EXCEPT !.callInProg = c, !.limit = v]
  BY <1>1 DEF SetCallInProg
<1>3. [s EXCEPT !.callInProg = c, !.limit = v] \in State BY UpdateType
<1>4. Linked([s EXCEPT !.callInProg = c, !.limit = v]) BY DEF Linked, State
<1> QED BY <1>2, <1>3, <1>4 DEF Coherent

\* Clearing the call in progress never disturbs the rest.
LEMMA ClearCallCoherent ==
  ASSUME NEW s \in Coherent
  PROVE  SetCallInProg(s, NoCall) \in Coherent
BY SetCallInProgCoherent DEF Coherent, Linked, State

\* removeMessage only touches the queue.
LEMMA RemoveMessageCoherent ==
  ASSUME NEW s \in Coherent, NEW c
  PROVE  RemoveMessage(s, c) \in Coherent
BY DEF RemoveMessage, Coherent, Linked, State, AnyMessage

\* Queueing a message only touches the queue.
LEMMA SaveMessageCoherent ==
  ASSUME NEW s \in Coherent, NEW c, NEW m \in AnyMessage
  PROVE  SaveMessage(s, c, m) \in Coherent
BY DEF SaveMessage, Coherent, Linked, State

\* removeCallsByPeriod only touches the queue.
LEMMA RemoveCallsByPeriodCoherent ==
  ASSUME NEW s \in Coherent
  PROVE  RemoveCallsByPeriod(s) \in Coherent
BY DEF RemoveCallsByPeriod, Coherent, Linked, State, AnyMessage

\* A transmission is cut when the period changes or Tx is stopped.
LEMMA CutType ==
  ASSUME NEW s \in State, NEW v, v = IF s.tx = "off" THEN s.tx ELSE "cut"
  PROVE  v \in TxStates /\ (v = "off" => s.tx = "off")
BY DEF State, TxStates

\* A change of the transmit period clears the call in progress.
LEMMA SetPeriodCoherent ==
  ASSUME NEW s \in Coherent, NEW par \in 0..1
  PROVE  SetPeriod(s, par) \in Coherent
<1> DEFINE tx == IF s.tx = "off" THEN s.tx ELSE "cut"
           a  == [s EXCEPT !.txPar = par, !.tx = tx]
<1>1. s \in State BY DEF Coherent
<1>2. tx \in TxStates /\ (tx = "off" => s.tx = "off") BY <1>1, CutType
<1> HIDE DEF tx
<1>3. a \in State BY <1>1, <1>2, UpdateType
<1>4. Linked(a) BY <1>1, <1>2 DEF Coherent, Linked, State
<1>5. a \in Coherent BY <1>3, <1>4 DEF Coherent
<1> QED BY <1>5, RemoveCallsByPeriodCoherent, ClearCallCoherent DEF SetPeriod, tx

\* tx_watchdog (false) only resets the count of repeats.
LEMMA ResetWatchdogCoherent ==
  ASSUME NEW s \in Coherent
  PROVE  ResetWatchdog(s) \in Coherent
BY LimitAssumption DEF ResetWatchdog, Coherent, Linked, State, Repeats

\* setToCq selects Tx 6 and clears the call in progress together.
LEMMA SetToCqCoherent ==
  ASSUME NEW s \in Coherent
  PROVE  SetToCq(s) \in Coherent
<1> DEFINE a == [s EXCEPT !.ntx = 6]
<1>1. s \in State BY DEF Coherent
<1>2. a \in State BY <1>1 DEF State
<1>3. Linked([a EXCEPT !.callInProg = NoCall]) BY DEF Coherent, Linked, State
<1> QED BY <1>2, <1>3, SetCallInProgCoherent DEF SetToCq

\* processMessage selects an answer, never CQ, to the call it puts in progress, and
\* asks for a restart only of a transmission that is under way.
LEMMA ProcessMessageCoherent ==
  ASSUME NEW s \in Coherent, NEW c \in Calls, NEW m \in AnyMessage
  PROVE  ProcessMessage(s, c, m) \in Coherent
<1> DEFINE a == SetPeriod(s, 1 - m.par)
           b == IF s.mode = "listen" /\ Wanted(m) THEN ResetWatchdog(a) ELSE a
<1>1. 1 - m.par \in 0..1 BY DEF AnyMessage, Messages, NoMsg
<1>2. a \in Coherent BY <1>1, SetPeriodCoherent
<1>3. b \in Coherent BY <1>2, ResetWatchdogCoherent
<1>4. PICK k \in 1..6 : k = Answer(m) /\ k # 6 BY DEF Answer
<1>5. c # NoCall BY DEF Calls, NoCall
<1> HIDE DEF b
<1> DEFINE e == [b EXCEPT !.ntx = k, !.hisCall = c]
           d == SetCallInProg(e, c)
<1>6. b \in State /\ Linked(b) BY <1>3 DEF Coherent
<1>7. e \in State BY <1>6, UpdateType
<1>8. Linked([e EXCEPT !.callInProg = c]) BY <1>4, <1>5, <1>6 DEF State, Linked
<1>9. d \in Coherent BY <1>7, <1>8, SetCallInProgCoherent
<1> HIDE DEF d
<1> DEFINE r  == d.restart \/ Transmitting(d)
           tx == IF d.tx = "on" THEN "late" ELSE d.tx
           on == d.auto \/ QuickCall
           f  == [d EXCEPT !.restart = r, !.tx = tx, !.auto = on]
<1>10. d \in State /\ Linked(d) BY <1>9 DEF Coherent
<1>11. d.tx \in TxStates /\ d.restart \in BOOLEAN /\ d.auto \in BOOLEAN
  BY <1>10 DEF State
<1>12. r \in BOOLEAN /\ on \in BOOLEAN BY <1>11, OptionAssumption DEF Transmitting
<1>13. tx \in TxStates /\ (r => tx # "off")
  BY <1>10, <1>11 DEF Transmitting, Linked, TxStates
<1> HIDE DEF r, tx, on
<1>14. f \in State BY <1>10, <1>12, <1>13, UpdateType
<1>15. Linked(f) BY <1>10, <1>13 DEF State, Linked
<1> QED BY <1>4, <1>14, <1>15 DEF ProcessMessage, Coherent, b, d, r, tx, on
-----------------------------------------------------------------------------
(* The newest message of a set of queued calls exists.                      *)

Less == {p \in Nat \X Nat : p[1] < p[2]}

\* A nonempty set of numbers has a least one.
LEMMA LeastNat ==
  ASSUME NEW T \in SUBSET Nat, T # {}
  PROVE  \E x \in T : \A y \in T : x <= y
<1>1. IsWellFoundedOn(Less, Nat)
  BY NatLessThanWellFounded DEF OpToRel, Less
<1>2. PICK x \in T : \A y \in T : ~ (<<y, x>> \in Less)
  BY <1>1, WFMin, Zenon
<1>3. \A y \in T : x <= y
  <2>1. SUFFICES ASSUME NEW y \in T PROVE x <= y OBVIOUS
  <2>2. x \in Nat /\ y \in Nat OBVIOUS
  <2>3. ~(y < x) BY <1>2, <2>2 DEF Less
  <2> QED BY <2>2, <2>3
<1> QED BY <1>3

\* The newest message of a set of calls is that of one of them.
LEMMA NewestInSet ==
  ASSUME NEW s \in State, NEW S \in SUBSET Calls, S # {}
  PROVE  Newest(s, S) \in S
<1> DEFINE age(c) == s.msgMap[c].age
           Ages == {age(c) : c \in S}
           Best(c) == \A d \in S : \/ age(c) < age(d)
                                   \/ age(c) = age(d) /\ c <= d
<1>1. \A c \in S : age(c) \in Nat
  BY LimitAssumption DEF State, AnyMessage, Messages, NoMsg
<1>2. Ages \in SUBSET Nat /\ Ages # {}
  <2>1. \A x \in Ages : x \in Nat BY <1>1
  <2>2. PICK c \in S : TRUE OBVIOUS
  <2>3. age(c) \in Ages BY <2>2
  <2> QED BY <2>1, <2>3
<1>3. PICK a \in Ages : \A y \in Ages : a <= y BY <1>2, LeastNat
<1> DEFINE Firsts == {c \in S : age(c) = a}
<1>4. Firsts \in SUBSET Nat /\ Firsts # {}
  <2>1. \A x \in Calls : x \in Nat BY StationAssumption DEF Calls
  <2>2. \A x \in Firsts : x \in Nat BY <2>1
  <2>3. PICK x \in S : a = age(x) BY <1>3
  <2>4. x \in Firsts BY <2>3
  <2> QED BY <2>2, <2>4
<1>5. PICK c \in Firsts : \A y \in Firsts : c <= y BY <1>4, LeastNat
<1>6. Best(c)
  <2>1. SUFFICES ASSUME NEW d \in S
                 PROVE  age(c) < age(d) \/ (age(c) = age(d) /\ c <= d)
    OBVIOUS
  <2>2. a <= age(d) /\ age(c) = a BY <1>3, <1>5
  <2>3. CASE age(d) = a BY <2>2, <2>3, <1>5
  <2>4. CASE age(d) # a BY <2>2, <2>4, <1>1, <1>2, <1>3
  <2> QED BY <2>3, <2>4
<1>7. c \in S OBVIOUS
<1> HIDE DEF Best
<1>8. (CHOOSE x \in S : Best(x)) \in S BY <1>6, <1>7
<1> QED BY <1>8 DEF Newest, Best

\* The call processNextMessage takes is in the queue.
LEMMA PeekMessageQueued ==
  ASSUME NEW s \in State, Queued(s) # {}
  PROVE  PeekMessage(s) \in Queued(s)
<1> DEFINE toMe   == {c \in Queued(s) : ForUs(s.msgMap[c])}
           dirCqs == {c \in Queued(s) : s.msgMap[c].kind = "dircq"}
           cqs    == {c \in Queued(s) : IsCq(s.msgMap[c])}
<1>1. PICK S \in SUBSET Queued(s) : S # {} /\ PeekMessage(s) = Newest(s, S)
  <2>1. CASE toMe # {} BY <2>1 DEF PeekMessage
  <2>2. CASE toMe = {} /\ dirCqs # {} BY <2>2 DEF PeekMessage
  <2>3. CASE toMe = {} /\ dirCqs = {} /\ cqs # {} BY <2>3 DEF PeekMessage
  <2>4. CASE toMe = {} /\ dirCqs = {} /\ cqs = {} BY <2>4 DEF PeekMessage
  <2> QED BY <2>1, <2>2, <2>3, <2>4
<1>2. S \in SUBSET Calls BY DEF Queued
<1> QED BY <1>1, <1>2, NewestInSet

\* processNextMessage answers a queued call.
LEMMA ProcessNextCoherent ==
  ASSUME NEW s \in Coherent, Queued(s) # {}
  PROVE  ProcessNext(s) \in Coherent
<1>1. s \in State BY DEF Coherent
<1>2. PeekMessage(s) \in Calls BY <1>1, PeekMessageQueued DEF Queued
<1>3. s.msgMap[PeekMessage(s)] \in AnyMessage BY <1>1, <1>2 DEF State
<1> QED BY <1>2, <1>3, ResetWatchdogCoherent, ProcessMessageCoherent DEF ProcessNext
-----------------------------------------------------------------------------
\* Members that Linked does not read may take any value of their type.
LEMMA UpdateCoherent ==
  ASSUME NEW s \in Coherent
  PROVE  /\ \A v \in {"manual", "cq", "listen"} : [s EXCEPT !.mode = v] \in Coherent
         /\ \A v \in BOOLEAN : [s EXCEPT !.auto = v] \in Coherent
         /\ \A v \in 0..1 : [s EXCEPT !.slot = v] \in Coherent
         /\ \A v \in {"due", "early", "sent", "cut", "over"} : [s EXCEPT !.phase = v] \in Coherent
         /\ \A v \in SUBSET Calls : [s EXCEPT !.unheard = v] \in Coherent
         /\ \A v \in Limits \cup {0} : [s EXCEPT !.limit = v] \in Coherent
         /\ \A v \in Limits : [s EXCEPT !.prefTxLimit = v] \in Coherent
         /\ \A v \in Repeats : [s EXCEPT !.dupTxCount = v] \in Coherent
         /\ \A v \in Sent \cup {NoSent} : [s EXCEPT !.msgAtEndTx = v] \in Coherent
         /\ \A v \in [Calls -> AnyMessage] : [s EXCEPT !.msgMap = v] \in Coherent
         /\ \A v \in [Calls -> AnyMessage] : [s EXCEPT !.reportsRecd = v] \in Coherent
         /\ \A v \in SUBSET (Calls \cup {NoCall}) : [s EXCEPT !.loggedCalls = v] \in Coherent
         /\ \A v \in SUBSET (Calls \cup {NoCall}) : [s EXCEPT !.logBook = v] \in Coherent
         /\ \A v \in [Calls -> 0..FailCap] : [s EXCEPT !.failMap = v] \in Coherent
         /\ \A v \in Calls \cup {NoCall, Hidden} : [s EXCEPT !.logDlg = v] \in Coherent
         /\ \A v \in BOOLEAN : [s EXCEPT !.logTimer = v] \in Coherent
<1>1. s \in State BY DEF Coherent
<1>2. \A v : Linked([s EXCEPT !.mode = v]) BY DEF Coherent, Linked, State
<1>3. \A v : Linked([s EXCEPT !.auto = v]) BY DEF Coherent, Linked, State
<1>4. \A v : Linked([s EXCEPT !.slot = v]) BY DEF Coherent, Linked, State
<1>5. \A v : Linked([s EXCEPT !.phase = v]) BY DEF Coherent, Linked, State
<1>6. \A v : Linked([s EXCEPT !.unheard = v]) BY DEF Coherent, Linked, State
<1>7. \A v : Linked([s EXCEPT !.limit = v]) BY DEF Coherent, Linked, State
<1>8. \A v : Linked([s EXCEPT !.prefTxLimit = v]) BY DEF Coherent, Linked, State
<1>9. \A v : Linked([s EXCEPT !.dupTxCount = v]) BY DEF Coherent, Linked, State
<1>10. \A v : Linked([s EXCEPT !.msgAtEndTx = v]) BY DEF Coherent, Linked, State
<1>11. \A v : Linked([s EXCEPT !.msgMap = v]) BY DEF Coherent, Linked, State
<1>12. \A v : Linked([s EXCEPT !.reportsRecd = v]) BY DEF Coherent, Linked, State
<1>13. \A v : Linked([s EXCEPT !.loggedCalls = v]) BY DEF Coherent, Linked, State
<1>14. \A v : Linked([s EXCEPT !.logBook = v]) BY DEF Coherent, Linked, State
<1>15. \A v : Linked([s EXCEPT !.failMap = v]) BY DEF Coherent, Linked, State
<1>16. \A v : Linked([s EXCEPT !.logDlg = v]) BY DEF Coherent, Linked, State
<1>17. \A v : Linked([s EXCEPT !.logTimer = v]) BY DEF Coherent, Linked, State
<1> QED
  <2>1. \A v \in {"manual", "cq", "listen"} : [s EXCEPT !.mode = v] \in Coherent
    BY <1>1, <1>2, UpdateType DEF Coherent
  <2>2. \A v \in BOOLEAN : [s EXCEPT !.auto = v] \in Coherent
    BY <1>1, <1>3, UpdateType DEF Coherent
  <2>3. \A v \in 0..1 : [s EXCEPT !.slot = v] \in Coherent
    BY <1>1, <1>4, UpdateType DEF Coherent
  <2>4. \A v \in {"due", "early", "sent", "cut", "over"} : [s EXCEPT !.phase = v] \in Coherent
    BY <1>1, <1>5, UpdateType DEF Coherent
  <2>5. \A v \in SUBSET Calls : [s EXCEPT !.unheard = v] \in Coherent
    BY <1>1, <1>6, UpdateType DEF Coherent
  <2>6. \A v \in Limits \cup {0} : [s EXCEPT !.limit = v] \in Coherent
    BY <1>1, <1>7, UpdateType DEF Coherent
  <2>7. \A v \in Limits : [s EXCEPT !.prefTxLimit = v] \in Coherent
    BY <1>1, <1>8, UpdateType DEF Coherent
  <2>8. \A v \in Repeats : [s EXCEPT !.dupTxCount = v] \in Coherent
    BY <1>1, <1>9, UpdateType DEF Coherent
  <2>9. \A v \in Sent \cup {NoSent} : [s EXCEPT !.msgAtEndTx = v] \in Coherent
    BY <1>1, <1>10, UpdateType DEF Coherent
  <2>10. \A v \in [Calls -> AnyMessage] : [s EXCEPT !.msgMap = v] \in Coherent
    BY <1>1, <1>11, UpdateType DEF Coherent
  <2>11. \A v \in [Calls -> AnyMessage] : [s EXCEPT !.reportsRecd = v] \in Coherent
    BY <1>1, <1>12, UpdateType DEF Coherent
  <2>12. \A v \in SUBSET (Calls \cup {NoCall}) : [s EXCEPT !.loggedCalls = v] \in Coherent
    BY <1>1, <1>13, UpdateType DEF Coherent
  <2>13. \A v \in SUBSET (Calls \cup {NoCall}) : [s EXCEPT !.logBook = v] \in Coherent
    BY <1>1, <1>14, UpdateType DEF Coherent
  <2>14. \A v \in [Calls -> 0..FailCap] : [s EXCEPT !.failMap = v] \in Coherent
    BY <1>1, <1>15, UpdateType DEF Coherent
  <2>15. \A v \in Calls \cup {NoCall, Hidden} : [s EXCEPT !.logDlg = v] \in Coherent
    BY <1>1, <1>16, UpdateType DEF Coherent
  <2>16. \A v \in BOOLEAN : [s EXCEPT !.logTimer = v] \in Coherent
    BY <1>1, <1>17, UpdateType DEF Coherent
  <2> QED BY <2>1, <2>2, <2>3, <2>4, <2>5, <2>6, <2>7, <2>8, <2>9, <2>10, <2>11, <2>12, <2>13, <2>14, <2>15, <2>16

\* tx_watchdog (true): Tx off, the next queued call, or CQ.
LEMMA TxWatchdogCoherent ==
  ASSUME NEW s \in Coherent
  PROVE  TxWatchdog(s) \in Coherent
<1> DEFINE a == RemoveMessage(s, s.hisCall)
<1>1. a \in Coherent BY RemoveMessageCoherent
<1> HIDE DEF a
<1>2. /\ [s EXCEPT !.auto = FALSE] \in Coherent
      /\ [a EXCEPT !.auto = FALSE] \in Coherent
  BY <1>1, UpdateCoherent
<1>3. Queued(a) # {} => ProcessNext(a) \in Coherent BY <1>1, ProcessNextCoherent
<1>4. SetToCq(a) \in Coherent BY <1>1, SetToCqCoherent
<1> QED BY <1>2, <1>3, <1>4, ResetWatchdogCoherent DEF TxWatchdog, a

\* clearDX clears the call in progress with the call it clears.
LEMMA ClearDXCoherent ==
  ASSUME NEW s \in Coherent
  PROVE  ClearDX(s) \in Coherent
<1> DEFINE a == SetCallInProg(s, NoCall)
           on == a.auto /\ Calling(s)
<1>1. a \in Coherent /\ a.callInProg = NoCall
  BY ClearCallCoherent DEF SetCallInProg, Coherent, State
<1>2. on \in BOOLEAN BY <1>1 DEF Coherent, State, Calling
<1> HIDE DEF a, on
<1> DEFINE b == [a EXCEPT !.auto = on, !.hisCall = NoCall, !.ntx = 6]
<1>3. a \in State BY <1>1 DEF Coherent
<1>4. b \in State
  <2>1. 6 \in 1..6 /\ NoCall \in Calls \cup {NoCall} OBVIOUS
  <2> QED BY <1>2, <1>3, <2>1, UpdateType
<1>5. Linked(b) BY <1>1 DEF Coherent, Linked, State
<1> QED BY <1>4, <1>5 DEF ClearDX, Coherent, a, on

\* Forgetting the reports of some stations keeps those of the others linked.
LEMMA PostLogCoherent ==
  ASSUME NEW s \in Coherent, NEW c \in Calls \cup {NoCall}
  PROVE  PostLog(s, c) \in Coherent
<1> DEFINE a == SetCallInProg(RemoveMessage(s, c), NoCall)
           logged == a.loggedCalls \cup {c}
           sent   == a.reportsSent \ {c}
           recd   == [d \in Calls |-> IF d = c THEN NoMsg ELSE a.reportsRecd[d]]
           times  == [d \in Calls |-> IF d = c THEN MaxAge + 1 ELSE a.repliesSent[d]]
<1>1. a \in Coherent BY RemoveMessageCoherent, ClearCallCoherent
<1> HIDE DEF a
<1>2. a \in State /\ Linked(a) BY <1>1 DEF Coherent
<1>3. logged \in SUBSET (Calls \cup {NoCall}) /\ sent \in SUBSET Calls
  BY <1>2 DEF State
<1>4. recd \in [Calls -> AnyMessage]
  BY <1>2 DEF State, AnyMessage
<1>5. times \in [Calls -> 0..(MaxAge + 1)]
  BY <1>2, LimitAssumption DEF State
<1>6. \A d \in sent : times[d] <= MaxAge
  <2>1. SUFFICES ASSUME NEW d \in sent PROVE times[d] <= MaxAge OBVIOUS
  <2>2. d \in a.reportsSent /\ d # c /\ d \in Calls BY <1>3
  <2>3. a.repliesSent[d] <= MaxAge BY <1>2, <2>2 DEF Linked
  <2> QED BY <2>2, <2>3
<1> HIDE DEF logged, sent, recd, times
<1> DEFINE b == [a EXCEPT !.loggedCalls = logged, !.reportsSent = sent,
                          !.reportsRecd = recd, !.repliesSent = times,
                          !.dupTxCount = 0, !.msgAtEndTx = NoSent]
<1>7. 0 \in Repeats BY LimitAssumption DEF Repeats
<1>8. b \in State BY <1>2, <1>3, <1>4, <1>5, <1>7, UpdateType
<1>9. Linked(b) BY <1>2, <1>6 DEF Linked, State
<1>10. b = PostLog(s, c) BY <1>2 DEF PostLog, a, logged, sent, recd, times, State
<1> QED BY <1>8, <1>9, <1>10 DEF Coherent

\* Whoever is logged, the logging paths keep the state coherent.
LEMMA AcceptQSOCoherent ==
  ASSUME NEW s \in Coherent, NEW c \in Calls \cup {NoCall}
  PROVE  AcceptQSO(s, c) \in Coherent
<1> DEFINE book == s.logBook \cup {s.hisCall}
           a == [s EXCEPT !.logBook = book]
<1>1. book \in SUBSET (Calls \cup {NoCall}) BY DEF Coherent, State
<1> HIDE DEF book
<1>2. a \in Coherent BY <1>1, UpdateCoherent
<1> HIDE DEF a
<1>3. ClearDX(a) \in Coherent BY <1>2, ClearDXCoherent
<1> QED BY <1>2, <1>3, PostLogCoherent DEF AcceptQSO, a, book

\* The log dialog opens, or the contact is logged at once.
LEMMA InitLogQSOCoherent ==
  ASSUME NEW s \in Coherent, NEW c \in Calls \cup {NoCall}
  PROVE  InitLogQSO(s, c) \in Coherent
BY AcceptQSOCoherent, UpdateCoherent DEF InitLogQSO

\* Logging m_hisCall, whatever it is by now.
LEMMA LogHisCallCoherent ==
  ASSUME NEW s \in Coherent
  PROVE  LogHisCall(s) \in Coherent
BY InitLogQSOCoherent DEF LogHisCall, Coherent, State

\* Logging at once or by the timer.
LEMMA SelectLogMethodCoherent ==
  ASSUME NEW s \in Coherent
  PROVE  SelectLogMethod(s) \in Coherent
<1>1. TRUE \in BOOLEAN OBVIOUS
<1>2. [s EXCEPT !.logTimer = TRUE] \in Coherent BY <1>1, UpdateCoherent
<1> QED BY <1>2, LogHisCallCoherent DEF SelectLogMethod

\* The counts of failures stay within the cap.
LEMMA FailCountCoherent ==
  ASSUME NEW s \in Coherent, NEW c
  PROVE  IncrFailCount(s, c) \in Coherent /\ ClearFailCount(s, c) \in Coherent
<1> DEFINE inc == [d \in Calls |-> IF d = c /\ s.failMap[d] < FailCap
                                     THEN s.failMap[d] + 1 ELSE s.failMap[d]]
           clr == [d \in Calls |-> IF d = c THEN 0 ELSE s.failMap[d]]
<1>1. s.failMap \in [Calls -> 0..FailCap] /\ FailCap \in Nat
  BY LimitAssumption DEF Coherent, State, FailCap
<1>2. inc \in [Calls -> 0..FailCap] /\ clr \in [Calls -> 0..FailCap] BY <1>1
<1>3. /\ [s EXCEPT !.failMap = inc] = IncrFailCount(s, c)
      /\ [s EXCEPT !.failMap = clr] = ClearFailCount(s, c)
  BY DEF IncrFailCount, ClearFailCount, Coherent, State
<1> HIDE DEF inc, clr
<1>4. [s EXCEPT !.failMap = inc] \in Coherent BY <1>2, UpdateCoherent
<1>5. [s EXCEPT !.failMap = clr] \in Coherent BY <1>2, UpdateCoherent
<1> QED BY <1>3, <1>4, <1>5

\* Cutting a transmission does not end it: m_restart may stay set.
LEMMA CutCoherent ==
  ASSUME NEW s \in Coherent
  PROVE  [s EXCEPT !.tx = IF @ = "off" THEN @ ELSE "cut"] \in Coherent
<1> DEFINE tx == IF s.tx = "off" THEN s.tx ELSE "cut"
<1>1. s \in State BY DEF Coherent
<1>2. tx \in TxStates /\ (tx = "off" => s.tx = "off") BY <1>1, CutType
<1>3. [s EXCEPT !.tx = tx] \in State BY <1>1, <1>2, UpdateType
<1> HIDE DEF tx
<1>4. Linked([s EXCEPT !.tx = tx]) BY <1>1, <1>2 DEF Coherent, Linked, State
<1> QED BY <1>3, <1>4 DEF Coherent, tx

\* Stop Tx leaves the contact as it is.
LEMMA StopTxButtonCoherent ==
  ASSUME NEW s \in Coherent
  PROVE  StopTxButton(s) \in Coherent
<1> DEFINE a == [s EXCEPT !.mode = "manual"]
           b == [a EXCEPT !.auto = FALSE]
<1>1. "manual" \in {"manual", "cq", "listen"} /\ FALSE \in BOOLEAN OBVIOUS
<1>2. a \in Coherent BY <1>1, UpdateCoherent
<1>3. b \in Coherent BY <1>1, <1>2, UpdateCoherent
<1>4. [b EXCEPT !.tx = IF @ = "off" THEN @ ELSE "cut"] = StopTxButton(s)
  BY DEF StopTxButton, Coherent, State
<1> HIDE DEF a, b
<1> QED BY <1>3, <1>4, CutCoherent

\* A band change forgets every report together with its time.
LEMMA ClearAllCallInfoCoherent ==
  ASSUME NEW s \in Coherent
  PROVE  ClearAllCallInfo(s) \in Coherent
<1> DEFINE a == SetCallInProg(s, NoCall)
           none  == [c \in Calls |-> NoMsg]
           never == [c \in Calls |-> MaxAge + 1]
           zero  == [c \in Calls |-> 0]
           b == [a EXCEPT !.loggedCalls = {}, !.reportsSent = {},
                          !.reportsRecd = none, !.repliesSent = never,
                          !.failMap = zero, !.msgMap = none]
<1>1. a \in Coherent BY ClearCallCoherent
<1> HIDE DEF a
<1>2. a \in State BY <1>1 DEF Coherent
<1>3. none \in [Calls -> AnyMessage] BY DEF AnyMessage
<1>4. never \in [Calls -> 0..(MaxAge + 1)] BY LimitAssumption
<1>5. zero \in [Calls -> 0..FailCap] BY LimitAssumption DEF FailCap
<1>6. b = ClearAllCallInfo(s) BY DEF ClearAllCallInfo, a
<1> HIDE DEF none, never, zero
<1>7. {} \in SUBSET Calls /\ {} \in SUBSET (Calls \cup {NoCall}) OBVIOUS
<1>8. b \in State BY <1>2, <1>3, <1>4, <1>5, <1>7, UpdateType
<1>9. Linked(b) BY <1>1 DEF Coherent, Linked, State
<1> QED BY <1>6, <1>8, <1>9 DEF Coherent
-----------------------------------------------------------------------------
(* A decoded line.                                                          *)

\* A report received is filed under its sender.
LEMMA RecordReportCoherent ==
  ASSUME NEW s \in Coherent, NEW c \in Calls, NEW m \in AnyMessage
  PROVE  RecordReport(s, c, m) \in Coherent
<1> DEFINE recd == [d \in Calls |-> IF d = c THEN m ELSE s.reportsRecd[d]]
<1>1. recd \in [Calls -> AnyMessage] BY DEF Coherent, State
<1>2. [s EXCEPT !.reportsRecd = recd] \in Coherent BY <1>1, UpdateCoherent
<1>3. [s EXCEPT !.reportsRecd = [d \in Calls |-> IF d = c THEN m ELSE @[d]]]
        = [s EXCEPT !.reportsRecd = recd]
  OBVIOUS
<1> HIDE DEF recd
<1> QED BY <1>2, <1>3 DEF RecordReport

\* A 73 logs the current contact or an earlier one.
LEMMA LogDecodeCoherent ==
  ASSUME NEW s \in Coherent, NEW c \in Calls
  PROVE  LogDecode(s, c) \in Coherent
BY InitLogQSOCoherent, SelectLogMethodCoherent DEF LogDecode

\* A decode that is answered, at once or from the queue.
LEMMA RespondCoherent ==
  ASSUME NEW s \in Coherent, NEW c \in Calls, NEW m \in AnyMessage,
         NEW held, NEW inTime
  PROVE  Respond(s, c, m, held, inTime) \in Coherent
<1> DEFINE n == DecodeInSequence(s, c, m)
           q == IF AnyAuto(s) THEN SaveMessage(s, c, n) ELSE s
<1>1. n \in AnyMessage BY DEF DecodeInSequence, Coherent, State
<1> HIDE DEF n
<1>2. q \in Coherent BY <1>1, SaveMessageCoherent
<1> HIDE DEF q
<1>3. ProcessMessage(q, c, n) \in Coherent BY <1>1, <1>2, ProcessMessageCoherent
<1> QED BY <1>2, <1>3 DEF Respond, n, q

\* A decode that ends a contact.
LEMMA EndQsoCoherent ==
  ASSUME NEW s \in Coherent, NEW c \in Calls, NEW m \in AnyMessage, NEW held
  PROVE  EndQso(s, c, m, held) \in Coherent
<1>1. TxWatchdog(s) \in Coherent BY TxWatchdogCoherent
<1>2. ProcessMessage(s, c, m) \in Coherent BY ProcessMessageCoherent
<1>3. [SetToCq(s) EXCEPT !.auto = FALSE] \in Coherent
  <2>1. FALSE \in BOOLEAN OBVIOUS
  <2> QED BY <2>1, SetToCqCoherent, UpdateCoherent
<1> QED BY <1>1, <1>2, <1>3 DEF EndQso

\* A decoded line keeps the state coherent, whatever it says.
LEMMA DecodeCoherent ==
  ASSUME NEW s \in Coherent, NEW c \in Calls, NEW m \in AnyMessage, NEW early
  PROVE  Decode(s, c, m, early) \in Coherent
<1> DEFINE r      == RecordReport(s, c, m)
           logs   == NewlyLogged(r, c, m)
           l      == IF logs THEN LogDecode(r, c) ELSE r
<1>1. r \in Coherent BY RecordReportCoherent
<1> HIDE DEF r
<1>2. l \in Coherent BY <1>1, LogDecodeCoherent
<1> HIDE DEF logs, l
<1>3. SaveMessage(l, c, m) \in Coherent BY <1>2, SaveMessageCoherent
<1>4. \A held : EndQso(l, c, m, held) \in Coherent BY <1>2, EndQsoCoherent
<1>5. \A held, inTime : Respond(l, c, m, held, inTime) \in Coherent
  BY <1>2, RespondCoherent
<1> QED BY <1>2, <1>3, <1>4, <1>5 DEF Decode, r, logs, l
-----------------------------------------------------------------------------
(* The end of a transmission.                                               *)

\* What was sent is recorded with its time; only CQ has no addressee, and CQ is
\* not a report.
LEMMA RecordSentCoherent ==
  ASSUME NEW s \in Coherent
  PROVE  RecordSent(s) \in Coherent
<1> DEFINE c == s.cur.to
           k == s.cur.k
           sent  == IF k \in {2, 3} THEN s.reportsSent \cup {c} ELSE s.reportsSent
           times == [d \in Calls |-> IF d = c /\ k \in 1..3 THEN 0 ELSE s.repliesSent[d]]
<1>1. s \in State /\ Linked(s) BY DEF Coherent
<1>2. k \in {2, 3} => c \in Calls BY <1>1 DEF State, Linked, Sent, NoSent
<1>3. sent \in SUBSET Calls BY <1>1, <1>2 DEF State
<1>4. times \in [Calls -> 0..(MaxAge + 1)] BY <1>1, LimitAssumption DEF State
<1>5. \A d \in sent : times[d] <= MaxAge
  <2>1. SUFFICES ASSUME NEW d \in sent PROVE times[d] <= MaxAge OBVIOUS
  <2>2. d \in Calls BY <1>3
  <2>3. CASE d = c /\ k \in {2, 3} BY <2>2, <2>3, LimitAssumption
  <2>4. CASE ~(d = c /\ k \in {2, 3})
    <3>1. d \in s.reportsSent BY <2>4
    <3>2. s.repliesSent[d] <= MaxAge BY <1>1, <3>1 DEF Linked
    <3> QED BY <2>2, <3>2, LimitAssumption
  <2> QED BY <2>3, <2>4
<1>6. RecordSent(s) = [s EXCEPT !.reportsSent = sent, !.repliesSent = times]
  BY DEF RecordSent
<1> HIDE DEF sent, times
<1>7. [s EXCEPT !.reportsSent = sent, !.repliesSent = times] \in State
  BY <1>1, <1>3, <1>4, UpdateType
<1>8. Linked([s EXCEPT !.reportsSent = sent, !.repliesSent = times])
  BY <1>1, <1>5 DEF Linked, State
<1> QED BY <1>6, <1>7, <1>8 DEF Coherent

\* Our own 73 was sent.
LEMMA SignOffCoherent ==
  ASSUME NEW s \in Coherent
  PROVE  SignOff(s) \in Coherent
<1> DEFINE w == TxWatchdog(IF Loggable(s) THEN SelectLogMethod(s) ELSE s)
<1>1. w \in Coherent BY SelectLogMethodCoherent, TxWatchdogCoherent
<1> HIDE DEF w
<1> QED BY <1>1, SetToCqCoherent DEF SignOff, w

\* The contact timed out.
LEMMA TimeOutCoherent ==
  ASSUME NEW s \in Coherent
  PROVE  TimeOut(s) \in Coherent
<1> DEFINE a == SetCallInProg(s, NoCall)
           b == IF a.limit # 0 THEN IncrFailCount(a, s.hisCall) ELSE a
<1>1. a \in Coherent BY ClearCallCoherent
<1> HIDE DEF a
<1>2. b \in Coherent BY <1>1, FailCountCoherent
<1> HIDE DEF b
<1>3. TxWatchdog(b) \in Coherent BY <1>2, TxWatchdogCoherent
<1>4. NoSent \in Sent \cup {NoSent} OBVIOUS
<1> QED BY <1>3, <1>4, UpdateCoherent DEF TimeOut, a, b

\* Counting one more transmission.
LEMMA CountCoherent ==
  ASSUME NEW s \in Coherent, NEW n \in Repeats, NEW v \in Sent \cup {NoSent}
  PROVE  [s EXCEPT !.dupTxCount = n, !.msgAtEndTx = v] \in Coherent
<1> DEFINE a == [s EXCEPT !.dupTxCount = n]
<1>1. a \in Coherent BY UpdateCoherent
<1>2. [a EXCEPT !.msgAtEndTx = v] \in Coherent BY <1>1, UpdateCoherent
<1> QED BY <1>2

\* The count of repeats stays within its bound because the call times out first.
LEMMA CountRepeatCoherent ==
  ASSUME NEW s \in Coherent
  PROVE  CountRepeat(s) \in Coherent
<1>1. s.dupTxCount \in Repeats /\ s.cur \in Sent \cup {NoSent}
  BY DEF Coherent, State
<1>2. 0 \in Repeats BY LimitAssumption DEF Repeats
<1>3. MaxRepeat(s) \in Nat /\ MaxRepeat(s) <= HoldRepeat
  <2>1. s.limit \in Limits \cup {0} BY DEF Coherent, State
  <2>2. \A x \in Limits : x \in 1..HoldRepeat BY LimitAssumption
  <2>3. HoldRepeat \in Nat BY LimitAssumption
  <2>4. CASE s.limit = 0 BY <2>3, <2>4 DEF MaxRepeat
  <2>5. CASE s.limit \in Limits BY <2>2, <2>3, <2>5 DEF MaxRepeat
  <2> QED BY <2>1, <2>4, <2>5
<1>4. ~(s.dupTxCount + 1 + 1 >= MaxRepeat(s)) => s.dupTxCount + 1 \in Repeats
  BY <1>1, <1>3, LimitAssumption DEF Repeats
<1>5. TimeOut(s) \in Coherent BY TimeOutCoherent
<1>6. [s EXCEPT !.dupTxCount = 0, !.msgAtEndTx = s.cur] \in Coherent
  BY <1>1, <1>2, CountCoherent
<1>7. s.dupTxCount + 1 \in Repeats =>
        [s EXCEPT !.dupTxCount = s.dupTxCount + 1, !.msgAtEndTx = s.cur] \in Coherent
  BY <1>1, CountCoherent
<1> QED BY <1>4, <1>5, <1>6, <1>7 DEF CountRepeat

\* The end of a transmission, provided no restart is pending.
LEMMA StopTxCoherent ==
  ASSUME NEW s \in Coherent, ~s.restart, NEW short
  PROVE  StopTx(s, short) \in Coherent
<1> DEFINE ph == IF s.tx = "cut" /\ short THEN "cut" ELSE "sent"
           a == [s EXCEPT !.tx = "off", !.phase = ph]
           r == RecordSent(a)
           e == IF EarlyLog /\ AnyAuto(r) /\ r.cur.k = 4 /\ Loggable(r)
                  THEN LogHisCall(r) ELSE r
<1>1. s \in State /\ Linked(s) BY DEF Coherent
<1>2. ph \in {"due", "early", "sent", "cut", "over"} /\ "off" \in TxStates
  BY DEF TxStates
<1> HIDE DEF ph
<1>3. a \in State BY <1>1, <1>2, UpdateType
<1>4. Linked(a) BY <1>1 DEF Linked, State
<1>5. a \in Coherent BY <1>3, <1>4 DEF Coherent
<1> HIDE DEF a
<1>6. r \in Coherent BY <1>5, RecordSentCoherent
<1> HIDE DEF r
<1>7. e \in Coherent BY <1>6, LogHisCallCoherent
<1> HIDE DEF e
<1>8. 0 \in Repeats /\ NoSent \in Sent \cup {NoSent} BY LimitAssumption DEF Repeats
<1>9. [r EXCEPT !.dupTxCount = 0, !.msgAtEndTx = NoSent] \in Coherent
  BY <1>6, <1>8, CountCoherent
<1>10. SignOff(r) \in Coherent BY <1>6, SignOffCoherent
<1>11. CountRepeat(e) \in Coherent BY <1>7, CountRepeatCoherent
<1> QED BY <1>6, <1>9, <1>10, <1>11 DEF StopTx, e, r, a, ph
-----------------------------------------------------------------------------
(* The clock and the decoder's start.                                       *)

\* Calling a transmission off within its slot.
LEMMA SettledCoherent ==
  ASSUME NEW s \in Coherent
  PROVE  Settled(s) \in Coherent
<1>1. "early" \in {"due", "early", "sent", "cut", "over"} OBVIOUS
<1> QED BY <1>1, UpdateCoherent DEF Settled

\* Getting older never takes a report that was sent past its expiry.
LEMMA AgeAllCoherent ==
  ASSUME NEW s \in Coherent
  PROVE  AgeAll(s) \in Coherent
<1> DEFINE queue == [c \in Calls |-> Older(s.msgMap[c])]
           recd  == [c \in Calls |-> Older(s.reportsRecd[c])]
           times == [c \in Calls |-> IF s.repliesSent[c] < MaxAge
                                       THEN s.repliesSent[c] + 1 ELSE s.repliesSent[c]]
<1>1. s \in State /\ Linked(s) BY DEF Coherent
<1>2. \A m \in AnyMessage : Older(m) \in AnyMessage
  BY LimitAssumption DEF Older, AnyMessage, Messages
<1>3. queue \in [Calls -> AnyMessage] /\ recd \in [Calls -> AnyMessage]
  BY <1>1, <1>2 DEF State
<1>4. times \in [Calls -> 0..(MaxAge + 1)] BY <1>1, LimitAssumption DEF State
<1>5. \A d \in s.reportsSent : times[d] <= MaxAge
  <2>1. SUFFICES ASSUME NEW d \in s.reportsSent PROVE times[d] <= MaxAge OBVIOUS
  <2>2. d \in Calls /\ s.repliesSent[d] \in 0..(MaxAge + 1) BY <1>1 DEF State
  <2>3. s.repliesSent[d] <= MaxAge BY <1>1 DEF Linked
  <2> QED BY <2>2, <2>3, LimitAssumption
<1>6. AgeAll(s) = [s EXCEPT !.msgMap = queue, !.reportsRecd = recd, !.repliesSent = times]
  BY DEF AgeAll
<1> HIDE DEF queue, recd, times
<1>7. [s EXCEPT !.msgMap = queue, !.reportsRecd = recd, !.repliesSent = times] \in State
  BY <1>1, <1>3, <1>4, UpdateType
<1>8. Linked([s EXCEPT !.msgMap = queue, !.reportsRecd = recd, !.repliesSent = times])
  BY <1>1, <1>5 DEF Linked, State
<1> QED BY <1>6, <1>7, <1>8 DEF Coherent

\* A report that was sent is forgotten together with its time.
LEMMA CheckExpiredCallInfoCoherent ==
  ASSUME NEW s \in Coherent
  PROVE  CheckExpiredCallInfo(s) \in Coherent
<1> DEFINE old   == {c \in Calls : s.repliesSent[c] = MaxAge}
           queue == [c \in Calls |-> IF s.msgMap[c].age >= MaxAge THEN NoMsg ELSE s.msgMap[c]]
           times == [c \in Calls |-> IF c \in old THEN MaxAge + 1 ELSE s.repliesSent[c]]
           recd  == [c \in Calls |-> IF c \in old THEN NoMsg ELSE s.reportsRecd[c]]
           sent  == s.reportsSent \ old
           t == [s EXCEPT !.msgMap = queue, !.repliesSent = times,
                          !.reportsRecd = recd, !.reportsSent = sent]
<1>1. s \in State /\ Linked(s) BY DEF Coherent
<1>2. queue \in [Calls -> AnyMessage] /\ recd \in [Calls -> AnyMessage]
  BY <1>1 DEF State, AnyMessage
<1>3. times \in [Calls -> 0..(MaxAge + 1)] BY <1>1, LimitAssumption DEF State
<1>4. sent \in SUBSET Calls BY <1>1 DEF State
<1>5. \A d \in sent : times[d] <= MaxAge
  <2>1. SUFFICES ASSUME NEW d \in sent PROVE times[d] <= MaxAge OBVIOUS
  <2>2. d \in s.reportsSent /\ d \notin old /\ d \in Calls BY <1>4
  <2>3. s.repliesSent[d] <= MaxAge BY <1>1, <2>2 DEF Linked
  <2> QED BY <2>2, <2>3
<1>6. CheckExpiredCallInfo(s) = t BY DEF CheckExpiredCallInfo
<1> HIDE DEF old, queue, times, recd, sent
<1>7. t \in State BY <1>1, <1>2, <1>3, <1>4, UpdateType
<1>8. Linked(t) BY <1>1, <1>5 DEF Linked, State
<1> QED BY <1>6, <1>7, <1>8 DEF Coherent

\* The decoder's start cleans up and serves the queue of listen mode.
LEMMA DecodeBusyCoherent ==
  ASSUME NEW s \in Coherent, NEW cleanup
  PROVE  DecodeBusy(s, cleanup) \in Coherent
<1> DEFINE a == IF cleanup THEN CheckExpiredCallInfo(s) ELSE s
<1>1. a \in Coherent BY CheckExpiredCallInfoCoherent
<1> HIDE DEF a
<1>2. Queued(a) # {} => ProcessNext(a) \in Coherent BY <1>1, ProcessNextCoherent
<1>3. TxWatchdog(a) \in Coherent BY <1>1, TxWatchdogCoherent
<1> QED BY <1>1, <1>2, <1>3 DEF DecodeBusy, a
-----------------------------------------------------------------------------
(* The inductive invariant: the two invariants of the Operator run need each *)
(* other's company, and the types, to be kept by every step.                 *)

IInv == TypeOK /\ QsoConsistent /\ SentReportsExpire

Counts == [lines : 0..MaxLines, commands : 0..MaxCommands]
Runs   == [sent : Sent \cup {NoSent}, n : 0..HoldRepeat]

\* The invariant is coherence of st, with the types of the bounds.
LEMMA IInvMeaning ==
  IInv <=> st \in Coherent /\ left \in Counts /\ heldOn \in Runs
BY DEF IInv, TypeOK, QsoConsistent, SentReportsExpire, Coherent, Linked,
       Transmitting, Counts, Runs

\* The observer's reset value has its type.
LEMMA NoRunType == NoRun \in Runs
BY LimitAssumption DEF NoRun, Runs

\* The same for the state after a step.
LEMMA IInvNext ==
  ASSUME st' \in Coherent, left' \in Counts, heldOn' \in Runs
  PROVE  IInv'
BY DEF IInv, TypeOK, QsoConsistent, SentReportsExpire, Coherent, Linked,
       Transmitting, Counts, Runs

\* The shape of most actions: a coherent state, the count of repeats kept or
\* started anew, the bounds respected.
LEMMA StepKeepsIInv ==
  ASSUME IInv, NEW s \in Coherent, Step(s), left' \in Counts
  PROVE  IInv'
<1>1. st' \in Coherent BY SettledCoherent DEF Step
<1>2. heldOn' \in Runs BY NoRunType, IInvMeaning DEF Step
<1> QED BY <1>1, <1>2, IInvNext

\* The same for a contact logged by the timer or the dialog.
LEMMA LogsKeepsIInv ==
  ASSUME IInv, NEW s \in Coherent, Logs(s), left' \in Counts
  PROVE  IInv'
<1>1. st' \in Coherent BY SettledCoherent DEF Logs
<1>2. heldOn' \in Runs BY NoRunType DEF Logs
<1> QED BY <1>1, <1>2, IInvNext

\* The same for a command of the operator, which uses one of the bound.
LEMMA CommandKeepsIInv ==
  ASSUME IInv, NEW s \in Coherent, NEW name, Command(name, s)
  PROVE  IInv'
<1>1. st' \in Coherent BY SettledCoherent DEF Command
<1>2. heldOn' \in Runs BY NoRunType DEF Command
<1>3. left' \in Counts
  BY IInvMeaning, BoundAssumption DEF Command, Counts
<1> QED BY <1>1, <1>2, <1>3, IInvNext
-----------------------------------------------------------------------------
(* Every action keeps the invariant.                                        *)

\* MainWindow starts coherent.
LEMMA InitIInv == Init => IInv
<1> SUFFICES ASSUME Init PROVE IInv OBVIOUS
<1>1. PICK n \in Limits :
       st = [mode |-> "manual", auto |-> FALSE, txPar |-> 0, slot |-> 1,
             phase |-> "over", tx |-> "off", cur |-> NoSent, restart |-> FALSE,
             unheard |-> {}, ntx |-> 6, hisCall |-> NoCall, callInProg |-> NoCall,
             limit |-> n, prefTxLimit |-> n, dupTxCount |-> 0, msgAtEndTx |-> NoSent,
             msgMap |-> [c \in Calls |-> NoMsg],
             reportsRecd |-> [c \in Calls |-> NoMsg],
             reportsSent |-> {}, repliesSent |-> [c \in Calls |-> MaxAge + 1],
             loggedCalls |-> {}, logBook |-> {}, failMap |-> [c \in Calls |-> 0],
             logDlg |-> Hidden, logTimer |-> FALSE]
  BY DEF Init
<1>2. [c \in Calls |-> NoMsg] \in [Calls -> AnyMessage] BY DEF AnyMessage
<1>3. [c \in Calls |-> MaxAge + 1] \in [Calls -> 0..(MaxAge + 1)]
  BY LimitAssumption
<1>4. [c \in Calls |-> 0] \in [Calls -> 0..FailCap] BY LimitAssumption DEF FailCap
<1>5. 0 \in Repeats BY LimitAssumption DEF Repeats
<1>6. st \in State BY <1>1, <1>2, <1>3, <1>4, <1>5 DEF State, TxStates
<1>7. Linked(st) BY <1>1 DEF Linked, NoSent
<1>8. left \in Counts BY BoundAssumption DEF Init, Counts
<1>9. heldOn \in Runs BY NoRunType DEF Init
<1> QED BY <1>6, <1>7, <1>8, <1>9, IInvMeaning DEF Coherent

\* guiUpdate starting, restarting or ending a transmission.
LEMMA TransmissionKeepsIInv ==
  ASSUME IInv, left' = left,
         \/ \E late \in BOOLEAN : StartTx(late)
         \/ RestartTx
         \/ \E short \in BOOLEAN : EndTx(short)
  PROVE  IInv'
<1>1. /\ st \in Coherent /\ st \in State /\ Linked(st)
      /\ left' \in Counts /\ heldOn \in Runs
  BY IInvMeaning DEF Coherent
<1> DEFINE cur == CurrentMessage(st)
<1>2. cur \in Sent \cup {NoSent} /\ (cur.k \in 1..5 => cur.to # NoCall)
  BY <1>1 DEF CurrentMessage, State, Linked, Sent
<1> HIDE DEF cur
<1>3. ASSUME NEW late \in BOOLEAN, StartTx(late) PROVE IInv'
  <2> DEFINE tx   == IF late THEN "late" ELSE "on"
             pref == IF st.limit # 0 THEN st.limit ELSE st.prefTxLimit
             s == [st EXCEPT !.tx = tx, !.phase = "sent", !.cur = cur, !.prefTxLimit = pref]
  <2>1. tx \in TxStates /\ tx # "off" BY DEF TxStates
  <2>2. pref \in Limits BY <1>1 DEF State
  <2>3. "sent" \in {"due", "early", "sent", "cut", "over"} OBVIOUS
  <2>4. Step(s) BY <1>3 DEF StartTx, cur
  <2> HIDE DEF tx, pref
  <2>5. s \in State BY <1>1, <1>2, <2>1, <2>2, <2>3, UpdateType
  <2>6. Linked(s) BY <1>1, <1>2, <2>1 DEF Linked, State
  <2> HIDE DEF s
  <2> QED BY <1>1, <2>4, <2>5, <2>6, StepKeepsIInv DEF Coherent
<1>4. ASSUME RestartTx PROVE IInv'
  <2> DEFINE s == [st EXCEPT !.restart = FALSE, !.cur = cur]
  <2>1. Step(s) BY <1>4 DEF RestartTx, cur
  <2>2. FALSE \in BOOLEAN OBVIOUS
  <2>3. s \in State BY <1>1, <1>2, <2>2, UpdateType
  <2>4. Linked(s) BY <1>1, <1>2 DEF Linked, State
  <2> HIDE DEF s
  <2> QED BY <1>1, <2>1, <2>3, <2>4, StepKeepsIInv DEF Coherent
<1>5. ASSUME NEW short \in BOOLEAN, EndTx(short) PROVE IInv'
  <2> DEFINE n == IF heldOn.sent = st.cur THEN heldOn.n + 1 ELSE 1
             m == IF n > HoldRepeat THEN HoldRepeat ELSE n
  <2>1. StopTx(st, short) \in Coherent BY <1>1, <1>5, StopTxCoherent DEF EndTx
  <2>2. st' \in Coherent BY <1>5, <2>1, SettledCoherent DEF EndTx
  <2>3. heldOn.n \in 0..HoldRepeat BY <1>1 DEF Runs
  <2>4. m \in 0..HoldRepeat BY <2>3, LimitAssumption
  <2>5. heldOn' \in {NoRun, heldOn, [sent |-> st.cur, n |-> m]} BY <1>5 DEF EndTx
  <2> HIDE DEF m
  <2>6. [sent |-> st.cur, n |-> m] \in Runs BY <1>1, <2>4 DEF Runs, State
  <2> QED BY <1>1, <2>2, <2>5, <2>6, NoRunType, IInvNext
<1> QED BY <1>3, <1>4, <1>5

\* The clock: transmissions, the end of a slot, the decoder's start.
LEMMA ClockKeepsIInv == ASSUME IInv, Clock PROVE IInv'
<1>1. /\ st \in Coherent /\ st \in State /\ left' = left /\ left' \in Counts
  BY IInvMeaning DEF Coherent, Clock
<1>2. ASSUME SlotLate PROVE IInv'
  <2> DEFINE ph == IF st.phase = "early" THEN "over" ELSE "sent"
  <2>1. ph \in {"due", "early", "sent", "cut", "over"} OBVIOUS
  <2>2. Step([st EXCEPT !.phase = ph]) BY <1>2 DEF SlotLate
  <2> HIDE DEF ph
  <2>3. [st EXCEPT !.phase = ph] \in Coherent BY <1>1, <2>1, UpdateCoherent
  <2> QED BY <1>1, <2>2, <2>3, StepKeepsIInv
<1>3. ASSUME NEW cleanup \in BOOLEAN, SlotEnds(cleanup) PROVE IInv'
  <2> DEFINE heard == IF st.phase = "over" THEN Calls ELSE {}
             a == [st EXCEPT !.slot = 1 - st.slot]
             b == [a EXCEPT !.phase = "due"]
             d == [b EXCEPT !.unheard = heard]
  <2>1. 1 - st.slot \in 0..1 BY <1>1 DEF State
  <2>2. "due" \in {"due", "early", "sent", "cut", "over"} /\ heard \in SUBSET Calls
    OBVIOUS
  <2>3. Step(DecodeBusy(AgeAll(d), cleanup)) \/ Step(AgeAll(d))
    BY <1>3 DEF SlotEnds
  <2> HIDE DEF heard
  <2>4. a \in Coherent BY <1>1, <2>1, UpdateCoherent
  <2> HIDE DEF a
  <2>5. b \in Coherent BY <2>2, <2>4, UpdateCoherent
  <2> HIDE DEF b
  <2>6. d \in Coherent BY <2>2, <2>5, UpdateCoherent
  <2> HIDE DEF d
  <2>7. AgeAll(d) \in Coherent /\ DecodeBusy(AgeAll(d), cleanup) \in Coherent
    BY <2>6, AgeAllCoherent, DecodeBusyCoherent
  <2> QED BY <1>1, <2>3, <2>7, StepKeepsIInv
<1> QED BY <1>1, <1>2, <1>3, TransmissionKeepsIInv DEF Clock

\* A decoded line, or the decoder's end.
LEMMA DecoderKeepsIInv == ASSUME IInv, Decoder PROVE IInv'
<1>1. st \in Coherent /\ st \in State /\ left \in Counts BY IInvMeaning DEF Coherent
<1>2. ASSUME NEW c \in Calls, NEW kind \in Heard, NEW early \in BOOLEAN,
             DecodeLine(c, kind, early)
      PROVE  IInv'
  <2> DEFINE m == [kind |-> kind, par |-> 1 - st.slot, age |-> 0]
             rest == st.unheard \ {c}
             a == [st EXCEPT !.unheard = rest]
  <2>1. 1 - st.slot \in 0..1 /\ rest \in SUBSET Calls BY <1>1 DEF State
  <2>2. kind \in Kinds BY HeardAssumption
  <2>3. m \in AnyMessage
    BY <2>1, <2>2, LimitAssumption DEF AnyMessage, Messages
  <2>4. left' \in Counts BY <1>1, <1>2, BoundAssumption DEF DecodeLine, Counts
  <2>5. Step(Decode(a, c, m, early)) BY <1>2 DEF DecodeLine
  <2> HIDE DEF m, rest
  <2>6. a \in Coherent BY <1>1, <2>1, UpdateCoherent
  <2> HIDE DEF a
  <2>7. Decode(a, c, m, early) \in Coherent BY <2>3, <2>6, DecodeCoherent
  <2> QED BY <2>4, <2>5, <2>7, StepKeepsIInv
<1>3. ASSUME DecodeFinished, left' = left PROVE IInv'
  <2>1. {} \in SUBSET Calls OBVIOUS
  <2>2. [st EXCEPT !.unheard = {}] \in Coherent BY <1>1, <2>1, UpdateCoherent
  <2>3. Step([st EXCEPT !.unheard = {}]) BY <1>3 DEF DecodeFinished
  <2> QED BY <1>1, <1>3, <2>2, <2>3, StepKeepsIInv
<1> QED BY <1>2, <1>3 DEF Decoder

\* The log timer, the log dialog and the idle watchdog.
LEMMA LogKeepsIInv ==
  ASSUME IInv, LogDialog \/ Watchdog
  PROVE  IInv'
<1>1. st \in Coherent /\ st \in State /\ left' \in Counts
  BY IInvMeaning DEF Coherent, LogDialog, Watchdog
<1>2. ASSUME LogTimer PROVE IInv'
  <2>1. FALSE \in BOOLEAN OBVIOUS
  <2>2. [st EXCEPT !.logTimer = FALSE] \in Coherent BY <1>1, <2>1, UpdateCoherent
  <2>3. LogHisCall([st EXCEPT !.logTimer = FALSE]) \in Coherent
    BY <2>2, LogHisCallCoherent
  <2> QED BY <1>1, <1>2, <2>3, LogsKeepsIInv DEF LogTimer
<1>3. [st EXCEPT !.logDlg = Hidden] \in Coherent
  <2>1. Hidden \in Calls \cup {NoCall, Hidden} OBVIOUS
  <2> QED BY <1>1, <2>1, UpdateCoherent
<1>4. ASSUME LogDialogAccept PROVE IInv'
  <2>1. st.logDlg \in Calls \cup {NoCall} BY <1>1, <1>4 DEF LogDialogAccept, State
  <2>2. AcceptQSO([st EXCEPT !.logDlg = Hidden], st.logDlg) \in Coherent
    BY <1>3, <2>1, AcceptQSOCoherent
  <2> QED BY <1>1, <1>4, <2>2, LogsKeepsIInv DEF LogDialogAccept
<1>5. ASSUME LogDialogReject PROVE IInv'
  BY <1>1, <1>3, <1>5, StepKeepsIInv DEF LogDialogReject
<1>6. ASSUME RunawayWatchdog PROVE IInv'
  <2> DEFINE s == TxWatchdog(st)
             t == [s EXCEPT !.tx = IF @ = "off" THEN @ ELSE "cut"]
  <2>1. s \in Coherent BY <1>1, TxWatchdogCoherent
  <2>2. Step(t) BY <1>6 DEF RunawayWatchdog
  <2> HIDE DEF s
  <2>3. t \in Coherent BY <2>1, CutCoherent
  <2> QED BY <1>1, <2>2, <2>3, StepKeepsIInv
<1> QED BY <1>2, <1>4, <1>5, <1>6 DEF LogDialog, Watchdog

\* CQ, Listen, Enable Tx, Stop Tx and Escape.
LEMMA ButtonsKeepIInv ==
  ASSUME IInv, CqButton \/ ListenButton \/ AutoButton \/ StopTxButtonClicked \/ Escape
  PROVE  IInv'
<1>1. st \in Coherent /\ st \in State BY IInvMeaning DEF Coherent
<1>2. /\ TRUE \in BOOLEAN /\ FALSE \in BOOLEAN
      /\ "manual" \in {"manual", "cq", "listen"}
      /\ "cq" \in {"manual", "cq", "listen"}
      /\ "listen" \in {"manual", "cq", "listen"}
  OBVIOUS
<1>3. \A mode \in {"manual", "cq", "listen"} : \A on \in BOOLEAN :
        [st EXCEPT !.mode = mode, !.auto = on] \in Coherent
  <2>1. SUFFICES ASSUME NEW mode \in {"manual", "cq", "listen"}, NEW on \in BOOLEAN
                 PROVE  [st EXCEPT !.mode = mode, !.auto = on] \in Coherent
    OBVIOUS
  <2> DEFINE a == [st EXCEPT !.mode = mode]
  <2>2. a \in Coherent BY <1>1, UpdateCoherent
  <2>3. [a EXCEPT !.auto = on] \in Coherent BY <2>2, UpdateCoherent
  <2> QED BY <2>3
<1>4. \A mode \in {"manual", "cq", "listen"} : [st EXCEPT !.mode = mode] \in Coherent
  BY <1>1, UpdateCoherent
<1>5. ASSUME CqButton PROVE IInv'
  <2> DEFINE on == [st EXCEPT !.mode = "cq", !.auto = TRUE]
             off == [st EXCEPT !.mode = "manual", !.auto = FALSE]
             s  == IF st.mode = "cq" THEN off
                   ELSE IF st.callInProg = NoCall THEN TxWatchdog(on) ELSE on
  <2>1. on \in Coherent /\ off \in Coherent BY <1>2, <1>3
  <2>2. Command("cq", ResetWatchdog(s)) BY <1>5 DEF CqButton
  <2> HIDE DEF on, off
  <2>3. s \in Coherent BY <2>1, TxWatchdogCoherent
  <2> HIDE DEF s
  <2> QED BY <2>2, <2>3, ResetWatchdogCoherent, CommandKeepsIInv
<1>6. ASSUME ListenButton PROVE IInv'
  <2> DEFINE on  == [st EXCEPT !.mode = "listen"]
             run == [on EXCEPT !.auto = TRUE]
             off == [st EXCEPT !.mode = "manual", !.auto = FALSE]
             s  == IF st.mode = "listen" THEN off
                   ELSE IF st.callInProg = NoCall THEN TxWatchdog(on) ELSE run
  <2>1. on \in Coherent /\ off \in Coherent BY <1>2, <1>3, <1>4
  <2>2. run \in Coherent BY <1>2, <2>1, UpdateCoherent
  <2>3. Command("listen", ResetWatchdog(s)) BY <1>6 DEF ListenButton
  <2> HIDE DEF on, run, off
  <2>4. s \in Coherent BY <2>1, <2>2, TxWatchdogCoherent
  <2> HIDE DEF s
  <2> QED BY <2>3, <2>4, ResetWatchdogCoherent, CommandKeepsIInv
<1>7. ASSUME AutoButton PROVE IInv'
  <2> DEFINE on == ~st.auto
  <2>1. on \in BOOLEAN OBVIOUS
  <2>2. Command("auto", [st EXCEPT !.auto = on]) BY <1>7 DEF AutoButton
  <2> HIDE DEF on
  <2>3. [st EXCEPT !.auto = on] \in Coherent BY <1>1, <2>1, UpdateCoherent
  <2> QED BY <2>2, <2>3, CommandKeepsIInv
<1>8. ASSUME StopTxButtonClicked PROVE IInv'
  BY <1>1, <1>8, StopTxButtonCoherent, CommandKeepsIInv DEF StopTxButtonClicked
<1>9. ASSUME Escape PROVE IInv'
  <2> DEFINE none == [c \in Calls |-> NoMsg]
             a == [st EXCEPT !.msgMap = none]
             b == StopTxButton(a)
             d == ClearDX(b)
  <2>1. none \in [Calls -> AnyMessage] BY DEF AnyMessage
  <2>2. Command("escape", [d EXCEPT !.auto = FALSE]) BY <1>9 DEF Escape
  <2> HIDE DEF none
  <2>3. a \in Coherent BY <1>1, <2>1, UpdateCoherent
  <2> HIDE DEF a
  <2>4. b \in Coherent BY <2>3, StopTxButtonCoherent
  <2> HIDE DEF b
  <2>5. d \in Coherent BY <2>4, ClearDXCoherent
  <2> HIDE DEF d
  <2>6. [d EXCEPT !.auto = FALSE] \in Coherent BY <1>2, <2>5, UpdateCoherent
  <2> QED BY <2>2, <2>6, CommandKeepsIInv
<1> QED BY <1>5, <1>6, <1>7, <1>8, <1>9

\* A decode still on the screen is a message like any other.
LEMMA ShownType ==
  ASSUME NEW s \in State, s = st, NEW kind \in Kinds, NEW back \in 0..1
  PROVE  Shown(kind, back) \in AnyMessage /\ Stripped(kind) \in Kinds
<1>1. st.slot \in 0..1 BY DEF State
<1>2. (1 + st.slot + back) % 2 \in 0..1 BY <1>1
<1>3. (IF back <= MaxAge THEN back ELSE MaxAge) \in 0..MaxAge BY LimitAssumption
<1>4. Shown(kind, back) \in AnyMessage
  BY <1>2, <1>3 DEF Shown, AnyMessage, Messages
<1>5. Stripped(kind) \in Kinds BY DEF Stripped, Kinds
<1> QED BY <1>4, <1>5

\* A double click answers a decode, with Ctrl it queues it.
LEMMA ClicksKeepIInv ==
  ASSUME IInv, NEW c \in Calls, NEW kind \in Heard, NEW back \in 0..1,
         DoubleClickOnCall(c, kind, back) \/ CtrlDoubleClickOnCall(c, kind, back)
  PROVE  IInv'
<1>1. st \in Coherent /\ st \in State BY IInvMeaning DEF Coherent
<1>2. kind \in Kinds BY HeardAssumption
<1>3. Stripped(kind) \in Kinds BY <1>1, <1>2, ShownType
<1>4. ASSUME DoubleClickOnCall(c, kind, back) PROVE IInv'
  <2> DEFINE m == Shown(kind, back)
             a == IF st.msgMap[c] = NoMsg THEN st
                  ELSE ClearFailCount(RemoveMessage(st, c), c)
  <2>1. m \in AnyMessage BY <1>1, <1>2, ShownType
  <2>2. Command("dblclick", ProcessMessage(ResetWatchdog(a), c, m))
    BY <1>4 DEF DoubleClickOnCall
  <2> HIDE DEF m
  <2>3. a \in Coherent BY <1>1, RemoveMessageCoherent, FailCountCoherent
  <2> HIDE DEF a
  <2>4. ProcessMessage(ResetWatchdog(a), c, m) \in Coherent
    BY <2>1, <2>3, ResetWatchdogCoherent, ProcessMessageCoherent
  <2> QED BY <2>2, <2>4, CommandKeepsIInv
<1>5. ASSUME CtrlDoubleClickOnCall(c, kind, back) PROVE IInv'
  <2> DEFINE m == Shown(Stripped(kind), back)
             a == SetPeriod(st, 1 - m.par)
             s == IF c = a.hisCall /\ a.auto THEN a ELSE SaveMessage(a, c, m)
  <2>1. m \in AnyMessage BY <1>1, <1>3, ShownType
  <2>2. Command("ctrlclick", s) BY <1>5 DEF CtrlDoubleClickOnCall
  <2> HIDE DEF m
  <2>3. 1 - m.par \in 0..1 BY <2>1 DEF AnyMessage, Messages, NoMsg
  <2>4. a \in Coherent BY <1>1, <2>3, SetPeriodCoherent
  <2> HIDE DEF a
  <2>5. s \in Coherent BY <2>1, <2>4, SaveMessageCoherent
  <2> HIDE DEF s
  <2> QED BY <2>2, <2>5, CommandKeepsIInv
<1> QED BY <1>4, <1>5

\* The repeat limit, the period, the band and the log button.
LEMMA SettingsKeepIInv ==
  ASSUME IInv,
         \/ \E n \in Limits \cup {0} : TxRepeatChanged(n)
         \/ TxFirstChanged \/ BandChanged \/ LogQSOButton
  PROVE  IInv'
<1>1. st \in Coherent /\ st \in State BY IInvMeaning DEF Coherent
<1>2. ASSUME NEW n \in Limits \cup {0}, TxRepeatChanged(n) PROVE IInv'
  <2> DEFINE a == [st EXCEPT !.limit = n]
             s == IF n = 0 THEN ClearFailCount(a, a.callInProg) ELSE a
  <2>1. Command("limit", s)
    BY <1>1, <1>2 DEF TxRepeatChanged, State
  <2>2. a \in Coherent BY <1>1, UpdateCoherent
  <2> HIDE DEF a
  <2>3. s \in Coherent BY <2>2, FailCountCoherent
  <2> HIDE DEF s
  <2> QED BY <2>1, <2>3, CommandKeepsIInv
<1>3. ASSUME TxFirstChanged PROVE IInv'
  <2>1. 1 - st.txPar \in 0..1 BY <1>1 DEF State
  <2>2. SetPeriod(st, 1 - st.txPar) \in Coherent BY <1>1, <2>1, SetPeriodCoherent
  <2> QED BY <1>3, <2>2, CommandKeepsIInv DEF TxFirstChanged
<1>4. ASSUME BandChanged PROVE IInv'
  <2> DEFINE a == ClearAllCallInfo(StopTxButton(st))
  <2>1. a \in Coherent BY <1>1, StopTxButtonCoherent, ClearAllCallInfoCoherent
  <2>2. Command("band", [a EXCEPT !.logBook = {}]) BY <1>4 DEF BandChanged
  <2>3. {} \in SUBSET (Calls \cup {NoCall}) OBVIOUS
  <2> HIDE DEF a
  <2>4. [a EXCEPT !.logBook = {}] \in Coherent BY <2>1, <2>3, UpdateCoherent
  <2> QED BY <2>2, <2>4, CommandKeepsIInv
<1>5. ASSUME LogQSOButton PROVE IInv'
  BY <1>1, <1>5, LogHisCallCoherent, CommandKeepsIInv DEF LogQSOButton
<1> QED BY <1>2, <1>3, <1>4, <1>5

\* Every step of the program, and every stutter, keeps the invariant.
LEMMA NextKeepsIInv == IInv /\ [Next]_vars => IInv'
<1> SUFFICES ASSUME IInv, [Next]_vars PROVE IInv' OBVIOUS
<1>1. CASE Clock BY <1>1, ClockKeepsIInv
<1>2. CASE Decoder BY <1>2, DecoderKeepsIInv
<1>3. CASE Person
  BY <1>3, ButtonsKeepIInv, ClicksKeepIInv, SettingsKeepIInv DEF Person
<1>4. CASE LogDialog \/ Watchdog BY <1>4, LogKeepsIInv
<1>5. CASE UNCHANGED vars
  BY <1>5, IInvMeaning, IInvNext DEF vars
<1> QED BY <1>1, <1>2, <1>3, <1>4, <1>5 DEF Next

\* In every behaviour of the sequencer, for any number of stations and any
\* settings, the inductive invariant holds in every state.
THEOREM Invariance == Spec => []IInv
BY InitIInv, NextKeepsIInv, PTL DEF Spec

\* Every member of MainWindow the model has keeps its type: the count of repeats
\* stays below its limit, no unknown call gets into the queue or the log.
THEOREM TypeCorrect == Spec => []TypeOK
<1>1. IInv => TypeOK BY DEF IInv
<1> QED BY <1>1, Invariance, PTL

\* m_hisCall, m_callInProg, m_ntx and the message being sent never disagree, after
\* any interleaving of timers, decodes, log dialog and commands.
THEOREM QsoStaysConsistent == Spec => []QsoConsistent
<1>1. IInv => QsoConsistent BY DEF IInv
<1> QED BY <1>1, Invariance, PTL

\* No report is ever on file as sent without a time by which it expires.
THEOREM NoReportWithoutTime == Spec => []SentReportsExpire
<1>1. IInv => SentReportsExpire BY DEF IInv
<1> QED BY <1>1, Invariance, PTL
-----------------------------------------------------------------------------
(* Stopped states: what the program does by itself never enables Tx.        *)

\* The coherent states in which Tx is stopped: manual mode, Enable Tx off.
Stopped == {s \in Coherent : s.mode = "manual" /\ ~s.auto}

\* In a stopped state no member function that stopTx, the decoder or the log
\* dialog may call leaves it: none of them touches the mode, and Tx is only
\* disabled.
LEMMA MembersKeepStopped ==
  ASSUME NEW s \in Stopped
  PROVE  /\ SetCallInProg(s, NoCall) \in Stopped
         /\ \A c : RemoveMessage(s, c) \in Stopped
         /\ ResetWatchdog(s) \in Stopped
         /\ SetToCq(s) \in Stopped
         /\ TxWatchdog(s) \in Stopped
         /\ ClearDX(s) \in Stopped
<1>1. s \in Coherent /\ s \in State /\ s.mode = "manual" /\ s.auto = FALSE
  BY DEF Stopped, Coherent, State
<1>2. SetCallInProg(s, NoCall) \in Stopped
  BY <1>1, ClearCallCoherent DEF SetCallInProg, Stopped, State
<1>3. ASSUME NEW c PROVE RemoveMessage(s, c) \in Stopped
  <2>1. RemoveMessage(s, c) \in Coherent BY <1>1, RemoveMessageCoherent
  <2> QED BY <1>1, <2>1 DEF RemoveMessage, Stopped, State
<1>4. ResetWatchdog(s) \in Stopped
  BY <1>1, ResetWatchdogCoherent DEF ResetWatchdog, Stopped, State
<1>5. SetToCq(s) \in Stopped
  BY <1>1, SetToCqCoherent DEF SetToCq, SetCallInProg, Stopped, State
<1>6. TxWatchdog(s) \in Stopped
  <2>1. TxWatchdog(s) = ResetWatchdog([s EXCEPT !.auto = FALSE])
    BY <1>1 DEF TxWatchdog
  <2>2. TxWatchdog(s) \in Coherent BY <1>1, TxWatchdogCoherent
  <2> QED BY <1>1, <2>1, <2>2 DEF ResetWatchdog, Stopped, State
<1>7. ClearDX(s) \in Stopped
  BY <1>1, ClearDXCoherent DEF ClearDX, SetCallInProg, Calling, Stopped, State
<1> QED BY <1>2, <1>3, <1>4, <1>5, <1>6, <1>7

\* Logging a contact, at once, by the timer or through the dialog.
LEMMA LoggingKeepsStopped ==
  ASSUME NEW s \in Stopped, NEW c \in Calls \cup {NoCall}
  PROVE  /\ PostLog(s, c) \in Stopped
         /\ AcceptQSO(s, c) \in Stopped
         /\ InitLogQSO(s, c) \in Stopped
         /\ LogHisCall(s) \in Stopped
         /\ SelectLogMethod(s) \in Stopped
<1>1. s \in Coherent /\ s \in State BY DEF Stopped, Coherent
<1>2. ASSUME NEW a \in Stopped, NEW d \in Calls \cup {NoCall}
      PROVE  PostLog(a, d) \in Stopped
  <2>1. SetCallInProg(RemoveMessage(a, d), NoCall) \in Stopped
    BY MembersKeepStopped
  <2>2. PostLog(a, d) \in Coherent BY PostLogCoherent DEF Stopped
  <2> QED BY <2>1, <2>2 DEF PostLog, Stopped, Coherent, State
<1>3. ASSUME NEW d \in Calls \cup {NoCall} PROVE AcceptQSO(s, d) \in Stopped
  <2> DEFINE a == [s EXCEPT !.logBook = @ \cup {s.hisCall}]
  <2>1. s.logBook \cup {s.hisCall} \in SUBSET (Calls \cup {NoCall})
    BY <1>1 DEF State
  <2>2. a \in Coherent BY <1>1, <2>1, UpdateCoherent
  <2>3. a \in Stopped BY <1>1, <2>2 DEF Stopped, State
  <2> HIDE DEF a
  <2>4. (IF ClearDXOption THEN ClearDX(a) ELSE a) \in Stopped
    BY <2>3, MembersKeepStopped
  <2> QED BY <1>2, <2>4 DEF AcceptQSO, a
<1>4. ASSUME NEW d \in Calls \cup {NoCall} PROVE InitLogQSO(s, d) \in Stopped
  <2>1. InitLogQSO(s, d) \in Coherent BY <1>1, InitLogQSOCoherent
  <2>2. [s EXCEPT !.logDlg = d].mode = s.mode /\ [s EXCEPT !.logDlg = d].auto = s.auto
    BY <1>1 DEF State
  <2> QED BY <1>3, <2>1, <2>2 DEF InitLogQSO, Stopped
<1>5. LogHisCall(s) \in Stopped BY <1>1, <1>4 DEF LogHisCall, State
<1>6. SelectLogMethod(s) \in Stopped
  <2>1. SelectLogMethod(s) \in Coherent BY <1>1, SelectLogMethodCoherent
  <2>2. [s EXCEPT !.logTimer = TRUE].mode = s.mode /\ [s EXCEPT !.logTimer = TRUE].auto = s.auto
    BY <1>1 DEF State
  <2> QED BY <1>5, <2>1, <2>2 DEF SelectLogMethod, Stopped
<1> QED BY <1>2, <1>3, <1>4, <1>5, <1>6

\* A decoded line is not answered: in manual mode with Tx disabled only a 73
\* to us gets anywhere, and a 73 ends the contact.
LEMMA DecodeKeepsStopped ==
  ASSUME NEW s \in Stopped, NEW c \in Calls, NEW m \in AnyMessage, NEW early
  PROVE  Decode(s, c, m, early) \in Stopped
<1> DEFINE r == RecordReport(s, c, m)
           l == IF NewlyLogged(r, c, m) THEN LogDecode(r, c) ELSE r
<1>1. s \in Coherent /\ s \in State BY DEF Stopped, Coherent
<1>2. r \in Stopped
  <2>1. r \in Coherent BY <1>1, RecordReportCoherent
  <2>2. r.mode = s.mode /\ r.auto = s.auto BY <1>1 DEF RecordReport, State
  <2> QED BY <2>1, <2>2 DEF Stopped
<1>3. Responds(r, m, Interrupts(r, m)) => ~Continues(m)
  BY <1>2 DEF Responds, Continues, AnyAuto, Stopped
<1>4. l \in Stopped BY <1>2, LoggingKeepsStopped DEF LogDecode
<1>5. ASSUME NEW held PROVE EndQso(l, c, m, held) \in Stopped
  <2>1. ~AnyAuto(l) BY <1>4 DEF AnyAuto, Stopped
  <2>2. EndQso(l, c, m, held) \in Coherent
    BY <1>4, EndQsoCoherent DEF Stopped
  <2>3. SetToCq(l) \in Stopped /\ SetToCq(l) \in State
    BY <1>4, MembersKeepStopped DEF Stopped, Coherent
  <2> HIDE DEF l
  <2>4. [SetToCq(l) EXCEPT !.auto = FALSE].mode = SetToCq(l).mode
        /\ [SetToCq(l) EXCEPT !.auto = FALSE].auto = FALSE
    BY <2>3 DEF State
  <2> QED BY <1>4, <2>1, <2>2, <2>3, <2>4 DEF EndQso, Stopped
<1> HIDE DEF r
<1>6. Decode(s, c, m, early) \in {l, EndQso(l, c, m, Held(s, c, m))}
  BY <1>3 DEF Decode, r
<1> QED BY <1>4, <1>5, <1>6

\* The end of a transmission, cut short by the stop or not.
LEMMA StopTxKeepsStopped ==
  ASSUME NEW s \in Stopped, ~s.restart, NEW short
  PROVE  StopTx(s, short) \in Stopped
<1> DEFINE ph == IF s.tx = "cut" /\ short THEN "cut" ELSE "sent"
           a  == [s EXCEPT !.tx = "off", !.phase = ph]
           r  == RecordSent(a)
<1>1. s \in Coherent /\ s \in State /\ s.mode = "manual" /\ ~s.auto
  BY DEF Stopped, Coherent
<1>2. ph \in {"due", "early", "sent", "cut", "over"} /\ "off" \in TxStates
  BY DEF TxStates
<1> HIDE DEF ph
<1>3. a \in Coherent /\ a.mode = "manual" /\ ~a.auto
  <2>1. a \in State BY <1>1, <1>2, UpdateType
  <2> QED BY <1>1, <2>1 DEF Coherent, Linked, State
<1>4. r \in Stopped
  <2>1. r \in Coherent BY <1>3, RecordSentCoherent
  <2>2. a \in State BY <1>3 DEF Coherent
  <2> HIDE DEF a
  <2> QED BY <1>3, <2>1, <2>2 DEF RecordSent, Stopped, State
<1> HIDE DEF a, r
<1>5. StopTx(s, short) \in Coherent BY <1>1, StopTxCoherent
<1>6. ~AnyAuto(r) /\ r \in State BY <1>4 DEF AnyAuto, Stopped, Coherent
<1>7. SignOff(r) \in Stopped
  <2> DEFINE w == TxWatchdog(IF Loggable(r) THEN SelectLogMethod(r) ELSE r)
  <2>1. w \in Stopped BY <1>4, LoggingKeepsStopped, MembersKeepStopped
  <2> HIDE DEF w
  <2> QED BY <2>1, MembersKeepStopped DEF SignOff, w
<1>8. [r EXCEPT !.dupTxCount = 0, !.msgAtEndTx = NoSent].mode = r.mode
      /\ [r EXCEPT !.dupTxCount = 0, !.msgAtEndTx = NoSent].auto = r.auto
  BY <1>6 DEF State
<1>9. CountRepeat(r).mode = "manual" /\ ~CountRepeat(r).auto
  <2> DEFINE b == SetCallInProg(r, NoCall)
             d == IF b.limit # 0 THEN IncrFailCount(b, r.hisCall) ELSE b
  <2>1. b \in Stopped BY <1>4, MembersKeepStopped
  <2> HIDE DEF b
  <2>2. d \in Stopped
    <3>1. b \in Coherent /\ b \in State BY <2>1 DEF Stopped, Coherent
    <3>2. IncrFailCount(b, r.hisCall) \in Coherent BY <3>1, FailCountCoherent
    <3>3. IncrFailCount(b, r.hisCall).mode = b.mode
          /\ IncrFailCount(b, r.hisCall).auto = b.auto
      BY <3>1 DEF IncrFailCount, State
    <3> QED BY <2>1, <3>2, <3>3 DEF Stopped
  <2> HIDE DEF d
  <2>3. TxWatchdog(d) \in Stopped BY <2>2, MembersKeepStopped
  <2>4. TimeOut(r) = [TxWatchdog(d) EXCEPT !.msgAtEndTx = NoSent]
    BY DEF TimeOut, b, d
  <2>5. TimeOut(r).mode = "manual" /\ ~TimeOut(r).auto
    BY <2>3, <2>4 DEF Stopped, Coherent, State
  <2>6. r.mode = "manual" /\ ~r.auto BY <1>4 DEF Stopped
  <2>7. \A n, v : [r EXCEPT !.dupTxCount = n, !.msgAtEndTx = v].mode = r.mode
                  /\ [r EXCEPT !.dupTxCount = n, !.msgAtEndTx = v].auto = r.auto
    BY <1>6 DEF State
  <2> QED BY <2>5, <2>6, <2>7 DEF CountRepeat
<1>10. StopTx(s, short) \in
         {r, SignOff(r), [r EXCEPT !.dupTxCount = 0, !.msgAtEndTx = NoSent], CountRepeat(r)}
  BY <1>6 DEF StopTx, r, a, ph
<1> QED BY <1>4, <1>5, <1>7, <1>8, <1>9, <1>10 DEF Stopped

\* A slot that ends, decoded or not.
LEMMA SlotKeepsStopped ==
  ASSUME NEW s \in Stopped, NEW cleanup
  PROVE  DecodeBusy(s, cleanup) \in Stopped
<1>1. s \in Coherent /\ s \in State BY DEF Stopped, Coherent
<1>2. CheckExpiredCallInfo(s) \in Stopped
  <2>1. CheckExpiredCallInfo(s) \in Coherent BY <1>1, CheckExpiredCallInfoCoherent
  <2>2. CheckExpiredCallInfo(s).mode = s.mode /\ CheckExpiredCallInfo(s).auto = s.auto
    BY <1>1 DEF CheckExpiredCallInfo, State
  <2> QED BY <2>1, <2>2 DEF Stopped
<1> QED BY <1>2 DEF DecodeBusy, Stopped

\* Members that nobody reads here may change without leaving a stopped state.
LEMMA SettledKeepsStopped ==
  ASSUME NEW s \in Stopped
  PROVE  ~Settled(s).auto
<1>1. s \in State BY DEF Stopped, Coherent
<1> QED BY <1>1 DEF Settled, Stopped, State

\* What a stopped sequencer does by itself leaves Tx disabled.
LEMMA ProgramKeepsStopped ==
  ASSUME IInv, st \in Stopped, Clock \/ Watchdog \/ Decoder \/ LogDialog
  PROVE  ~st'.auto
<1>1. st \in Coherent /\ st \in State /\ st.mode = "manual" /\ st.auto = FALSE
  BY DEF Stopped, Coherent, State
<1>2. ASSUME NEW s \in Stopped, Step(s) \/ Logs(s) PROVE ~st'.auto
  BY <1>2, SettledKeepsStopped DEF Step, Logs
<1>3. ASSUME NEW late \in BOOLEAN, StartTx(late) PROVE FALSE
  BY <1>1, <1>3 DEF StartTx, TxDue
<1>4. ASSUME RestartTx PROVE ~st'.auto
  <2> DEFINE s == [st EXCEPT !.restart = FALSE, !.cur = CurrentMessage(st)]
  <2>1. s.auto = FALSE /\ [s EXCEPT !.phase = "early"].auto = FALSE
    BY <1>1 DEF State
  <2> QED BY <1>4, <2>1 DEF RestartTx, Step, Settled
<1>5. ASSUME NEW short \in BOOLEAN, EndTx(short) PROVE ~st'.auto
  <2>1. StopTx(st, short) \in Stopped BY <1>5, StopTxKeepsStopped DEF EndTx
  <2> QED BY <1>5, <2>1, SettledKeepsStopped DEF EndTx
<1>6. ASSUME SlotLate PROVE ~st'.auto
  <2> DEFINE s == [st EXCEPT !.phase = IF @ = "early" THEN "over" ELSE "sent"]
  <2>1. s.auto = FALSE /\ [s EXCEPT !.phase = "early"].auto = FALSE
    BY <1>1 DEF State
  <2> QED BY <1>6, <2>1 DEF SlotLate, Step, Settled
<1>7. ASSUME NEW cleanup \in BOOLEAN, SlotEnds(cleanup) PROVE ~st'.auto
  <2> DEFINE heard == IF st.phase = "over" THEN Calls ELSE {}
             a == [st EXCEPT !.slot = 1 - st.slot]
             b == [a EXCEPT !.phase = "due"]
             d == [b EXCEPT !.unheard = heard]
  <2>1. 1 - st.slot \in 0..1 BY <1>1 DEF State
  <2>2. "due" \in {"due", "early", "sent", "cut", "over"} /\ heard \in SUBSET Calls
    OBVIOUS
  <2>3. Step(DecodeBusy(AgeAll(d), cleanup)) \/ Step(AgeAll(d))
    BY <1>7 DEF SlotEnds
  <2>4. d.mode = "manual" /\ ~d.auto BY <1>1 DEF State
  <2> HIDE DEF heard
  <2>5. a \in Coherent BY <1>1, <2>1, UpdateCoherent
  <2> HIDE DEF a
  <2>6. b \in Coherent BY <2>2, <2>5, UpdateCoherent
  <2> HIDE DEF b
  <2>7. d \in Coherent /\ d \in State BY <2>2, <2>6, UpdateCoherent DEF Coherent
  <2> HIDE DEF d
  <2>8. AgeAll(d) \in Coherent BY <2>7, AgeAllCoherent
  <2>9. AgeAll(d) \in Stopped BY <2>4, <2>7, <2>8 DEF AgeAll, Stopped, State
  <2> QED BY <1>2, <2>3, <2>9, SlotKeepsStopped
<1>8. ASSUME NEW c \in Calls, NEW kind \in Heard, NEW early \in BOOLEAN,
             DecodeLine(c, kind, early)
      PROVE  ~st'.auto
  <2> DEFINE m == [kind |-> kind, par |-> 1 - st.slot, age |-> 0]
             rest == st.unheard \ {c}
             a == [st EXCEPT !.unheard = rest]
  <2>1. 1 - st.slot \in 0..1 /\ rest \in SUBSET Calls BY <1>1 DEF State
  <2>2. kind \in Kinds BY HeardAssumption
  <2>3. m \in AnyMessage
    BY <2>1, <2>2, LimitAssumption DEF AnyMessage, Messages
  <2>4. Step(Decode(a, c, m, early)) BY <1>8 DEF DecodeLine
  <2> HIDE DEF m, rest
  <2>5. a \in Coherent BY <1>1, <2>1, UpdateCoherent
  <2>6. a \in Stopped BY <1>1, <2>5 DEF Stopped, State
  <2> HIDE DEF a
  <2> QED BY <1>2, <2>3, <2>4, <2>6, DecodeKeepsStopped
<1>9. ASSUME DecodeFinished PROVE ~st'.auto
  <2>1. [st EXCEPT !.unheard = {}] \in Stopped
    <3>1. {} \in SUBSET Calls OBVIOUS
    <3>2. [st EXCEPT !.unheard = {}] \in Coherent BY <1>1, <3>1, UpdateCoherent
    <3> QED BY <1>1, <3>2 DEF Stopped, State
  <2> QED BY <1>2, <1>9, <2>1 DEF DecodeFinished
<1>10. ASSUME LogTimer PROVE ~st'.auto
  <2> DEFINE s == [st EXCEPT !.logTimer = FALSE]
  <2>1. FALSE \in BOOLEAN OBVIOUS
  <2>2. s \in Coherent BY <1>1, <2>1, UpdateCoherent
  <2>3. s \in Stopped BY <1>1, <2>2 DEF Stopped, State
  <2>4. LogHisCall(s) \in Stopped BY <2>3, LoggingKeepsStopped
  <2> QED BY <1>2, <1>10, <2>4 DEF LogTimer
<1>11. [st EXCEPT !.logDlg = Hidden] \in Stopped
  <2>1. Hidden \in Calls \cup {NoCall, Hidden} OBVIOUS
  <2>2. [st EXCEPT !.logDlg = Hidden] \in Coherent BY <1>1, <2>1, UpdateCoherent
  <2> QED BY <1>1, <2>2 DEF Stopped, State
<1>12. ASSUME LogDialogAccept PROVE ~st'.auto
  <2>1. st.logDlg \in Calls \cup {NoCall} BY <1>1, <1>12 DEF LogDialogAccept, State
  <2>2. AcceptQSO([st EXCEPT !.logDlg = Hidden], st.logDlg) \in Stopped
    BY <1>11, <2>1, LoggingKeepsStopped
  <2> QED BY <1>2, <1>12, <2>2 DEF LogDialogAccept
<1>13. ASSUME LogDialogReject PROVE ~st'.auto
  BY <1>2, <1>11, <1>13 DEF LogDialogReject
<1>14. ASSUME RunawayWatchdog PROVE FALSE
  BY <1>1, <1>14 DEF RunawayWatchdog
<1> QED
  BY <1>3, <1>4, <1>5, <1>6, <1>7, <1>8, <1>9, <1>10, <1>12, <1>13, <1>14
     DEF Clock, Watchdog, Decoder, LogDialog

\* Every operation of the operator counts as a command.
LEMMA PersonCommands ==
  ASSUME IInv, Person
  PROVE  ByCommand
<1>1. PICK name, s : Command(name, s)
  BY DEF Person, CqButton, ListenButton, AutoButton, StopTxButtonClicked, Escape,
         DoubleClickOnCall, CtrlDoubleClickOnCall, TxRepeatChanged, TxFirstChanged,
         BandChanged, LogQSOButton
<1>2. left \in Counts BY IInvMeaning
<1> QED BY <1>1, <1>2, BoundAssumption DEF Command, ByCommand, Counts

\* Once Tx is stopped, only the operator enables it again: no decode, 73 that
\* comes late, log timer, log dialog or end of the transmission does, for any
\* number of stations and any settings.
THEOREM StoppedUntilCommand == Spec => StopStaysStopped
<1>1. ASSUME IInv, [Next]_vars
      PROVE  [(st.mode = "manual" /\ ~st.auto /\ st'.auto) => ByCommand]_vars
  <2>1. st \in Coherent BY <1>1, IInvMeaning
  <2>2. CASE Person BY <1>1, <2>2, PersonCommands
  <2>3. CASE Clock \/ Watchdog \/ Decoder \/ LogDialog
    BY <1>1, <2>1, <2>3, ProgramKeepsStopped DEF Stopped
  <2>4. CASE UNCHANGED vars BY <2>4
  <2> QED BY <1>1, <2>2, <2>3, <2>4 DEF Next
<1>2. Spec => [][Next]_vars BY DEF Spec
<1> QED BY <1>1, <1>2, Invariance, PTL DEF StopStaysStopped
-----------------------------------------------------------------------------
(* Contacts: who logs one, and who may replace one.                         *)

\* What is logged, whether the log timer runs and which decodes are still to be
\* read are not the business of most member functions.
Kept(s, t) == /\ t.unheard = s.unheard
              /\ t.loggedCalls = s.loggedCalls
              /\ t.logTimer = s.logTimer

\* Choosing whom to call, and with what, logs nothing and reads no decode.
LEMMA MembersKeep ==
  ASSUME NEW s \in State
  PROVE  /\ \A c : Kept(s, SetCallInProg(s, c))
         /\ \A c : Kept(s, RemoveMessage(s, c))
         /\ \A c, m : Kept(s, SaveMessage(s, c, m))
         /\ \A par : Kept(s, SetPeriod(s, par))
         /\ Kept(s, ResetWatchdog(s))
         /\ Kept(s, SetToCq(s))
         /\ Kept(s, ClearDX(s))
<1>2. \A c : Kept(s, SetCallInProg(s, c)) BY DEF SetCallInProg, Kept, State
<1>3. \A c : Kept(s, RemoveMessage(s, c)) BY DEF RemoveMessage, Kept, State
<1>4. \A c, m : Kept(s, SaveMessage(s, c, m)) BY DEF SaveMessage, Kept, State
<1>5. \A par : Kept(s, SetPeriod(s, par))
  BY DEF SetPeriod, RemoveCallsByPeriod, SetCallInProg, Kept, State
<1>6. Kept(s, ResetWatchdog(s)) BY DEF ResetWatchdog, Kept, State
<1>7. Kept(s, SetToCq(s)) BY DEF SetToCq, SetCallInProg, Kept, State
<1>8. Kept(s, ClearDX(s)) BY DEF ClearDX, SetCallInProg, Kept, State
<1> QED BY <1>2, <1>3, <1>4, <1>5, <1>6, <1>7, <1>8

\* Answering a message.
LEMMA ProcessMessageKeeps ==
  ASSUME NEW s \in Coherent, NEW c \in Calls, NEW m \in AnyMessage
  PROVE  Kept(s, ProcessMessage(s, c, m))
<1> DEFINE a == SetPeriod(s, 1 - m.par)
           b == IF s.mode = "listen" /\ Wanted(m) THEN ResetWatchdog(a) ELSE a
           e == [b EXCEPT !.ntx = Answer(m), !.hisCall = c]
           d == SetCallInProg(e, c)
           f == [d EXCEPT !.restart = @ \/ Transmitting(d),
                          !.tx      = IF @ = "on" THEN "late" ELSE @,
                          !.auto    = @ \/ QuickCall]
<1>1. 1 - m.par \in 0..1 BY DEF AnyMessage, Messages, NoMsg
<1>2. a \in State /\ Kept(s, a) BY <1>1, SetPeriodCoherent, MembersKeep DEF Coherent
<1>3. a \in Coherent BY <1>1, SetPeriodCoherent
<1>4. ProcessMessage(s, c, m) = f BY DEF ProcessMessage
<1> HIDE DEF a
<1>5. b \in State /\ Kept(s, b)
  BY <1>2, <1>3, ResetWatchdogCoherent, MembersKeep DEF Kept, Coherent
<1> HIDE DEF b
<1>6. Kept(b, f) BY <1>5 DEF Kept, SetCallInProg, State
<1> QED BY <1>4, <1>5, <1>6 DEF Kept

\* Taking the next call of the queue, and giving up a contact.
LEMMA NextCallKeeps ==
  ASSUME NEW s \in Coherent
  PROVE  /\ Queued(s) # {} => Kept(s, ProcessNext(s))
         /\ Kept(s, TxWatchdog(s))
<1>1. ASSUME NEW t \in Coherent, Queued(t) # {} PROVE Kept(t, ProcessNext(t))
  <2>1. t \in State BY DEF Coherent
  <2>2. PeekMessage(t) \in Calls BY <1>1, <2>1, PeekMessageQueued DEF Queued
  <2>3. t.msgMap[PeekMessage(t)] \in AnyMessage BY <2>1, <2>2 DEF State
  <2>4. ResetWatchdog(t) \in Coherent /\ Kept(t, ResetWatchdog(t))
    BY <2>1, ResetWatchdogCoherent, MembersKeep
  <2> QED BY <2>2, <2>3, <2>4, ProcessMessageKeeps DEF ProcessNext, Kept
<1>2. Kept(s, TxWatchdog(s))
  <2> DEFINE a == RemoveMessage(s, s.hisCall)
             off(t) == [t EXCEPT !.auto = FALSE]
             r == IF ~s.auto \/ ~AnyAuto(s) THEN off(s)
                  ELSE IF Queued(a) # {}    THEN ProcessNext(a)
                  ELSE IF s.mode = "listen" THEN off(a)
                  ELSE SetToCq(a)
  <2>1. s \in State /\ FALSE \in BOOLEAN BY DEF Coherent
  <2>2. a \in Coherent /\ Kept(s, a) BY <2>1, RemoveMessageCoherent, MembersKeep
  <2>3. TxWatchdog(s) = ResetWatchdog(r) BY DEF TxWatchdog
  <2> HIDE DEF a
  <2>4. ASSUME NEW t \in Coherent PROVE off(t) \in State /\ Kept(t, off(t))
    <3>1. t \in State BY DEF Coherent
    <3>2. off(t) \in State BY <2>1, <3>1, UpdateType
    <3> QED BY <3>1, <3>2 DEF Kept, State
  <2>5. Queued(a) # {} => ProcessNext(a) \in State /\ Kept(a, ProcessNext(a))
    BY <1>1, <2>2, ProcessNextCoherent DEF Coherent
  <2>6. SetToCq(a) \in State /\ Kept(a, SetToCq(a))
    BY <2>2, SetToCqCoherent, MembersKeep DEF Coherent
  <2> HIDE DEF off
  <2>7. r \in State /\ Kept(s, r) BY <2>2, <2>4, <2>5, <2>6 DEF Kept
  <2> HIDE DEF r
  <2> QED BY <2>3, <2>7, MembersKeep DEF Kept
<1> QED BY <1>1, <1>2

\* postLog and what leads to it log one call, the one they are asked to.
LEMMA LoggingLogs ==
  ASSUME NEW s \in Coherent, NEW c \in Calls \cup {NoCall}
  PROVE  /\ InitLogQSO(s, c).unheard = s.unheard
         /\ InitLogQSO(s, c).logTimer = s.logTimer
         /\ InitLogQSO(s, c).loggedCalls \subseteq s.loggedCalls \cup {c}
<1>1. s \in State BY DEF Coherent
<1>2. ASSUME NEW a \in Coherent
      PROVE  /\ PostLog(a, c).unheard = a.unheard
             /\ PostLog(a, c).logTimer = a.logTimer
             /\ PostLog(a, c).loggedCalls = a.loggedCalls \cup {c}
  <2>1. a \in State BY DEF Coherent
  <2> QED BY <2>1 DEF PostLog, SetCallInProg, RemoveMessage, State
<1>3. /\ AcceptQSO(s, c).unheard = s.unheard
      /\ AcceptQSO(s, c).logTimer = s.logTimer
      /\ AcceptQSO(s, c).loggedCalls = s.loggedCalls \cup {c}
  <2> DEFINE a == [s EXCEPT !.logBook = @ \cup {s.hisCall}]
             b == IF ClearDXOption THEN ClearDX(a) ELSE a
  <2>1. s.logBook \cup {s.hisCall} \in SUBSET (Calls \cup {NoCall})
    BY <1>1 DEF State
  <2>2. a \in Coherent BY <1>1, <2>1, UpdateCoherent
  <2>3. Kept(s, a) BY <1>1 DEF Kept, State
  <2> HIDE DEF a
  <2>4. a \in State BY <2>2 DEF Coherent
  <2>5. b \in Coherent /\ Kept(a, b) BY <2>2, <2>4, ClearDXCoherent, MembersKeep DEF Kept
  <2> HIDE DEF b
  <2> QED BY <1>2, <2>3, <2>5 DEF AcceptQSO, a, b, Kept
<1>4. Kept(s, [s EXCEPT !.logDlg = c]) BY <1>1 DEF Kept, State
<1> QED BY <1>3, <1>4 DEF InitLogQSO, Kept

\* Logging ends the call in progress or leaves it.
LEMMA LoggingEndsCall ==
  ASSUME NEW s \in Coherent, NEW c \in Calls \cup {NoCall}
  PROVE  InitLogQSO(s, c).callInProg \in {s.callInProg, NoCall}
<1>1. s \in State BY DEF Coherent
<1>2. ASSUME NEW a \in State PROVE PostLog(a, c).callInProg = NoCall
  BY DEF PostLog, SetCallInProg, RemoveMessage, State
<1>3. AcceptQSO(s, c).callInProg = NoCall
  <2> DEFINE a == [s EXCEPT !.logBook = @ \cup {s.hisCall}]
  <2>1. s.logBook \cup {s.hisCall} \in SUBSET (Calls \cup {NoCall})
    BY <1>1 DEF State
  <2>2. a \in Coherent BY <2>1, UpdateCoherent
  <2> HIDE DEF a
  <2>3. (IF ClearDXOption THEN ClearDX(a) ELSE a) \in State
    BY <2>2, ClearDXCoherent DEF Coherent
  <2> QED BY <1>2, <2>3 DEF AcceptQSO, a
<1>4. [s EXCEPT !.logDlg = c].callInProg = s.callInProg BY <1>1 DEF State
<1> QED BY <1>3, <1>4 DEF InitLogQSO

\* The same for m_hisCall, at once or by starting the timer.
LEMMA SelectLogMethodLogs ==
  ASSUME NEW s \in Coherent
  PROVE  /\ LogHisCall(s).unheard = s.unheard
         /\ SelectLogMethod(s).unheard = s.unheard
         /\ LogHisCall(s).logTimer = s.logTimer
         /\ AutoLog => SelectLogMethod(s).logTimer = s.logTimer
         /\ LogHisCall(s).loggedCalls \subseteq s.loggedCalls \cup {s.hisCall}
         /\ SelectLogMethod(s).loggedCalls \subseteq s.loggedCalls \cup {s.hisCall}
<1>1. s \in State /\ s.hisCall \in Calls \cup {NoCall} BY DEF Coherent, State
<1>2. [s EXCEPT !.logTimer = TRUE].unheard = s.unheard
      /\ [s EXCEPT !.logTimer = TRUE].loggedCalls = s.loggedCalls
  BY <1>1 DEF State
<1> QED BY <1>1, <1>2, LoggingLogs DEF LogHisCall, SelectLogMethod

\* What a line from another station can do to a contact in which the partner
\* has sent a report: end it, if a late 73 is logged, but not replace it.
LEMMA DecodeKeepsContact ==
  ASSUME NEW s \in Coherent, NEW c \in Calls, NEW d \in Calls \ {c},
         NEW m \in AnyMessage, NEW early,
         s.callInProg = c, s.reportsRecd[c] # NoMsg
  PROVE  Decode(s, d, m, early).callInProg \in {c, NoCall}
<1> DEFINE r == RecordReport(s, d, m)
           l == IF NewlyLogged(r, d, m) THEN LogDecode(r, d) ELSE r
<1>1. s \in State /\ s.hisCall = c /\ c # NoCall
  BY DEF Coherent, Linked, Calls, NoCall
<1>2. /\ r \in Coherent /\ r \in State
      /\ r.callInProg = c /\ r.hisCall = c /\ r.reportsRecd[c] # NoMsg
  <2>1. r \in Coherent BY RecordReportCoherent
  <2>2. r.callInProg = c /\ r.hisCall = c BY <1>1 DEF RecordReport, State
  <2>3. r.reportsRecd[c] = s.reportsRecd[c]
    <3>1. s.reportsRecd \in [Calls -> AnyMessage] BY <1>1 DEF State
    <3> QED BY <1>1, <3>1 DEF RecordReport, State
  <2> QED BY <2>1, <2>2, <2>3 DEF Coherent
<1> HIDE DEF r
<1>3. ~Interrupts(r, m) BY <1>1, <1>2 DEF Interrupts
<1>4. CASE NewlyLogged(r, d, m)
  <2>1. d \notin {r.callInProg, r.hisCall} BY <1>2
  <2>2. Decode(s, d, m, early) = InitLogQSO(r, d)
    BY <1>4, <2>1 DEF Decode, LogDecode, r
  <2>3. InitLogQSO(r, d).callInProg \in {r.callInProg, NoCall}
    BY <1>2, LoggingEndsCall
  <2> QED BY <1>2, <2>2, <2>3
<1>5. CASE ~NewlyLogged(r, d, m)
  <2>1. SaveMessage(r, d, m).callInProg = c BY <1>2 DEF SaveMessage, State
  <2>2. Decode(s, d, m, early) \in {r, SaveMessage(r, d, m)}
    BY <1>1, <1>2, <1>3, <1>5 DEF Decode, r
  <2> QED BY <1>2, <2>1, <2>2
<1> QED BY <1>4, <1>5

\* Answering a decode, or ending the contact on it, logs nothing further.
LEMMA AnsweringKeeps ==
  ASSUME NEW s \in Coherent, NEW c \in Calls, NEW m \in AnyMessage,
         NEW held, NEW inTime
  PROVE  Kept(s, Respond(s, c, m, held, inTime)) /\ Kept(s, EndQso(s, c, m, held))
<1>1. s \in State /\ FALSE \in BOOLEAN BY DEF Coherent
<1>2. Kept(s, Respond(s, c, m, held, inTime))
  <2> DEFINE n == DecodeInSequence(s, c, m)
             q == IF AnyAuto(s) THEN SaveMessage(s, c, n) ELSE s
  <2>1. n \in AnyMessage BY <1>1 DEF DecodeInSequence, State
  <2> HIDE DEF n
  <2>2. q \in Coherent /\ Kept(s, q)
    BY <1>1, <2>1, SaveMessageCoherent, MembersKeep DEF Kept
  <2> HIDE DEF q
  <2>3. Kept(q, ProcessMessage(q, c, n)) BY <2>1, <2>2, ProcessMessageKeeps
  <2>4. Respond(s, c, m, held, inTime) \in {q, ProcessMessage(q, c, n)}
    BY DEF Respond, q, n
  <2> QED BY <2>2, <2>3, <2>4 DEF Kept
<1>3. Kept(s, EndQso(s, c, m, held))
  <2> DEFINE cq == [SetToCq(s) EXCEPT !.auto = FALSE]
  <2>1. SetToCq(s) \in State /\ Kept(s, SetToCq(s))
    BY <1>1, SetToCqCoherent, MembersKeep DEF Coherent
  <2>2. Kept(SetToCq(s), cq) BY <2>1 DEF Kept, State
  <2>3. Kept(s, TxWatchdog(s)) /\ Kept(s, ProcessMessage(s, c, m)) /\ Kept(s, s)
    BY NextCallKeeps, ProcessMessageKeeps DEF Kept
  <2>4. EndQso(s, c, m, held) \in {TxWatchdog(s), s, ProcessMessage(s, c, m), cq}
    BY DEF EndQso
  <2> HIDE DEF cq
  <2> QED BY <2>1, <2>2, <2>3, <2>4 DEF Kept
<1> QED BY <1>2, <1>3

\* A decoded line is read once, and logs no contact but one whose reports were
\* exchanged before it came.
LEMMA DecodeLogsExchanged ==
  ASSUME NEW s \in Coherent, NEW c \in Calls, NEW m \in AnyMessage, NEW early
  PROVE  /\ Decode(s, c, m, early).unheard = s.unheard
         /\ AutoLog => Decode(s, c, m, early).logTimer = s.logTimer
         /\ \A d \in Decode(s, c, m, early).loggedCalls \ s.loggedCalls : Exchanged(s, d)
<1> DEFINE r == RecordReport(s, c, m)
           l == IF NewlyLogged(r, c, m) THEN LogDecode(r, c) ELSE r
           New(t) == /\ t.unheard = s.unheard
                     /\ AutoLog => t.logTimer = s.logTimer
                     /\ \A d \in t.loggedCalls \ s.loggedCalls : Exchanged(s, d)
<1>1. s \in State /\ Linked(s) BY DEF Coherent
<1>2. r \in Coherent BY RecordReportCoherent
<1>3. l \in Coherent BY <1>2, LogDecodeCoherent
<1>4. New(l)
  <2>1. CASE NewlyLogged(r, c, m)
    <3>1. r = s /\ Exchanged(s, c)
      BY <2>1 DEF NewlyLogged, Is73, HasReport, RecordReport
    <3>2. /\ InitLogQSO(s, c).unheard = s.unheard
          /\ InitLogQSO(s, c).logTimer = s.logTimer
          /\ InitLogQSO(s, c).loggedCalls \subseteq s.loggedCalls \cup {c}
      BY LoggingLogs
    <3>3. c \in {s.callInProg, s.hisCall} => c = s.hisCall
      BY <1>1 DEF Linked, Calls, NoCall
    <3>4. c \in {s.callInProg, s.hisCall} =>
            /\ SelectLogMethod(s).unheard = s.unheard
            /\ AutoLog => SelectLogMethod(s).logTimer = s.logTimer
            /\ SelectLogMethod(s).loggedCalls \subseteq s.loggedCalls \cup {c}
      BY <3>3, SelectLogMethodLogs
    <3>5. l \in {InitLogQSO(s, c), SelectLogMethod(s)}
          /\ (l # InitLogQSO(s, c) => c \in {s.callInProg, s.hisCall})
      BY <2>1, <3>1 DEF LogDecode
    <3> HIDE DEF l, r
    <3>6. /\ l.unheard = s.unheard
          /\ AutoLog => l.logTimer = s.logTimer
          /\ l.loggedCalls \subseteq s.loggedCalls \cup {c}
      BY <3>2, <3>4, <3>5
    <3> QED BY <3>1, <3>6
  <2>2. CASE ~NewlyLogged(r, c, m)
    <3>1. Kept(s, r) BY <1>1 DEF Kept, RecordReport, State
    <3>2. l = r BY <2>2
    <3> QED BY <3>1, <3>2 DEF Kept
  <2> QED BY <2>1, <2>2
<1>5. \E held, inTime :
        Decode(s, c, m, early) \in
          {l, EndQso(l, c, m, held), Respond(l, c, m, held, inTime), SaveMessage(l, c, m)}
  BY DEF Decode
<1> HIDE DEF l, r
<1>6. l \in State BY <1>3 DEF Coherent
<1>7. Kept(l, Decode(s, c, m, early))
  BY <1>3, <1>5, <1>6, AnsweringKeeps, MembersKeep DEF Kept
<1> QED BY <1>4, <1>7 DEF Kept

\* Counting a transmission logs nothing.
LEMMA CountRepeatKeeps ==
  ASSUME NEW s \in Coherent
  PROVE  Kept(s, CountRepeat(s))
<1> DEFINE b == SetCallInProg(s, NoCall)
           d == IF b.limit # 0 THEN IncrFailCount(b, s.hisCall) ELSE b
<1>1. s \in State BY DEF Coherent
<1>2. b \in Coherent /\ Kept(s, b) BY <1>1, ClearCallCoherent, MembersKeep
<1> HIDE DEF b
<1>3. b \in State BY <1>2 DEF Coherent
<1>4. IncrFailCount(b, s.hisCall) \in Coherent BY <1>2, FailCountCoherent
<1>5. d \in Coherent /\ Kept(b, d)
  <2>1. Kept(b, IncrFailCount(b, s.hisCall))
    BY <1>3 DEF IncrFailCount, Kept, State
  <2>2. Kept(b, b) BY DEF Kept
  <2> QED BY <1>2, <1>4, <2>1, <2>2
<1> HIDE DEF d
<1>6. TxWatchdog(d) \in State /\ Kept(d, TxWatchdog(d))
  BY <1>5, NextCallKeeps, TxWatchdogCoherent DEF Coherent
<1>7. TimeOut(s) = [TxWatchdog(d) EXCEPT !.msgAtEndTx = NoSent]
  BY DEF TimeOut, b, d
<1>8. Kept(TxWatchdog(d), TimeOut(s)) BY <1>6, <1>7 DEF Kept, State
<1>9. ASSUME NEW n, NEW v,
             CountRepeat(s) = [s EXCEPT !.dupTxCount = n, !.msgAtEndTx = v]
      PROVE  Kept(s, CountRepeat(s))
  BY <1>1, <1>9 DEF Kept, State
<1>10. TimeOut(s) = CountRepeat(s)
       \/ \E n, v : CountRepeat(s) = [s EXCEPT !.dupTxCount = n, !.msgAtEndTx = v]
  BY DEF CountRepeat
<1>11. Kept(s, TimeOut(s)) BY <1>2, <1>5, <1>6, <1>8 DEF Kept
<1> QED BY <1>9, <1>10, <1>11

\* The end of a transmission logs the station called, if reports were exchanged.
LEMMA StopTxLogsExchanged ==
  ASSUME NEW s \in Coherent, ~s.restart, NEW short
  PROVE  /\ AutoLog => StopTx(s, short).logTimer = s.logTimer
         /\ \A d \in StopTx(s, short).loggedCalls \ s.loggedCalls : Exchanged(s, d)
<1> DEFINE ph == IF s.tx = "cut" /\ short THEN "cut" ELSE "sent"
           a  == [s EXCEPT !.tx = "off", !.phase = ph]
           r  == RecordSent(a)
           e  == IF EarlyLog /\ AnyAuto(r) /\ r.cur.k = 4 /\ Loggable(r)
                   THEN LogHisCall(r) ELSE r
           x  == IF Loggable(r) THEN SelectLogMethod(r) ELSE r
           New(t) == /\ AutoLog => t.logTimer = s.logTimer
                     /\ \A d \in t.loggedCalls \ s.loggedCalls : Exchanged(s, d)
<1>1. s \in State /\ Linked(s) BY DEF Coherent
<1>2. ph \in {"due", "early", "sent", "cut", "over"} /\ "off" \in TxStates
  BY DEF TxStates
<1> HIDE DEF ph
<1>3. a \in State BY <1>1, <1>2, UpdateType
<1>4. Linked(a) BY <1>1 DEF Linked, State
<1>5. a \in Coherent BY <1>3, <1>4 DEF Coherent
<1>6. /\ Kept(s, a) /\ a.cur = s.cur
      /\ a.reportsSent = s.reportsSent /\ a.reportsRecd = s.reportsRecd
  BY <1>1 DEF Kept, State
<1> HIDE DEF a
<1>7. r \in Coherent /\ r \in State BY <1>5, RecordSentCoherent DEF Coherent
<1>8. /\ Kept(s, r)
      /\ r.cur.k \in {4, 5} => \A d : Exchanged(r, d) <=> Exchanged(s, d)
  BY <1>3, <1>6 DEF RecordSent, Exchanged, Kept, State
<1> HIDE DEF r
<1>9. e \in Coherent /\ New(e)
  <2>1. e \in Coherent BY <1>7, LogHisCallCoherent
  <2>2. LogHisCall(r).logTimer = r.logTimer
        /\ LogHisCall(r).loggedCalls \subseteq r.loggedCalls \cup {r.hisCall}
    BY <1>7, SelectLogMethodLogs
  <2> QED BY <1>8, <2>1, <2>2 DEF Loggable, Kept
<1>10. Ends73(r) => x \in Coherent /\ New(x)
  <2>1. x \in Coherent BY <1>7, SelectLogMethodCoherent
  <2>2. (AutoLog => SelectLogMethod(r).logTimer = r.logTimer)
        /\ SelectLogMethod(r).loggedCalls \subseteq r.loggedCalls \cup {r.hisCall}
    BY <1>7, SelectLogMethodLogs
  <2>3. Ends73(r) => r.cur.k \in {4, 5} BY DEF Ends73
  <2> QED BY <1>8, <2>1, <2>2, <2>3 DEF Loggable, Kept
<1>11. Ends73(r) => New(SignOff(r))
  <2> DEFINE w == TxWatchdog(x)
  <2> SUFFICES ASSUME Ends73(r) PROVE New(SignOff(r)) OBVIOUS
  <2>1. x \in Coherent /\ New(x) BY <1>10
  <2>2. SignOff(r) = IF AnyAuto(w) THEN w ELSE SetToCq(w) BY DEF SignOff
  <2> HIDE DEF x
  <2>3. Kept(x, w) /\ w \in State
    BY <2>1, NextCallKeeps, TxWatchdogCoherent DEF Coherent
  <2> HIDE DEF w
  <2>4. Kept(w, SetToCq(w)) BY <2>3, MembersKeep
  <2> QED BY <2>1, <2>2, <2>3, <2>4 DEF Kept
<1>12. \A n, v : Kept(r, [r EXCEPT !.dupTxCount = n, !.msgAtEndTx = v])
  BY <1>7 DEF Kept, State
<1> HIDE DEF e
<1>13. Kept(e, CountRepeat(e)) BY <1>9, CountRepeatKeeps
<1>14. \/ StopTx(s, short) = r
       \/ Ends73(r) /\ StopTx(s, short) = SignOff(r)
       \/ StopTx(s, short) = [r EXCEPT !.dupTxCount = 0, !.msgAtEndTx = NoSent]
       \/ StopTx(s, short) = CountRepeat(e)
  BY DEF StopTx, e, r, a, ph
<1>15. ASSUME NEW t, Kept(r, t) \/ Kept(e, t) PROVE New(t)
  BY <1>8, <1>9, <1>15 DEF Kept
<1>16. Kept(r, r) BY DEF Kept
<1> QED BY <1>11, <1>12, <1>13, <1>14, <1>15, <1>16

\* The clock and the decoder's start log nothing.
LEMMA SlotKeeps ==
  ASSUME NEW s \in Coherent, NEW cleanup
  PROVE  Kept(s, AgeAll(s)) /\ Kept(s, DecodeBusy(s, cleanup))
<1> DEFINE a == IF cleanup THEN CheckExpiredCallInfo(s) ELSE s
<1>1. s \in State BY DEF Coherent
<1>2. Kept(s, AgeAll(s)) BY <1>1 DEF AgeAll, Kept, State
<1>3. a \in Coherent /\ Kept(s, a)
  BY <1>1, CheckExpiredCallInfoCoherent DEF CheckExpiredCallInfo, Kept, State
<1> HIDE DEF a
<1>4. (Queued(a) # {} => Kept(a, ProcessNext(a))) /\ Kept(a, TxWatchdog(a))
  BY <1>3, NextCallKeeps
<1>5. \/ DecodeBusy(s, cleanup) = a
      \/ Queued(a) # {} /\ DecodeBusy(s, cleanup) = ProcessNext(a)
      \/ DecodeBusy(s, cleanup) = TxWatchdog(a)
  BY DEF DecodeBusy, a
<1> QED BY <1>2, <1>3, <1>4, <1>5 DEF Kept

\* Calling a transmission off touches nothing else.
LEMMA SettledKeeps ==
  ASSUME NEW s \in State
  PROVE  Kept(s, Settled(s)) /\ Settled(s).callInProg = s.callInProg
BY DEF Settled, Kept, State

\* Lines are only used up by the decoder's output, one at a time.
LEMMA LinesAreHeard ==
  ASSUME IInv, Next, left'.lines < left.lines
  PROVE  \E c \in Calls, kind \in Heard, early \in BOOLEAN : DecodeLine(c, kind, early)
<1>1. left \in Counts BY IInvMeaning
<1>2. ASSUME Person PROVE left'.lines = left.lines
  <2>1. PICK name, s : Command(name, s)
    BY <1>2 DEF Person, CqButton, ListenButton, AutoButton, StopTxButtonClicked, Escape,
           DoubleClickOnCall, CtrlDoubleClickOnCall, TxRepeatChanged, TxFirstChanged,
           BandChanged, LogQSOButton
  <2> QED BY <1>1, <2>1 DEF Command, Counts
<1>3. left' # left BY <1>1, BoundAssumption DEF Counts
<1>4. left'.lines # left.lines BY <1>1, BoundAssumption DEF Counts
<1> QED BY <1>2, <1>3, <1>4 DEF Next, Clock, Watchdog, LogDialog, Decoder

\* What one decoded line does to the decodes left, the log and the contact.
LEMMA DecodeLineEffect ==
  ASSUME IInv, NEW d \in Calls, NEW kind \in Heard, NEW early \in BOOLEAN,
         DecodeLine(d, kind, early)
  PROVE  /\ st.unheard \ st'.unheard = {d}
         /\ AutoLog => st'.logTimer = st.logTimer
         /\ \A c \in st'.loggedCalls \ st.loggedCalls : Exchanged(st, c)
         /\ \A c \in Calls \ {d} :
              (st.callInProg = c /\ st.reportsRecd[c] # NoMsg)
                => st'.callInProg \in {c, NoCall}
<1> DEFINE m == [kind |-> kind, par |-> 1 - st.slot, age |-> 0]
           rest == st.unheard \ {d}
           a == [st EXCEPT !.unheard = rest]
           s == Decode(a, d, m, early)
<1>1. st \in Coherent /\ st \in State /\ d \in st.unheard
  BY IInvMeaning DEF Coherent, DecodeLine
<1>2. 1 - st.slot \in 0..1 /\ rest \in SUBSET Calls BY <1>1 DEF State
<1>3. kind \in Kinds BY HeardAssumption
<1>4. m \in AnyMessage
  BY <1>2, <1>3, LimitAssumption DEF AnyMessage, Messages
<1>5. st' = Settled(s) BY DEF DecodeLine, Step
<1> HIDE DEF m, rest
<1>6. a \in Coherent BY <1>1, <1>2, UpdateCoherent
<1>7. /\ a.unheard = rest /\ a.loggedCalls = st.loggedCalls /\ a.logTimer = st.logTimer
      /\ a.callInProg = st.callInProg
      /\ a.reportsRecd = st.reportsRecd /\ a.reportsSent = st.reportsSent
  BY <1>1 DEF State
<1> HIDE DEF a
<1>8. /\ s.unheard = a.unheard
      /\ AutoLog => s.logTimer = a.logTimer
      /\ \A c \in s.loggedCalls \ a.loggedCalls : Exchanged(a, c)
  BY <1>4, <1>6, DecodeLogsExchanged
<1>9. \A c \in Calls \ {d} :
        (a.callInProg = c /\ a.reportsRecd[c] # NoMsg) => s.callInProg \in {c, NoCall}
  BY <1>4, <1>6, DecodeKeepsContact
<1>10. s \in State BY <1>4, <1>6, DecodeCoherent DEF Coherent
<1> HIDE DEF s
<1>11. Kept(s, st') /\ st'.callInProg = s.callInProg BY <1>5, <1>10, SettledKeeps
<1>12. st.unheard \ st'.unheard = {d} BY <1>1, <1>7, <1>8, <1>11 DEF Kept, rest
<1>13. \A c \in st'.loggedCalls \ st.loggedCalls : Exchanged(st, c)
  BY <1>7, <1>8, <1>11 DEF Kept, Exchanged
<1>14. \A c \in Calls \ {d} :
         (st.callInProg = c /\ st.reportsRecd[c] # NoMsg) => st'.callInProg \in {c, NoCall}
  BY <1>7, <1>9, <1>11
<1>15. AutoLog => st'.logTimer = st.logTimer BY <1>7, <1>8, <1>11 DEF Kept
<1> QED BY <1>12, <1>13, <1>14, <1>15

\* Once a partner has sent a report no decode of another station replaces it,
\* for any number of stations and any settings.
THEOREM ContactNotHijacked == Spec => NoHijack
<1> DEFINE Keeps == \A d \in HeardNow : \A c \in Calls \ {d} :
                      (st.callInProg = c /\ st.reportsRecd[c] # NoMsg)
                        => st'.callInProg \in {c, NoCall}
<1>1. ASSUME IInv, [Next]_vars PROVE [Keeps]_vars
  <2>1. CASE UNCHANGED vars BY <2>1
  <2>2. CASE Next /\ ~(left'.lines < left.lines) BY <2>2 DEF HeardNow
  <2>3. CASE Next /\ left'.lines < left.lines
    <3>1. PICK d \in Calls, kind \in Heard, early \in BOOLEAN : DecodeLine(d, kind, early)
      BY <1>1, <2>3, LinesAreHeard
    <3>2. HeardNow = {d} BY <1>1, <2>3, <3>1, DecodeLineEffect DEF HeardNow
    <3>3. \A c \in Calls \ {d} :
            (st.callInProg = c /\ st.reportsRecd[c] # NoMsg) => st'.callInProg \in {c, NoCall}
      BY <1>1, <3>1, DecodeLineEffect
    <3> QED BY <3>2, <3>3
  <2> QED BY <1>1, <2>1, <2>2, <2>3
<1>2. Spec => [][Next]_vars BY DEF Spec
<1> QED BY <1>1, <1>2, Invariance, PTL DEF NoHijack
-----------------------------------------------------------------------------
(* Logging without a dialog: the timer is not used, and every contact       *)
(* logged by the program had both reports.                                  *)

\* With automatic logging the program starts no log timer, and logs exchanged
\* contacts only.
LEMMA ProgramLogsExchanged ==
  ASSUME AutoLog, IInv, ~st.logTimer, Clock \/ Watchdog \/ Decoder \/ LogDialog
  PROVE  /\ st'.logTimer = st.logTimer
         /\ \A c \in st'.loggedCalls \ st.loggedCalls :
              Exchanged(st, c) \/ st.logDlg # Hidden
<1> DEFINE Good == /\ st'.logTimer = st.logTimer
                   /\ \A c \in st'.loggedCalls \ st.loggedCalls :
                        Exchanged(st, c) \/ st.logDlg # Hidden
<1>1. st \in Coherent /\ st \in State BY IInvMeaning DEF Coherent
<1>2. ASSUME NEW s \in State, Kept(st, s), Step(s) PROVE Good
  BY <1>2, SettledKeeps DEF Step, Kept
<1>3. ASSUME NEW late \in BOOLEAN, StartTx(late) PROVE Good
  <2> DEFINE s == [st EXCEPT !.tx = IF late THEN "late" ELSE "on", !.phase = "sent",
                     !.cur = CurrentMessage(st),
                     !.prefTxLimit = IF st.limit # 0 THEN st.limit ELSE @]
  <2>1. st' = Settled(s) BY <1>3 DEF StartTx, Step
  <2>2. Kept(st, s) /\ Kept(st, [s EXCEPT !.phase = "early"])
    BY <1>1 DEF Kept, State
  <2> QED BY <2>1, <2>2 DEF Settled, Kept
<1>4. ASSUME RestartTx PROVE Good
  <2> DEFINE s == [st EXCEPT !.restart = FALSE, !.cur = CurrentMessage(st)]
  <2>1. st' = Settled(s) BY <1>4 DEF RestartTx, Step
  <2>2. Kept(st, s) /\ Kept(st, [s EXCEPT !.phase = "early"])
    BY <1>1 DEF Kept, State
  <2> QED BY <2>1, <2>2 DEF Settled, Kept
<1>5. ASSUME NEW short \in BOOLEAN, EndTx(short) PROVE Good
  <2> DEFINE s == StopTx(st, short)
  <2>1. ~st.restart /\ st' = Settled(s) BY <1>5 DEF EndTx
  <2>2. s \in State BY <1>1, <2>1, StopTxCoherent DEF Coherent
  <2>3. s.logTimer = st.logTimer
        /\ \A d \in s.loggedCalls \ st.loggedCalls : Exchanged(st, d)
    BY <1>1, <2>1, StopTxLogsExchanged
  <2> HIDE DEF s
  <2>4. Kept(s, st') BY <2>1, <2>2, SettledKeeps
  <2> QED BY <2>3, <2>4 DEF Kept
<1>6. ASSUME SlotLate PROVE Good
  <2> DEFINE s == [st EXCEPT !.phase = IF @ = "early" THEN "over" ELSE "sent"]
  <2>1. st' = Settled(s) BY <1>6 DEF SlotLate, Step
  <2>2. Kept(st, s) /\ Kept(st, [s EXCEPT !.phase = "early"])
    BY <1>1 DEF Kept, State
  <2> QED BY <2>1, <2>2 DEF Settled, Kept
<1>7. ASSUME NEW cleanup \in BOOLEAN, SlotEnds(cleanup) PROVE Good
  <2> DEFINE heard == IF st.phase = "over" THEN Calls ELSE {}
             a == [st EXCEPT !.slot = 1 - st.slot]
             b == [a EXCEPT !.phase = "due"]
             d == [b EXCEPT !.unheard = heard]
             e == AgeAll(d)
             f == DecodeBusy(e, cleanup)
  <2>1. 1 - st.slot \in 0..1 BY <1>1 DEF State
  <2>2. "due" \in {"due", "early", "sent", "cut", "over"} /\ heard \in SUBSET Calls
    OBVIOUS
  <2>3. Step(f) \/ Step(e) BY <1>7 DEF SlotEnds
  <2>4. d.loggedCalls = st.loggedCalls /\ d.logTimer = st.logTimer
    BY <1>1 DEF State
  <2> HIDE DEF heard
  <2>5. a \in Coherent BY <1>1, <2>1, UpdateCoherent
  <2> HIDE DEF a
  <2>6. b \in Coherent BY <2>2, <2>5, UpdateCoherent
  <2> HIDE DEF b
  <2>7. d \in Coherent BY <2>2, <2>6, UpdateCoherent
  <2> HIDE DEF d
  <2>8. e \in Coherent /\ Kept(d, e) BY <2>7, AgeAllCoherent, SlotKeeps
  <2>9. e \in State BY <2>8 DEF Coherent
  <2> HIDE DEF e
  <2>10. f \in State /\ Kept(e, f) BY <2>8, DecodeBusyCoherent, SlotKeeps DEF Coherent
  <2> HIDE DEF f
  <2>11. Kept(e, Settled(e)) /\ Kept(f, Settled(f)) BY <2>9, <2>10, SettledKeeps
  <2> QED BY <2>3, <2>4, <2>8, <2>10, <2>11 DEF Kept, Step
<1>8. ASSUME NEW c \in Calls, NEW kind \in Heard, NEW early \in BOOLEAN,
             DecodeLine(c, kind, early)
      PROVE  Good
  BY <1>8, DecodeLineEffect
<1>9. ASSUME DecodeFinished PROVE Good
  <2> DEFINE s == [st EXCEPT !.unheard = {}]
  <2>1. st' = Settled(s) BY <1>9 DEF DecodeFinished, Step
  <2>2. {} \in SUBSET Calls OBVIOUS
  <2>3. s \in State BY <1>1, <2>2, UpdateType
  <2>4. s.loggedCalls = st.loggedCalls /\ s.logTimer = st.logTimer BY <1>1 DEF State
  <2> HIDE DEF s
  <2> QED BY <2>1, <2>3, <2>4, SettledKeeps DEF Kept
<1>10. ASSUME LogTimer PROVE FALSE
  BY <1>10 DEF LogTimer
<1>11. ASSUME LogDialogAccept \/ LogDialogReject PROVE Good
  <2> DEFINE a == [st EXCEPT !.logDlg = Hidden]
  <2>1. st.logDlg # Hidden BY <1>11 DEF LogDialogAccept, LogDialogReject
  <2>2. Hidden \in Calls \cup {NoCall, Hidden} OBVIOUS
  <2>3. a \in Coherent /\ Kept(st, a)
    BY <1>1, <2>2, UpdateCoherent DEF Kept, State
  <2>4. a.logDlg = Hidden BY <1>1 DEF State
  <2>5. st.logDlg \in Calls \cup {NoCall} BY <1>1, <2>1 DEF State
  <2>6. Logs(AcceptQSO(a, st.logDlg)) \/ Step(a)
    BY <1>11 DEF LogDialogAccept, LogDialogReject
  <2> HIDE DEF a
  <2>7. AcceptQSO(a, st.logDlg) = InitLogQSO(a, st.logDlg)
    BY <2>4 DEF InitLogQSO
  <2>8. AcceptQSO(a, st.logDlg) \in State BY <2>3, <2>5, AcceptQSOCoherent DEF Coherent
  <2>9. AcceptQSO(a, st.logDlg).logTimer = a.logTimer
    BY <2>3, <2>5, <2>7, LoggingLogs
  <2>10. a \in State BY <2>3 DEF Coherent
  <2> QED BY <2>1, <2>3, <2>6, <2>8, <2>9, <2>10, SettledKeeps DEF Step, Logs, Kept
<1>12. ASSUME RunawayWatchdog PROVE Good
  <2> DEFINE w == TxWatchdog(st)
             t == [w EXCEPT !.tx = IF @ = "off" THEN @ ELSE "cut"]
  <2>1. w \in State /\ w \in Coherent /\ Kept(st, w)
    BY <1>1, TxWatchdogCoherent, NextCallKeeps DEF Coherent
  <2>2. Step(t) BY <1>12 DEF RunawayWatchdog
  <2> HIDE DEF w
  <2>3. t \in Coherent BY <2>1, CutCoherent
  <2>4. Kept(w, t) BY <2>1 DEF Kept, State
  <2>5. t \in State BY <2>3 DEF Coherent
  <2> QED BY <1>2, <2>1, <2>2, <2>4, <2>5 DEF Kept
<1> QED
  BY <1>3, <1>4, <1>5, <1>6, <1>7, <1>8, <1>9, <1>10, <1>11, <1>12
     DEF Clock, Watchdog, Decoder, LogDialog

\* Stopping Tx and forgetting calls, by command, touch neither log nor timer.
LEMMA CommandsKeepTimer ==
  ASSUME NEW s \in State
  PROVE  /\ StopTxButton(s).logTimer = s.logTimer
         /\ \A c : ClearFailCount(s, c).logTimer = s.logTimer
         /\ \A book : [ClearAllCallInfo(StopTxButton(s)) EXCEPT !.logBook = book].logTimer
                        = s.logTimer
<1>1. StopTxButton(s).logTimer = s.logTimer BY DEF StopTxButton, State
<1>2. \A c : ClearFailCount(s, c).logTimer = s.logTimer BY DEF ClearFailCount, State
<1>3. \A book : [ClearAllCallInfo(StopTxButton(s)) EXCEPT !.logBook = book].logTimer
                  = s.logTimer
  BY DEF ClearAllCallInfo, SetCallInProg, StopTxButton, State
<1> QED BY <1>1, <1>2, <1>3

\* No command starts the timer when contacts are logged automatically.
LEMMA PersonKeepsTimer ==
  ASSUME AutoLog, IInv, Person
  PROVE  st'.logTimer = st.logTimer
<1>1. st \in Coherent /\ st \in State BY IInvMeaning DEF Coherent
<1>2. ASSUME NEW s \in State, NEW name, Command(name, s), s.logTimer = st.logTimer
      PROVE  st'.logTimer = st.logTimer
  BY <1>2, SettledKeeps DEF Command, Kept
<1>3. ASSUME NEW t \in Coherent
      PROVE  /\ TxWatchdog(t) \in Coherent /\ TxWatchdog(t).logTimer = t.logTimer
             /\ ResetWatchdog(t) \in Coherent /\ ResetWatchdog(t).logTimer = t.logTimer
  <2>1. t \in State BY DEF Coherent
  <2> QED BY <2>1, TxWatchdogCoherent, NextCallKeeps, ResetWatchdogCoherent, MembersKeep
          DEF Kept
<1>4. \A mode \in {"manual", "cq", "listen"} : \A on \in BOOLEAN :
        /\ [st EXCEPT !.mode = mode, !.auto = on] \in Coherent
        /\ [st EXCEPT !.mode = mode, !.auto = on].logTimer = st.logTimer
  <2>1. SUFFICES ASSUME NEW mode \in {"manual", "cq", "listen"}, NEW on \in BOOLEAN
                 PROVE  /\ [st EXCEPT !.mode = mode, !.auto = on] \in Coherent
                        /\ [st EXCEPT !.mode = mode, !.auto = on].logTimer = st.logTimer
    OBVIOUS
  <2> DEFINE a == [st EXCEPT !.mode = mode]
  <2>2. a \in Coherent BY <1>1, UpdateCoherent
  <2>3. [a EXCEPT !.auto = on] \in Coherent BY <2>2, UpdateCoherent
  <2>4. [st EXCEPT !.mode = mode, !.auto = on].logTimer = st.logTimer BY <1>1 DEF State
  <2> QED BY <2>3, <2>4
<1>5. ASSUME CqButton \/ ListenButton PROVE st'.logTimer = st.logTimer
  <2> DEFINE on(mode, auto) == [st EXCEPT !.mode = mode, !.auto = auto]
             listen == [st EXCEPT !.mode = "listen"]
  <2>1. listen \in Coherent /\ listen.logTimer = st.logTimer
    BY <1>1, UpdateCoherent DEF State
  <2>2. on("manual", FALSE) \in Coherent /\ on("manual", FALSE).logTimer = st.logTimer
    BY <1>4
  <2>3. on("cq", TRUE) \in Coherent /\ on("cq", TRUE).logTimer = st.logTimer
    BY <1>4
  <2>4. [listen EXCEPT !.auto = TRUE] \in Coherent
        /\ [listen EXCEPT !.auto = TRUE].logTimer = st.logTimer
    BY <1>1, <2>1, UpdateCoherent DEF State
  <2>5. \E t \in {on("manual", FALSE), on("cq", TRUE), listen, [listen EXCEPT !.auto = TRUE]} :
          \E name : \/ Command(name, ResetWatchdog(t))
                    \/ Command(name, ResetWatchdog(TxWatchdog(t)))
    BY <1>5 DEF CqButton, ListenButton
  <2> HIDE DEF on, listen
  <2>6. PICK t \in Coherent : \E name :
          /\ t.logTimer = st.logTimer
          /\ \/ Command(name, ResetWatchdog(t))
             \/ Command(name, ResetWatchdog(TxWatchdog(t)))
    BY <2>1, <2>2, <2>3, <2>4, <2>5
  <2>7. ResetWatchdog(t) \in Coherent /\ ResetWatchdog(t).logTimer = t.logTimer
    BY <1>3
  <2>8. ResetWatchdog(TxWatchdog(t)) \in Coherent
        /\ ResetWatchdog(TxWatchdog(t)).logTimer = t.logTimer
    BY <1>3
  <2> QED BY <1>2, <2>6, <2>7, <2>8 DEF Coherent
<1>6. ASSUME AutoButton PROVE st'.logTimer = st.logTimer
  <2> DEFINE on == ~st.auto
  <2>1. on \in BOOLEAN OBVIOUS
  <2>2. Command("auto", [st EXCEPT !.auto = on]) BY <1>6 DEF AutoButton
  <2> HIDE DEF on
  <2>3. [st EXCEPT !.auto = on] \in State BY <1>1, <2>1, UpdateType
  <2>4. [st EXCEPT !.auto = on].logTimer = st.logTimer BY <1>1 DEF State
  <2> QED BY <1>2, <2>2, <2>3, <2>4
<1>7. ASSUME StopTxButtonClicked PROVE st'.logTimer = st.logTimer
  <2>1. StopTxButton(st) \in State BY <1>1, StopTxButtonCoherent DEF Coherent
  <2> QED BY <1>1, <1>2, <1>7, <2>1, CommandsKeepTimer DEF StopTxButtonClicked
<1>8. ASSUME Escape PROVE st'.logTimer = st.logTimer
  <2> DEFINE none == [c \in Calls |-> NoMsg]
             a == [st EXCEPT !.msgMap = none]
             b == StopTxButton(a)
             d == ClearDX(b)
             e == [d EXCEPT !.auto = FALSE]
  <2>1. none \in [Calls -> AnyMessage] /\ FALSE \in BOOLEAN BY DEF AnyMessage
  <2>2. Command("escape", e) BY <1>8 DEF Escape
  <2> HIDE DEF none
  <2>3. a \in Coherent /\ a.logTimer = st.logTimer
    BY <1>1, <2>1, UpdateCoherent DEF State
  <2> HIDE DEF a
  <2>4. a \in State BY <2>3 DEF Coherent
  <2>5. b \in Coherent /\ b.logTimer = a.logTimer
    BY <2>3, <2>4, StopTxButtonCoherent, CommandsKeepTimer
  <2> HIDE DEF b
  <2>6. b \in State BY <2>5 DEF Coherent
  <2>7. d \in Coherent /\ Kept(b, d) BY <2>5, <2>6, ClearDXCoherent, MembersKeep
  <2> HIDE DEF d
  <2>8. d \in State BY <2>7 DEF Coherent
  <2>9. e \in State BY <2>1, <2>8, UpdateType
  <2>10. e.logTimer = d.logTimer BY <2>8 DEF State
  <2> QED BY <1>2, <2>2, <2>3, <2>5, <2>7, <2>9, <2>10 DEF Kept
<1>9. ASSUME NEW c \in Calls, NEW kind \in Heard, NEW back \in 0..1,
             DoubleClickOnCall(c, kind, back)
      PROVE  st'.logTimer = st.logTimer
  <2> DEFINE m == Shown(kind, back)
             p == RemoveMessage(st, c)
             a == IF st.msgMap[c] = NoMsg THEN st ELSE ClearFailCount(p, c)
             b == ResetWatchdog(a)
  <2>1. kind \in Kinds BY HeardAssumption
  <2>2. m \in AnyMessage BY <1>1, <2>1, ShownType
  <2>3. Command("dblclick", ProcessMessage(b, c, m)) BY <1>9 DEF DoubleClickOnCall
  <2> HIDE DEF m
  <2>4. p \in Coherent /\ p.logTimer = st.logTimer
    BY <1>1, RemoveMessageCoherent, MembersKeep DEF Kept
  <2> HIDE DEF p
  <2>5. a \in Coherent /\ a.logTimer = st.logTimer
    BY <1>1, <2>4, FailCountCoherent, CommandsKeepTimer DEF Coherent
  <2> HIDE DEF a
  <2>6. b \in Coherent /\ b.logTimer = a.logTimer BY <1>3, <2>5
  <2> HIDE DEF b
  <2>7. ProcessMessage(b, c, m) \in State /\ Kept(b, ProcessMessage(b, c, m))
    BY <2>2, <2>6, ProcessMessageCoherent, ProcessMessageKeeps DEF Coherent
  <2> QED BY <1>2, <2>3, <2>5, <2>6, <2>7 DEF Kept
<1>10. ASSUME NEW c \in Calls, NEW kind \in Heard, NEW back \in 0..1,
              CtrlDoubleClickOnCall(c, kind, back)
       PROVE  st'.logTimer = st.logTimer
  <2> DEFINE m == Shown(Stripped(kind), back)
             a == SetPeriod(st, 1 - m.par)
             s == IF c = a.hisCall /\ a.auto THEN a ELSE SaveMessage(a, c, m)
  <2>1. kind \in Kinds BY HeardAssumption
  <2>2. Stripped(kind) \in Kinds BY <1>1, <2>1, ShownType
  <2>3. m \in AnyMessage BY <1>1, <2>2, ShownType
  <2>4. Command("ctrlclick", s) BY <1>10 DEF CtrlDoubleClickOnCall
  <2> HIDE DEF m
  <2>5. 1 - m.par \in 0..1 BY <2>3 DEF AnyMessage, Messages, NoMsg
  <2>6. a \in Coherent /\ a.logTimer = st.logTimer
    BY <1>1, <2>5, SetPeriodCoherent, MembersKeep DEF Kept
  <2> HIDE DEF a
  <2>7. s \in Coherent /\ s.logTimer = a.logTimer
    BY <2>3, <2>6, SaveMessageCoherent, MembersKeep DEF Coherent, Kept
  <2> HIDE DEF s
  <2> QED BY <1>2, <2>4, <2>6, <2>7 DEF Coherent
<1>11. ASSUME NEW n \in Limits \cup {0}, TxRepeatChanged(n)
       PROVE  st'.logTimer = st.logTimer
  <2> DEFINE a == [st EXCEPT !.limit = n]
             s == IF n = 0 THEN ClearFailCount(a, a.callInProg) ELSE a
  <2>1. Command("limit", s) BY <1>1, <1>11 DEF TxRepeatChanged, State
  <2>2. a \in Coherent /\ a.logTimer = st.logTimer
    BY <1>1, UpdateCoherent DEF State
  <2> HIDE DEF a
  <2>3. s \in Coherent /\ s.logTimer = a.logTimer
    BY <2>2, FailCountCoherent, CommandsKeepTimer DEF Coherent
  <2> HIDE DEF s
  <2> QED BY <1>2, <2>1, <2>2, <2>3 DEF Coherent
<1>12. ASSUME TxFirstChanged PROVE st'.logTimer = st.logTimer
  <2>1. 1 - st.txPar \in 0..1 BY <1>1 DEF State
  <2>2. SetPeriod(st, 1 - st.txPar) \in State BY <1>1, <2>1, SetPeriodCoherent DEF Coherent
  <2>3. SetPeriod(st, 1 - st.txPar).logTimer = st.logTimer BY <1>1, MembersKeep DEF Kept
  <2> QED BY <1>2, <1>12, <2>2, <2>3 DEF TxFirstChanged
<1>13. ASSUME BandChanged PROVE st'.logTimer = st.logTimer
  <2> DEFINE a == ClearAllCallInfo(StopTxButton(st))
             b == [a EXCEPT !.logBook = {}]
  <2>1. a \in State
    BY <1>1, StopTxButtonCoherent, ClearAllCallInfoCoherent DEF Coherent
  <2>2. Command("band", b) BY <1>13 DEF BandChanged
  <2>3. {} \in SUBSET (Calls \cup {NoCall}) OBVIOUS
  <2>4. b.logTimer = st.logTimer BY <1>1, CommandsKeepTimer
  <2> HIDE DEF a
  <2>5. b \in State BY <2>1, <2>3, UpdateType
  <2> QED BY <1>2, <2>2, <2>4, <2>5
<1>14. ASSUME LogQSOButton PROVE st'.logTimer = st.logTimer
  <2>1. LogHisCall(st) \in State BY <1>1, LogHisCallCoherent DEF Coherent
  <2>2. LogHisCall(st).logTimer = st.logTimer BY <1>1, SelectLogMethodLogs
  <2> QED BY <1>2, <1>14, <2>1, <2>2 DEF LogQSOButton
<1> QED
  BY <1>5, <1>6, <1>7, <1>8, <1>9, <1>10, <1>11, <1>12, <1>13, <1>14 DEF Person

\* With automatic logging, whatever slot notices the end of a contact and whoever
\* is called by then, the program logs only contacts in which a report was sent
\* and one received, for any number of stations and any other settings.
THEOREM AutoLogsExchanged == ASSUME AutoLog PROVE Spec => LoggedWhenExchanged
<1> DEFINE Off  == ~st.logTimer
           Earned == \A c \in st'.loggedCalls \ st.loggedCalls :
                       Exchanged(st, c) \/ ByCommand \/ st.logDlg # Hidden
<1>1. Init => Off BY DEF Init
<1>2. ASSUME IInv, Off, [Next]_vars PROVE Off' /\ [Earned]_vars
  <2>1. CASE UNCHANGED vars BY <1>2, <2>1 DEF vars
  <2>2. CASE Person BY <1>2, <2>2, PersonKeepsTimer, PersonCommands
  <2>3. CASE Clock \/ Watchdog \/ Decoder \/ LogDialog
    BY <1>2, <2>3, ProgramLogsExchanged
  <2> QED BY <1>2, <2>1, <2>2, <2>3 DEF Next
<1>3. Spec => Init /\ [][Next]_vars BY DEF Spec
<1> QED BY <1>1, <1>2, <1>3, Invariance, PTL DEF LoggedWhenExchanged
-----------------------------------------------------------------------------
(* Repeats: the observer's count and the program's own count of one message. *)

\* The mode stays, and in CQ mode also the count of repeats and its message.
SameRun(s, t) ==
  /\ t.mode = s.mode
  /\ s.mode = "cq" => t.dupTxCount = s.dupTxCount /\ t.msgAtEndTx = s.msgAtEndTx

\* The contact of s has ended in t, as Over has it for a step.
Ended(s, t) == \/ t.loggedCalls # s.loggedCalls \/ t.callInProg # s.callInProg
               \/ Calling(t) \/ ~t.auto

\* Choosing whom to call counts no repeat; tx_watchdog does.
LEMMA MembersCount ==
  ASSUME NEW s \in State
  PROVE  /\ \A c : SameRun(s, SetCallInProg(s, c))
         /\ \A c : SameRun(s, RemoveMessage(s, c))
         /\ \A c, m : SameRun(s, SaveMessage(s, c, m))
         /\ \A par : SameRun(s, SetPeriod(s, par))
         /\ SameRun(s, SetToCq(s))
         /\ SameRun(s, ClearDX(s))
         /\ \A c : SameRun(s, IncrFailCount(s, c))
         /\ ResetWatchdog(s).mode = s.mode
<1>1. \A c : SameRun(s, SetCallInProg(s, c)) BY DEF SetCallInProg, SameRun, State
<1>2. \A c : SameRun(s, RemoveMessage(s, c)) BY DEF RemoveMessage, SameRun, State
<1>3. \A c, m : SameRun(s, SaveMessage(s, c, m)) BY DEF SaveMessage, SameRun, State
<1>4. \A par : SameRun(s, SetPeriod(s, par))
  BY DEF SetPeriod, RemoveCallsByPeriod, SetCallInProg, SameRun, State
<1>5. SameRun(s, SetToCq(s)) BY DEF SetToCq, SetCallInProg, SameRun, State
<1>6. SameRun(s, ClearDX(s)) BY DEF ClearDX, SetCallInProg, SameRun, State
<1>7. \A c : SameRun(s, IncrFailCount(s, c)) BY DEF IncrFailCount, SameRun, State
<1>8. ResetWatchdog(s).mode = s.mode BY DEF ResetWatchdog, State
<1> QED BY <1>1, <1>2, <1>3, <1>4, <1>5, <1>6, <1>7, <1>8

\* Answering a message puts its sender in progress, and only in listen mode may
\* it start the count anew.
LEMMA ProcessMessageCounts ==
  ASSUME NEW s \in Coherent, NEW c \in Calls, NEW m \in AnyMessage
  PROVE  /\ SameRun(s, ProcessMessage(s, c, m))
         /\ ProcessMessage(s, c, m).callInProg = c
<1> DEFINE a == SetPeriod(s, 1 - m.par)
           b == IF s.mode = "listen" /\ Wanted(m) THEN ResetWatchdog(a) ELSE a
           e == [b EXCEPT !.ntx = Answer(m), !.hisCall = c]
           d == SetCallInProg(e, c)
           f == [d EXCEPT !.restart = @ \/ Transmitting(d),
                          !.tx      = IF @ = "on" THEN "late" ELSE @,
                          !.auto    = @ \/ QuickCall]
<1>1. 1 - m.par \in 0..1 BY DEF AnyMessage, Messages, NoMsg
<1>2. s \in State BY DEF Coherent
<1>3. a \in Coherent /\ SameRun(s, a) BY <1>1, <1>2, SetPeriodCoherent, MembersCount
<1>4. ProcessMessage(s, c, m) = f BY DEF ProcessMessage
<1> HIDE DEF a
<1>5. b \in State /\ SameRun(s, b)
  BY <1>3, ResetWatchdogCoherent, MembersCount DEF SameRun, Coherent
<1> HIDE DEF b
<1>6. SameRun(b, f) /\ f.callInProg = c BY <1>5 DEF SameRun, SetCallInProg, State
<1> QED BY <1>4, <1>5, <1>6 DEF SameRun

\* Giving up a contact in CQ mode ends it: Tx is off, CQ is called, or another
\* station is.
LEMMA TxWatchdogEnds ==
  ASSUME NEW s \in Coherent
  PROVE  /\ TxWatchdog(s).mode = s.mode
         /\ s.mode = "cq" => \/ ~TxWatchdog(s).auto
                             \/ Calling(TxWatchdog(s))
                             \/ TxWatchdog(s).callInProg \in Calls \ {s.hisCall}
<1> DEFINE a == RemoveMessage(s, s.hisCall)
           off(t) == [t EXCEPT !.auto = FALSE]
           w == IF ~s.auto \/ ~AnyAuto(s) THEN off(s)
                ELSE IF Queued(a) # {}    THEN ProcessNext(a)
                ELSE IF s.mode = "listen" THEN off(a)
                ELSE SetToCq(a)
           Good(t) == /\ t.mode = s.mode
                      /\ s.mode = "cq" => \/ ~t.auto \/ Calling(t)
                                          \/ t.callInProg \in Calls \ {s.hisCall}
<1>1. s \in State /\ FALSE \in BOOLEAN BY DEF Coherent
<1>2. a \in Coherent /\ a \in State /\ a.mode = s.mode
  BY <1>1, RemoveMessageCoherent, MembersCount DEF SameRun, Coherent
<1>3. Queued(a) \subseteq Calls \ {s.hisCall}
  BY <1>1 DEF Queued, RemoveMessage, State
<1>4. TxWatchdog(s) = ResetWatchdog(w) BY DEF TxWatchdog
<1> HIDE DEF a
<1>5. ASSUME NEW t \in State, t.mode = s.mode PROVE off(t) \in State /\ Good(off(t))
  <2>1. off(t) \in State BY <1>1, UpdateType
  <2> QED BY <1>5, <2>1 DEF State
<1>6. Queued(a) # {} => ProcessNext(a) \in State /\ Good(ProcessNext(a))
  <2> SUFFICES ASSUME Queued(a) # {} PROVE ProcessNext(a) \in State /\ Good(ProcessNext(a))
    OBVIOUS
  <2> DEFINE c == PeekMessage(a)
  <2>1. c \in Queued(a) BY <1>2, PeekMessageQueued
  <2>2. c \in Calls \ {s.hisCall} BY <1>3, <2>1
  <2>3. a.msgMap[c] \in AnyMessage BY <1>2, <2>2 DEF State
  <2>4. ResetWatchdog(a) \in Coherent /\ ResetWatchdog(a).mode = s.mode
    BY <1>2, ResetWatchdogCoherent, MembersCount
  <2>5. ProcessNext(a) = ProcessMessage(ResetWatchdog(a), c, a.msgMap[c]) BY DEF ProcessNext
  <2>6. ProcessNext(a) \in State BY <1>2, ProcessNextCoherent DEF Coherent
  <2> HIDE DEF c
  <2>7. ProcessNext(a).mode = s.mode /\ ProcessNext(a).callInProg = c
    BY <2>2, <2>3, <2>4, <2>5, ProcessMessageCounts DEF SameRun
  <2> QED BY <2>2, <2>6, <2>7
<1>7. SetToCq(a) \in State /\ Good(SetToCq(a))
  <2>1. SetToCq(a) \in State /\ SetToCq(a).mode = s.mode
    BY <1>2, SetToCqCoherent, MembersCount DEF SameRun, Coherent
  <2>2. Calling(SetToCq(a)) BY <1>2 DEF SetToCq, SetCallInProg, Calling, State
  <2> QED BY <2>1, <2>2
<1> HIDE DEF off
<1>8. w \in State /\ Good(w) BY <1>1, <1>2, <1>5, <1>6, <1>7
<1> HIDE DEF w
<1>9. Good(ResetWatchdog(w)) BY <1>8 DEF ResetWatchdog, Calling, State
<1> QED BY <1>4, <1>9

\* The call accepted in the dialog is logged.
LEMMA AcceptLogs ==
  ASSUME NEW s \in Coherent, NEW c \in Calls \cup {NoCall}
  PROVE  AcceptQSO(s, c).mode = s.mode /\ c \in AcceptQSO(s, c).loggedCalls
<1> DEFINE a == [s EXCEPT !.logBook = @ \cup {s.hisCall}]
           b == IF ClearDXOption THEN ClearDX(a) ELSE a
<1>0. s \in State BY DEF Coherent
<1>1. s.logBook \cup {s.hisCall} \in SUBSET (Calls \cup {NoCall}) BY <1>0 DEF State
<1>2. a \in Coherent /\ a.mode = s.mode BY <1>0, <1>1, UpdateCoherent DEF State
<1> HIDE DEF a
<1>3. b \in State /\ b.mode = s.mode
  BY <1>2, ClearDXCoherent, MembersCount DEF SameRun, Coherent
<1> HIDE DEF b
<1>4. PostLog(b, c).mode = b.mode /\ c \in PostLog(b, c).loggedCalls
  BY <1>3 DEF PostLog, SetCallInProg, RemoveMessage, State
<1> QED BY <1>3, <1>4 DEF AcceptQSO, a, b

\* Logging adds the call to those logged, or changes neither contact nor count.
LEMMA LoggingCounts ==
  ASSUME NEW s \in Coherent, NEW c \in Calls \cup {NoCall}
  PROVE  /\ InitLogQSO(s, c).mode = s.mode
         /\ \/ c \in InitLogQSO(s, c).loggedCalls
            \/ /\ SameRun(s, InitLogQSO(s, c)) /\ Kept(s, InitLogQSO(s, c))
               /\ InitLogQSO(s, c).callInProg = s.callInProg
               /\ InitLogQSO(s, c).hisCall = s.hisCall
<1>1. s \in State BY DEF Coherent
<1>2. AcceptQSO(s, c).mode = s.mode /\ c \in AcceptQSO(s, c).loggedCalls
  BY AcceptLogs
<1>3. ASSUME NEW t, t = s \/ t = [s EXCEPT !.logDlg = c]
      PROVE  SameRun(s, t) /\ Kept(s, t) /\ t.callInProg = s.callInProg /\ t.hisCall = s.hisCall
  BY <1>1, <1>3 DEF SameRun, Kept, State
<1>4. InitLogQSO(s, c) \in {s, AcceptQSO(s, c), [s EXCEPT !.logDlg = c]} BY DEF InitLogQSO
<1> QED BY <1>2, <1>3, <1>4 DEF SameRun

\* A decoded line leaves the count of CQ mode as it is, or ends the contact.
LEMMA DecodeCounts ==
  ASSUME NEW s \in Coherent, NEW c \in Calls, NEW m \in AnyMessage, NEW early
  PROVE  LET t == Decode(s, c, m, early)
         IN /\ t.mode = s.mode
            /\ SameRun(s, t) \/ (s.mode = "cq" => Ended(s, t))
<1> DEFINE r == RecordReport(s, c, m)
           l == IF NewlyLogged(r, c, m) THEN LogDecode(r, c) ELSE r
           Good(t) == t.mode = s.mode /\ (SameRun(s, t) \/ (s.mode = "cq" => Ended(s, t)))
<1>1. s \in State /\ Linked(s) BY DEF Coherent
<1>2. /\ r \in Coherent /\ r \in State /\ Kept(s, r) /\ SameRun(s, r)
      /\ r.callInProg = s.callInProg /\ r.hisCall = s.hisCall
  <2>1. Kept(s, r) /\ SameRun(s, r) /\ r.callInProg = s.callInProg /\ r.hisCall = s.hisCall
    BY <1>1 DEF RecordReport, Kept, SameRun, State
  <2> QED BY <2>1, RecordReportCoherent DEF Coherent
<1>3. l \in Coherent /\ l \in State BY <1>2, LogDecodeCoherent DEF Coherent
<1>4. /\ l.mode = s.mode
      /\ \/ l.loggedCalls # s.loggedCalls
         \/ SameRun(s, l) /\ l.callInProg = s.callInProg /\ l.hisCall = s.hisCall
  <2>1. CASE NewlyLogged(r, c, m)
    <3> HIDE DEF r
    <3>1. c \notin s.loggedCalls BY <1>2, <2>1 DEF NewlyLogged, Kept
    <3>2. r.hisCall \in Calls \cup {NoCall} /\ c \in Calls \cup {NoCall} BY <1>2 DEF State
    <3>3. c \in {r.callInProg, r.hisCall} => c = r.hisCall
      BY <1>1, <1>2 DEF Linked, Calls, NoCall
    <3>4. CASE l = InitLogQSO(r, c)
      BY <1>2, <3>1, <3>2, <3>4, LoggingCounts DEF SameRun
    <3>5. CASE l = [r EXCEPT !.logTimer = TRUE] BY <1>2, <3>5 DEF SameRun, State
    <3>6. l = InitLogQSO(r, c) \/ l = [r EXCEPT !.logTimer = TRUE]
      BY <2>1, <3>3 DEF LogDecode, SelectLogMethod, LogHisCall
    <3> QED BY <3>4, <3>5, <3>6
  <2>2. CASE ~NewlyLogged(r, c, m) BY <1>2, <2>2 DEF SameRun
  <2> QED BY <2>1, <2>2
<1>5. \E held, inTime :
        Decode(s, c, m, early) \in
          {l, EndQso(l, c, m, held), Respond(l, c, m, held, inTime), SaveMessage(l, c, m)}
  BY DEF Decode
<1> HIDE DEF l, r
<1>6. ASSUME NEW t, Kept(l, t), SameRun(l, t) PROVE Good(t)
  BY <1>4, <1>6 DEF Kept, SameRun, Ended
<1>7. Good(l) /\ Good(SaveMessage(l, c, m))
  <2>1. Kept(l, l) /\ SameRun(l, l) BY DEF Kept, SameRun
  <2>2. Kept(l, SaveMessage(l, c, m)) /\ SameRun(l, SaveMessage(l, c, m))
    BY <1>3, MembersKeep, MembersCount
  <2> QED BY <1>6, <2>1, <2>2
<1>8. ASSUME NEW held, NEW inTime PROVE Good(Respond(l, c, m, held, inTime))
  <2> DEFINE n == DecodeInSequence(l, c, m)
             q == IF AnyAuto(l) THEN SaveMessage(l, c, n) ELSE l
  <2>1. n \in AnyMessage BY <1>3 DEF DecodeInSequence, State
  <2> HIDE DEF n
  <2>2. q \in Coherent /\ SameRun(l, q)
    BY <1>3, <2>1, SaveMessageCoherent, MembersCount DEF SameRun
  <2> HIDE DEF q
  <2>3. SameRun(q, ProcessMessage(q, c, n)) BY <2>1, <2>2, ProcessMessageCounts
  <2>4. Respond(l, c, m, held, inTime) \in {q, ProcessMessage(q, c, n)}
    BY DEF Respond, q, n
  <2>5. SameRun(l, Respond(l, c, m, held, inTime)) BY <2>2, <2>3, <2>4 DEF SameRun
  <2>6. Kept(l, Respond(l, c, m, held, inTime)) BY <1>3, AnsweringKeeps
  <2> QED BY <1>6, <2>5, <2>6
<1>9. ASSUME NEW held PROVE Good(EndQso(l, c, m, held))
  <2> DEFINE w  == TxWatchdog(l)
             cq == [SetToCq(l) EXCEPT !.auto = FALSE]
  <2>1. EndQso(l, c, m, held) \in {w, l, ProcessMessage(l, c, m), cq} BY DEF EndQso
  <2>2. Good(w)
    <3>1. /\ w.mode = l.mode
          /\ l.mode = "cq" => ~w.auto \/ Calling(w) \/ w.callInProg \in Calls \ {l.hisCall}
          /\ Kept(l, w)
      BY <1>3, TxWatchdogEnds, NextCallKeeps
    <3> HIDE DEF w
    <3>2. s.callInProg \in {NoCall, s.hisCall} BY <1>1 DEF Linked
    <3>3. NoCall \notin Calls BY DEF Calls, NoCall
    <3> QED BY <1>4, <3>1, <3>2, <3>3 DEF Ended, Kept
  <2>3. Good(cq)
    <3>1. SetToCq(l) \in State /\ SameRun(l, SetToCq(l))
      BY <1>3, SetToCqCoherent, MembersCount DEF Coherent
    <3>2. cq.mode = s.mode /\ ~cq.auto BY <1>4, <3>1 DEF SameRun, State
    <3> QED BY <3>2 DEF Ended
  <2>4. Good(ProcessMessage(l, c, m))
    BY <1>3, <1>6, ProcessMessageKeeps, ProcessMessageCounts
  <2> QED BY <1>7, <2>1, <2>2, <2>3, <2>4
<1> QED BY <1>5, <1>7, <1>8, <1>9

\* The start of the decoder belongs to listen mode.
LEMMA SlotCounts ==
  ASSUME NEW s \in Coherent, NEW cleanup
  PROVE  SameRun(s, AgeAll(s)) /\ SameRun(s, DecodeBusy(s, cleanup))
<1> DEFINE a == IF cleanup THEN CheckExpiredCallInfo(s) ELSE s
<1>1. s \in State BY DEF Coherent
<1>2. SameRun(s, AgeAll(s)) BY <1>1 DEF AgeAll, SameRun, State
<1>3. a \in Coherent /\ SameRun(s, a)
  BY <1>1, CheckExpiredCallInfoCoherent DEF CheckExpiredCallInfo, SameRun, State
<1> HIDE DEF a
<1>4. CASE a.mode # "listen" BY <1>2, <1>3, <1>4 DEF DecodeBusy, a
<1>5. CASE a.mode = "listen"
  <2>1. a \in State BY <1>3 DEF Coherent
  <2>2. TxWatchdog(a).mode = a.mode BY <1>3, TxWatchdogEnds
  <2>3. Queued(a) # {} => ProcessNext(a).mode = a.mode
    <3> SUFFICES ASSUME Queued(a) # {} PROVE ProcessNext(a).mode = a.mode OBVIOUS
    <3> DEFINE c == PeekMessage(a)
    <3>1. c \in Calls BY <2>1, PeekMessageQueued DEF Queued
    <3>2. a.msgMap[c] \in AnyMessage BY <2>1, <3>1 DEF State
    <3>3. ResetWatchdog(a) \in Coherent /\ ResetWatchdog(a).mode = a.mode
      BY <1>3, <2>1, ResetWatchdogCoherent, MembersCount
    <3> QED BY <3>1, <3>2, <3>3, ProcessMessageCounts DEF ProcessNext, SameRun
  <2>4. DecodeBusy(s, cleanup).mode = a.mode
    BY <2>2, <2>3 DEF DecodeBusy, a
  <2> QED BY <1>2, <1>3, <1>5, <2>4 DEF SameRun
<1> QED BY <1>4, <1>5

\* Both limits leave room for one transmission.
LEMMA MaxRepeatType ==
  ASSUME NEW s \in State
  PROVE  MaxRepeat(s) \in 1..HoldRepeat /\ HoldRepeat \in Nat /\ HoldRepeat >= 2
<1>1. s.limit \in Limits \cup {0} BY DEF State
<1>2. \A x \in Limits : x \in 1..HoldRepeat BY LimitAssumption
<1>3. HoldRepeat \in Nat /\ HoldRepeat >= 2 BY LimitAssumption
<1> QED BY <1>1, <1>2, <1>3 DEF MaxRepeat

\* The contact is given up: Tx is off, CQ is called or another station is.
LEMMA TimeOutEnds ==
  ASSUME NEW s \in Coherent
  PROVE  /\ TimeOut(s).mode = s.mode
         /\ s.mode = "cq" => Ended(s, TimeOut(s))
<1> DEFINE a == SetCallInProg(s, NoCall)
           b == IF a.limit # 0 THEN IncrFailCount(a, s.hisCall) ELSE a
           w == TxWatchdog(b)
<1>1. s \in State /\ Linked(s) BY DEF Coherent
<1>2. a \in Coherent /\ SameRun(s, a) /\ a.hisCall = s.hisCall
  BY <1>1, ClearCallCoherent, MembersCount DEF SetCallInProg, State
<1> HIDE DEF a
<1>3. a \in State BY <1>2 DEF Coherent
<1>4. b \in Coherent /\ SameRun(s, b) /\ b.hisCall = s.hisCall
  <2>1. IncrFailCount(a, s.hisCall) \in Coherent BY <1>2, FailCountCoherent
  <2>2. SameRun(a, IncrFailCount(a, s.hisCall)) BY <1>3, MembersCount
  <2>3. IncrFailCount(a, s.hisCall).hisCall = a.hisCall
    BY <1>3 DEF IncrFailCount, State
  <2> QED BY <1>2, <2>1, <2>2, <2>3 DEF SameRun
<1>5. TimeOut(s) = [w EXCEPT !.msgAtEndTx = NoSent] BY DEF TimeOut, a, b
<1> HIDE DEF b
<1>6. /\ w.mode = s.mode
      /\ s.mode = "cq" => ~w.auto \/ Calling(w) \/ w.callInProg \in Calls \ {s.hisCall}
  BY <1>4, TxWatchdogEnds DEF SameRun
<1>7. w \in State BY <1>4, TxWatchdogCoherent DEF Coherent
<1> HIDE DEF w
<1>8. /\ TimeOut(s).mode = w.mode /\ TimeOut(s).auto = w.auto
      /\ TimeOut(s).ntx = w.ntx /\ TimeOut(s).callInProg = w.callInProg
  BY <1>5, <1>7 DEF State
<1>9. s.callInProg \in {NoCall, s.hisCall} /\ NoCall \notin Calls
  BY <1>1 DEF Linked, Calls, NoCall
<1> QED BY <1>6, <1>8, <1>9 DEF Ended, Calling

\* One more transmission of a contact in CQ mode: the contact ends, or it is a
\* new message and the limit allows more than one, or it is counted and the
\* limit is not reached.
LEMMA StopTxCounts ==
  ASSUME NEW s \in Coherent, ~s.restart, NEW short
  PROVE  LET t == StopTx(s, short)
         IN /\ t.mode = s.mode
            /\ s.mode = "cq" /\ s.cur.k # 6 /\ ~Ended(s, t) =>
                 \/ short /\ SameRun(s, t)
                 \/ /\ s.limit > 1 /\ s.cur # s.msgAtEndTx
                    /\ t.dupTxCount = 0 /\ t.msgAtEndTx = s.cur
                 \/ /\ s.dupTxCount + 2 < MaxRepeat(s)
                    /\ t.dupTxCount = s.dupTxCount + 1 /\ t.msgAtEndTx = s.cur
<1> DEFINE ph == IF s.tx = "cut" /\ short THEN "cut" ELSE "sent"
           a  == [s EXCEPT !.tx = "off", !.phase = ph]
           r  == RecordSent(a)
           e  == IF EarlyLog /\ AnyAuto(r) /\ r.cur.k = 4 /\ Loggable(r)
                   THEN LogHisCall(r) ELSE r
           x  == IF Loggable(r) THEN SelectLogMethod(r) ELSE r
           Good(t) == /\ t.mode = s.mode
                      /\ s.mode = "cq" /\ s.cur.k # 6 /\ ~Ended(s, t) =>
                           \/ short /\ SameRun(s, t)
                           \/ /\ s.limit > 1 /\ s.cur # s.msgAtEndTx
                              /\ t.dupTxCount = 0 /\ t.msgAtEndTx = s.cur
                           \/ /\ s.dupTxCount + 2 < MaxRepeat(s)
                              /\ t.dupTxCount = s.dupTxCount + 1 /\ t.msgAtEndTx = s.cur
<1>1. s \in State /\ Linked(s) BY DEF Coherent
<1>2. ph \in {"due", "early", "sent", "cut", "over"} /\ "off" \in TxStates
  BY DEF TxStates
<1> HIDE DEF ph
<1>3. a \in State BY <1>1, <1>2, UpdateType
<1>4. Linked(a) BY <1>1 DEF Linked, State
<1>5. a \in Coherent BY <1>3, <1>4 DEF Coherent
<1>6. /\ Kept(s, a) /\ SameRun(s, a) /\ a.cur = s.cur /\ a.limit = s.limit
      /\ a.callInProg = s.callInProg /\ a.hisCall = s.hisCall
      /\ a.dupTxCount = s.dupTxCount /\ a.msgAtEndTx = s.msgAtEndTx
  BY <1>1 DEF Kept, SameRun, State
<1> HIDE DEF a
<1>7. r \in Coherent /\ r \in State BY <1>5, RecordSentCoherent DEF Coherent
<1>8. /\ Kept(s, r) /\ SameRun(s, r) /\ r.cur = s.cur /\ r.limit = s.limit
      /\ r.callInProg = s.callInProg /\ r.hisCall = s.hisCall
      /\ r.dupTxCount = s.dupTxCount /\ r.msgAtEndTx = s.msgAtEndTx
  BY <1>3, <1>6 DEF RecordSent, Kept, SameRun, State
<1>9. s.callInProg \in {NoCall, s.hisCall} /\ NoCall \notin Calls
  BY <1>1 DEF Linked, Calls, NoCall
<1>10. StopTx(s, short) = IF short            THEN r
                          ELSE IF Ends73(r)   THEN SignOff(r)
                          ELSE IF r.cur.k = 6 THEN [r EXCEPT !.dupTxCount = 0, !.msgAtEndTx = NoSent]
                          ELSE CountRepeat(e)
  BY DEF StopTx, e, r, a, ph
<1>11. r.hisCall \in Calls \cup {NoCall} BY <1>7 DEF State
<1> HIDE DEF r
<1>12. e \in Coherent /\ e.mode = s.mode /\ (e = r \/ e.loggedCalls # s.loggedCalls)
  <2>1. e \in Coherent BY <1>7, LogHisCallCoherent
  <2>2. CASE e = r BY <1>8, <2>1, <2>2 DEF SameRun
  <2>3. CASE e # r
    <3>1. e = InitLogQSO(r, r.hisCall) /\ AnyAuto(r) /\ Loggable(r)
      BY <2>3 DEF LogHisCall
    <3>2. e = AcceptQSO(r, r.hisCall) \/ e = r BY <3>1 DEF InitLogQSO
    <3>3. r.hisCall \notin s.loggedCalls BY <1>8, <3>1 DEF Loggable, Kept
    <3> HIDE DEF e
    <3>4. e.mode = r.mode
          /\ (r.hisCall \in e.loggedCalls \/ (SameRun(r, e) /\ Kept(r, e)))
      <4> DEFINE u == InitLogQSO(r, r.hisCall)
      <4>1. u.mode = r.mode /\ (r.hisCall \in u.loggedCalls \/ (SameRun(r, u) /\ Kept(r, u)))
        BY <1>7, <1>11, LoggingCounts
      <4> QED BY <3>1, <4>1
    <3>5. r.hisCall \in e.loggedCalls
      <4>1. InitLogQSO(r, r.hisCall) = AcceptQSO(r, r.hisCall) BY <2>3, <3>1, <3>2
      <4> QED BY <1>7, <1>11, <2>3, <3>1, <3>2, AcceptLogs
    <3> QED BY <1>8, <2>1, <3>3, <3>4, <3>5 DEF SameRun
  <2> QED BY <2>2, <2>3
<1>13. Good(r) \/ ~short BY <1>8 DEF SameRun
<1>14. ASSUME Ends73(r) PROVE Good(SignOff(r))
  <2> DEFINE w == TxWatchdog(x)
  <2>1. x \in Coherent BY <1>7, SelectLogMethodCoherent
  <2>2. /\ x.mode = s.mode
        /\ \/ x.loggedCalls # s.loggedCalls
           \/ Kept(r, x) /\ x.callInProg = r.callInProg /\ x.hisCall = r.hisCall
           \/ s.mode # "cq"
    <3>1. CASE ~Loggable(r) BY <1>8, <3>1 DEF SameRun, Kept
    <3>2. CASE Loggable(r)
      <4>1. r.hisCall \notin s.loggedCalls BY <1>8, <3>2 DEF Loggable, Kept
      <4>2. [r EXCEPT !.logTimer = TRUE].mode = r.mode BY <1>7 DEF State
      <4>3. \/ x = InitLogQSO(r, r.hisCall)
            \/ x = [r EXCEPT !.logTimer = TRUE] /\ ~AnyAuto(r)
        <5>1. x = SelectLogMethod(r) BY <3>2
        <5> HIDE DEF x
        <5> QED BY <5>1 DEF SelectLogMethod, LogHisCall
      <4>4. x = InitLogQSO(r, r.hisCall) =>
              /\ x.mode = r.mode
              /\ \/ r.hisCall \in x.loggedCalls
                 \/ Kept(r, x) /\ x.callInProg = r.callInProg /\ x.hisCall = r.hisCall
        BY <1>7, <1>11, LoggingCounts
      <4> QED BY <1>8, <4>1, <4>2, <4>3, <4>4 DEF SameRun, AnyAuto
    <3> QED BY <3>1, <3>2
  <2>3. SignOff(r) = IF AnyAuto(w) THEN w ELSE SetToCq(w) BY DEF SignOff
  <2> HIDE DEF x
  <2>4. /\ w.mode = x.mode /\ w \in State /\ Kept(x, w)
        /\ x.mode = "cq" => ~w.auto \/ Calling(w) \/ w.callInProg \in Calls \ {x.hisCall}
    BY <2>1, TxWatchdogEnds, NextCallKeeps, TxWatchdogCoherent DEF Coherent
  <2> HIDE DEF w
  <2>5. SetToCq(w).mode = w.mode BY <2>4, MembersCount DEF SameRun
  <2>6. s.mode = "cq" => Ended(s, w)
    BY <1>8, <1>9, <2>2, <2>4 DEF Ended, Kept
  <2>7. s.mode = "cq" => SignOff(r) = w BY <2>2, <2>3, <2>4 DEF AnyAuto
  <2>8. SignOff(r).mode = s.mode BY <2>2, <2>3, <2>4, <2>5
  <2> QED BY <2>6, <2>7, <2>8
<1>15. ASSUME r.cur.k = 6 PROVE Good([r EXCEPT !.dupTxCount = 0, !.msgAtEndTx = NoSent])
  BY <1>7, <1>8, <1>15 DEF SameRun, State
<1>16. Good(CountRepeat(e))
  <2>1. e \in State BY <1>12 DEF Coherent
  <2>2. TimeOut(e).mode = e.mode /\ (e.mode = "cq" => Ended(e, TimeOut(e)))
    BY <1>12, TimeOutEnds
  <2>3. Kept(e, CountRepeat(e)) BY <1>12, CountRepeatKeeps
  <2>4. CASE e.loggedCalls # s.loggedCalls
    <3>1. CountRepeat(e).mode = e.mode
      BY <2>1, <2>2 DEF CountRepeat, State
    <3> QED BY <1>12, <2>3, <2>4, <3>1 DEF Kept, Ended
  <2>5. CASE e = r
    <3> HIDE DEF e
    <3>1. MaxRepeat(r) = MaxRepeat(s) BY <1>8 DEF MaxRepeat
    <3>2. MaxRepeat(r) \in Nat /\ r.dupTxCount \in Nat
      BY <1>7, MaxRepeatType DEF State, Repeats
    <3>3. CASE r.limit > 1 /\ r.cur # r.msgAtEndTx
      <4>1. CountRepeat(e) = [r EXCEPT !.dupTxCount = 0, !.msgAtEndTx = r.cur]
        BY <2>5, <3>3 DEF CountRepeat
      <4> QED BY <1>7, <1>8, <3>3, <4>1 DEF State, SameRun
    <3>4. CASE ~(r.limit > 1 /\ r.cur # r.msgAtEndTx) /\ r.dupTxCount + 1 + 1 >= MaxRepeat(r)
      <4>1. CountRepeat(e) = TimeOut(r) BY <2>5, <3>4 DEF CountRepeat
      <4> QED BY <1>8, <2>2, <2>5, <4>1 DEF Ended, SameRun, Kept
    <3>5. CASE ~(r.limit > 1 /\ r.cur # r.msgAtEndTx) /\ ~(r.dupTxCount + 1 + 1 >= MaxRepeat(r))
      <4>1. CountRepeat(e) = [r EXCEPT !.dupTxCount = r.dupTxCount + 1, !.msgAtEndTx = r.cur]
        BY <2>5, <3>5 DEF CountRepeat
      <4>2. r.dupTxCount + 2 < MaxRepeat(r) BY <3>2, <3>5
      <4> QED BY <1>7, <1>8, <3>1, <4>1, <4>2 DEF State, SameRun
    <3> QED BY <3>3, <3>4, <3>5
  <2> QED BY <1>12, <2>4, <2>5
<1> HIDE DEF Good
<1>17. Good(StopTx(s, short)) BY <1>10, <1>13, <1>14, <1>15, <1>16
<1> QED BY <1>17 DEF Good

\* What the observer counts in CQ mode, the program counts too, short of the
\* first transmission of a message.
RunCounted ==
  st.mode = "cq" => \/ heldOn.n = 0
                    \/ heldOn.sent = st.msgAtEndTx /\ heldOn.n <= st.dupTxCount + 1

\* A step that counts stays below the limit.
StaysLimited == (st.mode = "cq" /\ heldOn' # heldOn) => heldOn'.n < MaxRepeat(st)

\* Settled calls a transmission off and touches nothing else.
LEMMA SettledCounts ==
  ASSUME NEW s \in State
  PROVE  SameRun(s, Settled(s)) /\ Settled(s).mode = s.mode
BY DEF Settled, SameRun, State

\* No run is shorter than any limit.
LEMMA NoRunCounted ==
  ASSUME IInv, heldOn' = NoRun
  PROVE  RunCounted' /\ StaysLimited
<1>1. st \in State BY IInvMeaning DEF Coherent
<1>2. MaxRepeat(st) \in 1..HoldRepeat /\ HoldRepeat \in Nat BY <1>1, MaxRepeatType
<1>3. heldOn'.n = 0 BY DEF NoRun
<1> QED BY <1>2, <1>3 DEF RunCounted, StaysLimited

\* A step of the program that keeps the program's count, or ends the contact.
LEMMA StepCounts ==
  ASSUME IInv, RunCounted, NEW s \in State, Step(s), s.mode = st.mode,
         SameRun(st, s) \/ (st.mode = "cq" => Ended(st, s))
  PROVE  RunCounted' /\ StaysLimited
<1>1. CASE heldOn' = NoRun BY <1>1, NoRunCounted
<1>2. CASE heldOn' # NoRun
  <2>1. heldOn' = heldOn /\ ~Over(s) BY <1>2 DEF Step
  <2>2. st.mode = "cq" => SameRun(st, s) BY <2>1 DEF Over, Ended
  <2>3. st' = Settled(s) BY DEF Step
  <2>4. st'.mode = st.mode
        /\ (st.mode = "cq" => st'.dupTxCount = st.dupTxCount /\ st'.msgAtEndTx = st.msgAtEndTx)
    BY <2>2, <2>3, SettledCounts DEF SameRun
  <2> QED BY <2>1, <2>4 DEF RunCounted, StaysLimited
<1> QED BY <1>1, <1>2

\* The end of a transmission.
LEMMA EndTxCounts ==
  ASSUME IInv, RunCounted, NEW short \in BOOLEAN, EndTx(short)
  PROVE  RunCounted' /\ StaysLimited
<1> DEFINE s == StopTx(st, short)
           n == IF heldOn.sent = st.cur THEN heldOn.n + 1 ELSE 1
           m == IF n > HoldRepeat THEN HoldRepeat ELSE n
<1>1. st \in Coherent /\ st \in State /\ heldOn \in Runs /\ ~st.restart
  BY IInvMeaning DEF Coherent, EndTx
<1>2. s \in State BY <1>1, StopTxCoherent DEF Coherent
<1>3. /\ s.mode = st.mode
      /\ st.mode = "cq" /\ st.cur.k # 6 /\ ~Ended(st, s) =>
           \/ short /\ SameRun(st, s)
           \/ /\ st.limit > 1 /\ st.cur # st.msgAtEndTx
              /\ s.dupTxCount = 0 /\ s.msgAtEndTx = st.cur
           \/ /\ st.dupTxCount + 2 < MaxRepeat(st)
              /\ s.dupTxCount = st.dupTxCount + 1 /\ s.msgAtEndTx = st.cur
  BY <1>1, StopTxCounts
<1>4. /\ st' = Settled(s)
      /\ heldOn' = IF Over(s) \/ st.cur.k = 6 THEN NoRun
                   ELSE IF short THEN heldOn ELSE [sent |-> st.cur, n |-> m]
  BY DEF EndTx
<1> HIDE DEF s
<1>5. /\ st'.mode = st.mode
      /\ st.mode = "cq" => st'.dupTxCount = s.dupTxCount /\ st'.msgAtEndTx = s.msgAtEndTx
  BY <1>2, <1>3, <1>4, SettledCounts DEF SameRun
<1>6. CASE Over(s) \/ st.cur.k = 6 BY <1>4, <1>6, NoRunCounted
<1>7. CASE st.mode # "cq" BY <1>5, <1>7 DEF RunCounted, StaysLimited
<1>8. CASE ~(Over(s) \/ st.cur.k = 6) /\ st.mode = "cq"
  <2>1. ~Ended(st, s) BY <1>8 DEF Over, Ended
  <2>2. /\ heldOn.n \in 0..HoldRepeat /\ HoldRepeat \in Nat /\ HoldRepeat >= 2
        /\ st.dupTxCount \in Nat /\ st.limit \in Nat
        /\ MaxRepeat(st) \in 1..HoldRepeat
    <3>1. st.limit \in Limits \cup {0} BY <1>1 DEF State
    <3>2. \A x \in Limits : x \in Nat BY LimitAssumption
    <3> QED BY <1>1, <3>1, <3>2, MaxRepeatType DEF Runs, Repeats, State
  <2>3. heldOn.n = 0 \/ (heldOn.sent = st.msgAtEndTx /\ heldOn.n <= st.dupTxCount + 1)
    BY <1>8 DEF RunCounted
  <2>4. CASE short
    <3>1. heldOn' = heldOn BY <1>4, <1>8, <2>4
    <3>2. CASE SameRun(st, s)
      BY <1>5, <1>8, <2>3, <3>1, <3>2 DEF RunCounted, StaysLimited, SameRun
    <3>3. CASE ~SameRun(st, s)
      <4>1. StopTx(st, short) = RecordSent([st EXCEPT !.tx = "off",
                !.phase = IF st.tx = "cut" /\ short THEN "cut" ELSE "sent"])
        BY <2>4 DEF StopTx
      <4>2. SameRun(st, s) BY <1>1, <4>1 DEF s, RecordSent, SameRun, State
      <4> QED BY <3>3, <4>2
    <3> QED BY <3>2, <3>3
  <2>5. CASE ~short
    <3>1. heldOn' = [sent |-> st.cur, n |-> m] BY <1>4, <1>8, <2>5
    <3>2. heldOn'.sent = st.cur /\ heldOn'.n = m BY <3>1
    <3>3. CASE /\ st.limit > 1 /\ st.cur # st.msgAtEndTx
               /\ s.dupTxCount = 0 /\ s.msgAtEndTx = st.cur
      <4>1. m = 1 BY <2>2, <2>3, <3>3
      <4>2. 1 < MaxRepeat(st) BY <2>2, <3>3 DEF MaxRepeat
      <4> QED BY <1>5, <1>8, <3>2, <3>3, <4>1, <4>2 DEF RunCounted, StaysLimited
    <3>4. CASE /\ st.dupTxCount + 2 < MaxRepeat(st)
               /\ s.dupTxCount = st.dupTxCount + 1 /\ s.msgAtEndTx = st.cur
      <4>1. m \in Nat /\ m <= st.dupTxCount + 2 BY <2>2, <2>3
      <4>2. m < MaxRepeat(st) /\ m <= s.dupTxCount + 1 BY <2>2, <3>4, <4>1
      <4> QED BY <1>5, <1>8, <3>2, <3>4, <4>2 DEF RunCounted, StaysLimited
    <3> QED BY <1>3, <1>8, <2>1, <2>5, <3>3, <3>4
  <2> QED BY <2>4, <2>5
<1> QED BY <1>6, <1>7, <1>8

\* Every step keeps the two counts together and the observer's below the limit.
LEMMA NextCounts ==
  ASSUME IInv, RunCounted, [Next]_vars
  PROVE  RunCounted' /\ [StaysLimited]_vars
<1>1. st \in Coherent /\ st \in State BY IInvMeaning DEF Coherent
<1>2. CASE UNCHANGED vars BY <1>2 DEF vars, RunCounted
<1>3. CASE Person
  <2>1. heldOn' = NoRun
    BY <1>3 DEF Person, CqButton, ListenButton, AutoButton, StopTxButtonClicked, Escape,
         DoubleClickOnCall, CtrlDoubleClickOnCall, TxRepeatChanged, TxFirstChanged,
         BandChanged, LogQSOButton, Command
  <2> QED BY <2>1, NoRunCounted
<1>4. ASSUME NEW s \in State, Step(s), SameRun(st, s) PROVE RunCounted' /\ StaysLimited
  BY <1>4, StepCounts DEF SameRun
<1>5. ASSUME NEW late \in BOOLEAN, StartTx(late) PROVE RunCounted' /\ StaysLimited
  <2> DEFINE cur  == CurrentMessage(st)
             tx   == IF late THEN "late" ELSE "on"
             pref == IF st.limit # 0 THEN st.limit ELSE st.prefTxLimit
             s == [st EXCEPT !.tx = tx, !.phase = "sent", !.cur = cur, !.prefTxLimit = pref]
  <2>1. Step(s) BY <1>5 DEF StartTx
  <2>2. tx \in TxStates /\ pref \in Limits BY <1>1 DEF TxStates, State
  <2>3. cur \in Sent \cup {NoSent} BY <1>1 DEF CurrentMessage, State, Sent
  <2>4. "sent" \in {"due", "early", "sent", "cut", "over"} OBVIOUS
  <2> HIDE DEF cur, tx, pref
  <2>5. s \in State BY <1>1, <2>2, <2>3, <2>4, UpdateType
  <2>6. SameRun(st, s) BY <1>1 DEF SameRun, State
  <2> QED BY <1>4, <2>1, <2>5, <2>6
<1>6. ASSUME RestartTx PROVE RunCounted' /\ StaysLimited
  <2> DEFINE cur == CurrentMessage(st)
             s == [st EXCEPT !.restart = FALSE, !.cur = cur]
  <2>1. Step(s) BY <1>6 DEF RestartTx
  <2>2. cur \in Sent \cup {NoSent} /\ FALSE \in BOOLEAN
    BY <1>1 DEF CurrentMessage, State, Sent
  <2> HIDE DEF cur
  <2>3. s \in State BY <1>1, <2>2, UpdateType
  <2>4. SameRun(st, s) BY <1>1 DEF SameRun, State
  <2> QED BY <1>4, <2>1, <2>3, <2>4
<1>7. ASSUME SlotLate PROVE RunCounted' /\ StaysLimited
  <2> DEFINE ph == IF st.phase = "early" THEN "over" ELSE "sent"
             s == [st EXCEPT !.phase = ph]
  <2>1. ph \in {"due", "early", "sent", "cut", "over"} OBVIOUS
  <2>2. Step(s) BY <1>7 DEF SlotLate
  <2> HIDE DEF ph
  <2>3. s \in State BY <1>1, <2>1, UpdateType
  <2>4. SameRun(st, s) BY <1>1 DEF SameRun, State
  <2> QED BY <1>4, <2>2, <2>3, <2>4
<1>8. ASSUME NEW cleanup \in BOOLEAN, SlotEnds(cleanup) PROVE RunCounted' /\ StaysLimited
  <2> DEFINE heard == IF st.phase = "over" THEN Calls ELSE {}
             par == 1 - st.slot
             d == [st EXCEPT !.slot = par, !.phase = "due", !.unheard = heard]
             e == AgeAll(d)
             f == DecodeBusy(e, cleanup)
  <2>1. par \in 0..1 /\ heard \in SUBSET Calls BY <1>1 DEF State
  <2>2. "due" \in {"due", "early", "sent", "cut", "over"} OBVIOUS
  <2>3. Step(f) \/ Step(e) BY <1>8 DEF SlotEnds
  <2> HIDE DEF heard, par
  <2>4. d \in State BY <1>1, <2>1, <2>2, UpdateType
  <2>5. Linked(d) BY <1>1 DEF Coherent, Linked, State
  <2>6. SameRun(st, d) BY <1>1 DEF SameRun, State
  <2> HIDE DEF d
  <2>7. e \in Coherent /\ e \in State /\ SameRun(st, e)
    BY <2>4, <2>5, <2>6, AgeAllCoherent, SlotCounts DEF Coherent, SameRun
  <2> HIDE DEF e
  <2>8. f \in State /\ SameRun(st, f)
    BY <2>7, DecodeBusyCoherent, SlotCounts DEF Coherent, SameRun
  <2> HIDE DEF f
  <2> QED BY <1>4, <2>3, <2>7, <2>8
<1>9. ASSUME NEW c \in Calls, NEW kind \in Heard, NEW early \in BOOLEAN,
             DecodeLine(c, kind, early)
      PROVE  RunCounted' /\ StaysLimited
  <2> DEFINE m == [kind |-> kind, par |-> 1 - st.slot, age |-> 0]
             rest == st.unheard \ {c}
             a == [st EXCEPT !.unheard = rest]
             s == Decode(a, c, m, early)
  <2>1. 1 - st.slot \in 0..1 /\ rest \in SUBSET Calls BY <1>1 DEF State
  <2>2. kind \in Kinds BY HeardAssumption
  <2>3. m \in AnyMessage
    BY <2>1, <2>2, LimitAssumption DEF AnyMessage, Messages
  <2>4. Step(s) BY <1>9 DEF DecodeLine
  <2> HIDE DEF m, rest
  <2>5. a \in Coherent BY <1>1, <2>1, UpdateCoherent
  <2>6. /\ SameRun(st, a) /\ a.loggedCalls = st.loggedCalls
        /\ a.callInProg = st.callInProg /\ a.mode = st.mode
    BY <1>1 DEF SameRun, State
  <2> HIDE DEF a
  <2>7. s.mode = a.mode /\ (SameRun(a, s) \/ (a.mode = "cq" => Ended(a, s)))
    BY <2>3, <2>5, DecodeCounts
  <2>8. s \in State BY <2>3, <2>5, DecodeCoherent DEF Coherent
  <2> HIDE DEF s
  <2>9. s.mode = st.mode /\ (SameRun(st, s) \/ (st.mode = "cq" => Ended(st, s)))
    BY <2>6, <2>7 DEF SameRun, Ended
  <2> QED BY <2>4, <2>8, <2>9, StepCounts
<1>10. ASSUME DecodeFinished PROVE RunCounted' /\ StaysLimited
  <2> DEFINE s == [st EXCEPT !.unheard = {}]
  <2>1. {} \in SUBSET Calls /\ Step(s) BY <1>10 DEF DecodeFinished
  <2>2. s \in State BY <1>1, <2>1, UpdateType
  <2>3. SameRun(st, s) BY <1>1 DEF SameRun, State
  <2> QED BY <1>4, <2>1, <2>2, <2>3
<1>11. ASSUME LogTimer \/ LogDialogAccept PROVE RunCounted' /\ StaysLimited
  BY <1>11, NoRunCounted DEF LogTimer, LogDialogAccept, Logs
<1>12. ASSUME LogDialogReject PROVE RunCounted' /\ StaysLimited
  <2> DEFINE s == [st EXCEPT !.logDlg = Hidden]
  <2>1. Hidden \in Calls \cup {NoCall, Hidden} /\ Step(s) BY <1>12 DEF LogDialogReject
  <2>2. s \in State BY <1>1, <2>1, UpdateType
  <2>3. SameRun(st, s) BY <1>1 DEF SameRun, State
  <2> QED BY <1>4, <2>1, <2>2, <2>3
<1>13. ASSUME RunawayWatchdog PROVE RunCounted' /\ StaysLimited
  <2> DEFINE w == TxWatchdog(st)
             t == [w EXCEPT !.tx = IF @ = "off" THEN @ ELSE "cut"]
  <2>1. w \in Coherent /\ w \in State /\ w.mode = st.mode
    BY <1>1, TxWatchdogCoherent, TxWatchdogEnds DEF Coherent
  <2>2. Step(t) /\ st.mode = "manual" BY <1>13 DEF RunawayWatchdog
  <2> HIDE DEF w
  <2>3. t \in State BY <2>1, CutCoherent DEF Coherent
  <2>4. t.mode = w.mode BY <2>1 DEF State
  <2>5. SameRun(st, t) BY <2>1, <2>2, <2>4 DEF SameRun
  <2> QED BY <1>4, <2>2, <2>3, <2>5
<1>14. CASE Clock \/ Watchdog \/ Decoder \/ LogDialog
  BY <1>5, <1>6, <1>7, <1>8, <1>9, <1>10, <1>11, <1>12, <1>13, <1>14, EndTxCounts
     DEF Clock, Watchdog, Decoder, LogDialog
<1> QED BY <1>2, <1>3, <1>14 DEF Next

\* In CQ mode no message of a contact is sent as often as the limit says without
\* the contact being given up, for any number of stations and any settings.
THEOREM RepeatsLimited == Spec => RepeatLimit
<1>1. Init => RunCounted BY DEF Init, RunCounted, NoRun
<1>2. ASSUME IInv, RunCounted, [Next]_vars PROVE RunCounted' /\ [StaysLimited]_vars
  BY <1>2, NextCounts
<1>3. Spec => Init /\ [][Next]_vars BY DEF Spec
<1> QED BY <1>1, <1>2, <1>3, Invariance, PTL DEF RepeatLimit, StaysLimited
-----------------------------------------------------------------------------
(* The queue and the transmit period.                                       *)

\* A transmission that is not being stopped is in our period.
TxInSlot(s) == s.tx \in {"on", "late"} => s.slot = s.txPar

\* From s to t no transmission gets out of its slot and no call out of period.
SamePeriod(s, t) ==
  /\ t.slot = s.slot
  /\ t.tx \in {"on", "late"} => s.tx \in {"on", "late"} /\ t.txPar = s.txPar
  /\ \A d \in Calls : OutOfPeriod(t, d) => OutOfPeriod(s, d)

\* The queue and the period are left alone.
SameQueue(s, t) == t.msgMap = s.msgMap /\ t.txPar = s.txPar

\* From s to t only calls of S leave the queue, unless the period changes.
Drops(s, t, S) == t.txPar = s.txPar => Queued(s) \ S \subseteq Queued(t)

\* SamePeriod composes, and so does Drops after steps that keep the period.
LEMMA QueueSteps ==
  ASSUME NEW s, NEW t, NEW u
  PROVE  /\ SamePeriod(s, s)
         /\ SamePeriod(s, t) /\ SamePeriod(t, u) => SamePeriod(s, u)
         /\ SameQueue(s, t) /\ t.slot = s.slot /\ (t.tx = s.tx \/ t.tx \in {"off", "cut"})
              => SamePeriod(s, t)
         /\ SameQueue(s, t) => \A S : Drops(t, u, S) => Drops(s, u, S)
         /\ SameQueue(t, u) => \A S : Drops(s, t, S) => Drops(s, u, S)
BY DEF SamePeriod, SameQueue, Drops, OutOfPeriod, Queued, CorrectPeriod

\* What the member functions do to queue and period.
LEMMA MembersQueue ==
  ASSUME NEW s \in State
  PROVE  /\ \A c : SameQueue(s, SetCallInProg(s, c)) /\ SamePeriod(s, SetCallInProg(s, c))
         /\ SameQueue(s, ResetWatchdog(s)) /\ SamePeriod(s, ResetWatchdog(s))
         /\ SameQueue(s, SetToCq(s)) /\ SamePeriod(s, SetToCq(s))
         /\ SameQueue(s, ClearDX(s)) /\ SamePeriod(s, ClearDX(s))
         /\ \A c : SameQueue(s, IncrFailCount(s, c)) /\ SamePeriod(s, IncrFailCount(s, c))
         /\ \A c : SameQueue(s, ClearFailCount(s, c)) /\ SamePeriod(s, ClearFailCount(s, c))
         /\ SameQueue(s, StopTxButton(s)) /\ SamePeriod(s, StopTxButton(s))
<1>1. ASSUME NEW t, SameQueue(s, t), t.slot = s.slot, t.tx = s.tx \/ t.tx \in {"off", "cut"}
      PROVE  SameQueue(s, t) /\ SamePeriod(s, t)
  BY <1>1, QueueSteps
<1>2. ASSUME NEW c PROVE SameQueue(s, SetCallInProg(s, c)) /\ SamePeriod(s, SetCallInProg(s, c))
  <2>1. /\ SameQueue(s, SetCallInProg(s, c)) /\ SetCallInProg(s, c).slot = s.slot
        /\ SetCallInProg(s, c).tx = s.tx
    BY DEF SetCallInProg, SameQueue, State
  <2> QED BY <1>1, <2>1
<1>3. SameQueue(s, ResetWatchdog(s)) /\ SamePeriod(s, ResetWatchdog(s))
  <2>1. /\ SameQueue(s, ResetWatchdog(s)) /\ ResetWatchdog(s).slot = s.slot
        /\ ResetWatchdog(s).tx = s.tx
    BY DEF ResetWatchdog, SameQueue, State
  <2> QED BY <1>1, <2>1
<1>4. SameQueue(s, SetToCq(s)) /\ SamePeriod(s, SetToCq(s))
  <2>1. SameQueue(s, SetToCq(s)) /\ SetToCq(s).slot = s.slot /\ SetToCq(s).tx = s.tx
    BY DEF SetToCq, SetCallInProg, SameQueue, State
  <2> QED BY <1>1, <2>1
<1>5. SameQueue(s, ClearDX(s)) /\ SamePeriod(s, ClearDX(s))
  <2>1. SameQueue(s, ClearDX(s)) /\ ClearDX(s).slot = s.slot /\ ClearDX(s).tx = s.tx
    BY DEF ClearDX, SetCallInProg, SameQueue, State
  <2> QED BY <1>1, <2>1
<1>6. ASSUME NEW c PROVE SameQueue(s, IncrFailCount(s, c)) /\ SamePeriod(s, IncrFailCount(s, c))
  <2>1. /\ SameQueue(s, IncrFailCount(s, c)) /\ IncrFailCount(s, c).slot = s.slot
        /\ IncrFailCount(s, c).tx = s.tx
    BY DEF IncrFailCount, SameQueue, State
  <2> QED BY <1>1, <2>1
<1>7. ASSUME NEW c PROVE SameQueue(s, ClearFailCount(s, c)) /\ SamePeriod(s, ClearFailCount(s, c))
  <2>1. /\ SameQueue(s, ClearFailCount(s, c)) /\ ClearFailCount(s, c).slot = s.slot
        /\ ClearFailCount(s, c).tx = s.tx
    BY DEF ClearFailCount, SameQueue, State
  <2> QED BY <1>1, <2>1
<1>8. SameQueue(s, StopTxButton(s)) /\ SamePeriod(s, StopTxButton(s))
  <2>1. /\ SameQueue(s, StopTxButton(s)) /\ StopTxButton(s).slot = s.slot
        /\ StopTxButton(s).tx = s.tx \/ StopTxButton(s).tx \in {"off", "cut"}
    BY DEF StopTxButton, SameQueue, State
  <2> QED BY <1>1, <2>1
<1> QED BY <1>2, <1>3, <1>4, <1>5, <1>6, <1>7, <1>8

\* removeMessage drops one call.
LEMMA RemoveMessageQueue ==
  ASSUME NEW s \in State, NEW c
  PROVE  LET t == RemoveMessage(s, c)
         IN /\ SamePeriod(s, t) /\ t.txPar = s.txPar
            /\ Queued(s) \ {c} \subseteq Queued(t) /\ Queued(t) \subseteq Queued(s) \ {c}
<1> DEFINE t == RemoveMessage(s, c)
<1>1. /\ t.slot = s.slot /\ t.tx = s.tx /\ t.txPar = s.txPar
      /\ \A d \in Calls : t.msgMap[d] = IF d = c THEN NoMsg ELSE s.msgMap[d]
  BY DEF RemoveMessage, State
<1> HIDE DEF t
<1>2. Queued(s) \ {c} \subseteq Queued(t) /\ Queued(t) \subseteq Queued(s) \ {c}
  BY <1>1 DEF Queued
<1>3. SamePeriod(s, t)
  BY <1>1, <1>2 DEF SamePeriod, OutOfPeriod, Queued, CorrectPeriod
<1>4. /\ SamePeriod(s, t) /\ t.txPar = s.txPar
      /\ Queued(s) \ {c} \subseteq Queued(t) /\ Queued(t) \subseteq Queued(s) \ {c}
  BY <1>1, <1>2, <1>3
<1> QED BY <1>4 DEF t

\* A change of the period leaves no call out of period.
LEMMA SetPeriodQueue ==
  ASSUME NEW s \in State, NEW par \in 0..1
  PROVE  LET t == SetPeriod(s, par)
         IN /\ SamePeriod(s, t) /\ t.txPar = par
            /\ \/ SameQueue(s, t)
               \/ t.txPar # s.txPar /\ \A d \in Calls : ~OutOfPeriod(t, d)
<1> DEFINE t == SetPeriod(s, par)
<1>1. CASE par = s.txPar
  <2>1. t = s BY <1>1 DEF SetPeriod
  <2> QED BY <1>1, <2>1, QueueSteps DEF SameQueue
<1>2. CASE par # s.txPar
  <2>1. /\ t.slot = s.slot /\ t.txPar = par /\ t.tx \in {"off", "cut"}
        /\ \A d \in Calls : t.msgMap[d] = IF s.msgMap[d].par # par THEN s.msgMap[d] ELSE NoMsg
    BY <1>2 DEF SetPeriod, RemoveCallsByPeriod, SetCallInProg, CorrectPeriod, State
  <2> HIDE DEF t
  <2>2. \A d \in Calls : ~OutOfPeriod(t, d)
    BY <2>1 DEF OutOfPeriod, Queued, CorrectPeriod
  <2>3. SamePeriod(s, t) BY <2>1, <2>2 DEF SamePeriod
  <2>4. t.txPar # s.txPar BY <1>2, <2>1
  <2> QED BY <2>1, <2>2, <2>3, <2>4 DEF t
<1> QED BY <1>1, <1>2

\* Answering a message turns the period to its sender's and drops the calls of
\* the other period, or leaves queue and period alone.
LEMMA ProcessMessageQueue ==
  ASSUME NEW s \in Coherent, NEW c \in Calls, NEW m \in AnyMessage
  PROVE  LET t == ProcessMessage(s, c, m)
         IN /\ SamePeriod(s, t) /\ t.txPar = 1 - m.par
            /\ \/ SameQueue(s, t)
               \/ t.txPar # s.txPar /\ \A d \in Calls : ~OutOfPeriod(t, d)
<1> DEFINE t == ProcessMessage(s, c, m)
           a == SetPeriod(s, 1 - m.par)
           b == IF s.mode = "listen" /\ Wanted(m) THEN ResetWatchdog(a) ELSE a
           e == [b EXCEPT !.ntx = Answer(m), !.hisCall = c]
           d == SetCallInProg(e, c)
           f == [d EXCEPT !.restart = @ \/ Transmitting(d),
                          !.tx      = IF @ = "on" THEN "late" ELSE @,
                          !.auto    = @ \/ QuickCall]
<1>1. 1 - m.par \in 0..1 BY DEF AnyMessage, Messages, NoMsg
<1>2. s \in State BY DEF Coherent
<1>3. /\ SamePeriod(s, a) /\ a.txPar = 1 - m.par
      /\ \/ SameQueue(s, a)
         \/ a.txPar # s.txPar /\ \A x \in Calls : ~OutOfPeriod(a, x)
  BY <1>1, <1>2, SetPeriodQueue
<1>4. a \in Coherent BY <1>1, SetPeriodCoherent
<1>5. t = f BY DEF ProcessMessage
<1> HIDE DEF a
<1>6. b \in State /\ SameQueue(a, b) /\ b.slot = a.slot /\ b.tx = a.tx
  <2>1. a \in State BY <1>4 DEF Coherent
  <2>2. ResetWatchdog(a) \in State BY <1>4, ResetWatchdogCoherent DEF Coherent
  <2>3. SameQueue(a, ResetWatchdog(a)) /\ ResetWatchdog(a).slot = a.slot
        /\ ResetWatchdog(a).tx = a.tx
    BY <2>1 DEF ResetWatchdog, SameQueue, State
  <2> QED BY <2>1, <2>2, <2>3 DEF SameQueue
<1> HIDE DEF b
<1>7. /\ f.msgMap = b.msgMap /\ f.txPar = b.txPar /\ f.slot = b.slot
      /\ f.tx = IF b.tx = "on" THEN "late" ELSE b.tx
  BY <1>6 DEF SetCallInProg, State
<1> HIDE DEF f, t
<1>8. SameQueue(a, t) /\ t.slot = a.slot /\ (t.tx \in {"on", "late"} => a.tx \in {"on", "late"})
  BY <1>5, <1>6, <1>7 DEF SameQueue
<1>9. \A x \in Calls : OutOfPeriod(t, x) <=> OutOfPeriod(a, x)
  BY <1>8 DEF SameQueue, OutOfPeriod, Queued, CorrectPeriod
<1>10. SamePeriod(s, t) /\ t.txPar = 1 - m.par
       /\ (SameQueue(s, t) \/ (t.txPar # s.txPar /\ \A x \in Calls : ~OutOfPeriod(t, x)))
  BY <1>3, <1>8, <1>9 DEF SamePeriod, SameQueue
<1> QED BY <1>10 DEF t

\* Giving up a contact drops its call, and whatever a change of the period drops.
LEMMA TxWatchdogQueue ==
  ASSUME NEW s \in Coherent
  PROVE  /\ Queued(s) # {} => /\ SamePeriod(s, ProcessNext(s))
                              /\ Drops(s, ProcessNext(s), {})
         /\ SamePeriod(s, TxWatchdog(s))
         /\ Drops(s, TxWatchdog(s), {s.hisCall})
<1>1. ASSUME NEW u \in Coherent, Queued(u) # {}
      PROVE  SamePeriod(u, ProcessNext(u)) /\ Drops(u, ProcessNext(u), {})
  <2> DEFINE c == PeekMessage(u)
             w == ResetWatchdog(u)
             t == ProcessMessage(w, c, u.msgMap[c])
  <2>1. u \in State BY DEF Coherent
  <2>2. c \in Calls BY <1>1, <2>1, PeekMessageQueued DEF Queued
  <2>3. u.msgMap[c] \in AnyMessage BY <2>1, <2>2 DEF State
  <2>4. w \in Coherent /\ SameQueue(u, w) /\ SamePeriod(u, w)
    BY <2>1, ResetWatchdogCoherent, MembersQueue
  <2>5. ProcessNext(u) = t BY DEF ProcessNext
  <2> HIDE DEF c, w
  <2>6. SamePeriod(w, t) /\ (SameQueue(w, t) \/ t.txPar # w.txPar)
    BY <2>2, <2>3, <2>4, ProcessMessageQueue
  <2> HIDE DEF t
  <2>7. Drops(u, t, {}) BY <2>4, <2>6 DEF Drops, SameQueue, Queued
  <2> QED BY <2>4, <2>5, <2>6, <2>7, QueueSteps
<1>2. SamePeriod(s, TxWatchdog(s)) /\ Drops(s, TxWatchdog(s), {s.hisCall})
  <2> DEFINE a == RemoveMessage(s, s.hisCall)
             off(t) == [t EXCEPT !.auto = FALSE]
             r == IF ~s.auto \/ ~AnyAuto(s) THEN off(s)
                  ELSE IF Queued(a) # {}    THEN ProcessNext(a)
                  ELSE IF s.mode = "listen" THEN off(a)
                  ELSE SetToCq(a)
             Good(t) == SamePeriod(s, t) /\ Drops(s, t, {s.hisCall})
  <2>1. s \in State /\ FALSE \in BOOLEAN BY DEF Coherent
  <2>2. a \in Coherent /\ a \in State BY RemoveMessageCoherent DEF Coherent
  <2>3. SamePeriod(s, a) /\ a.txPar = s.txPar /\ Queued(s) \ {s.hisCall} \subseteq Queued(a)
    BY <2>1, RemoveMessageQueue
  <2>4. TxWatchdog(s) = ResetWatchdog(r) BY DEF TxWatchdog
  <2> HIDE DEF a
  <2>5. ASSUME NEW t \in State PROVE off(t) \in State /\ SameQueue(t, off(t)) /\ SamePeriod(t, off(t))
    <3>1. off(t) \in State BY <2>1, <2>5, UpdateType
    <3>2. SameQueue(t, off(t)) /\ off(t).slot = t.slot /\ off(t).tx = t.tx
      BY <2>5 DEF SameQueue, State
    <3> QED BY <3>1, <3>2, QueueSteps
  <2> HIDE DEF off
  <2>6. Good(s) /\ Good(a) BY <2>3, QueueSteps DEF Drops
  <2>7. ASSUME NEW t, SamePeriod(a, t), Drops(a, t, {}) PROVE Good(t)
    BY <2>3, <2>7, QueueSteps DEF Drops
  <2>8. ASSUME NEW t, SamePeriod(a, t), SameQueue(a, t) PROVE Good(t)
    BY <2>6, <2>8, QueueSteps
  <2>9. Good(off(s)) BY <2>1, <2>5, <2>6, QueueSteps
  <2>10. Good(off(a)) BY <2>2, <2>5, <2>8
  <2>11. SetToCq(a) \in State /\ Good(SetToCq(a))
    BY <2>2, <2>8, SetToCqCoherent, MembersQueue DEF Coherent
  <2>12. Queued(a) # {} => ProcessNext(a) \in State /\ Good(ProcessNext(a))
    BY <1>1, <2>2, <2>7, ProcessNextCoherent DEF Coherent
  <2> HIDE DEF Good
  <2>13. r \in State /\ Good(r) BY <2>1, <2>2, <2>5, <2>9, <2>10, <2>11, <2>12
  <2> HIDE DEF r
  <2>14. SameQueue(r, ResetWatchdog(r)) /\ SamePeriod(r, ResetWatchdog(r))
    BY <2>13, MembersQueue
  <2> QED BY <2>4, <2>13, <2>14, QueueSteps DEF Good
<1> QED BY <1>1, <1>2

\* A contact that is logged drops its call, and may clear m_hisCall.
LEMMA AcceptQueue ==
  ASSUME NEW s \in Coherent, NEW c \in Calls \cup {NoCall}
  PROVE  LET t == AcceptQSO(s, c)
         IN /\ SamePeriod(s, t) /\ t.txPar = s.txPar
            /\ t.hisCall \in {s.hisCall, NoCall}
            /\ s.loggedCalls \subseteq t.loggedCalls
            /\ Queued(s) \ {c} \subseteq Queued(t) /\ c \in t.loggedCalls
<1> DEFINE a == [s EXCEPT !.logBook = @ \cup {s.hisCall}]
           b == IF ClearDXOption THEN ClearDX(a) ELSE a
           d == RemoveMessage(b, c)
           t == PostLog(b, c)
<1>0. s \in State BY DEF Coherent
<1>1. s.logBook \cup {s.hisCall} \in SUBSET (Calls \cup {NoCall})
  BY <1>0 DEF State
<1>2. a \in Coherent BY <1>1, UpdateCoherent
<1>3. /\ SameQueue(s, a) /\ a.slot = s.slot /\ a.tx = s.tx
      /\ a.hisCall = s.hisCall /\ a.loggedCalls = s.loggedCalls
  BY <1>0 DEF SameQueue, State
<1> HIDE DEF a
<1>4. a \in State BY <1>2 DEF Coherent
<1>5. /\ ClearDX(a) \in State /\ SameQueue(a, ClearDX(a)) /\ SamePeriod(a, ClearDX(a))
      /\ ClearDX(a).hisCall = NoCall /\ ClearDX(a).loggedCalls = a.loggedCalls
  <2>1. ClearDX(a) \in State BY <1>2, ClearDXCoherent DEF Coherent
  <2>2. ClearDX(a).hisCall = NoCall /\ ClearDX(a).loggedCalls = a.loggedCalls
    BY <1>4 DEF ClearDX, SetCallInProg, State
  <2> QED BY <1>4, <2>1, <2>2, MembersQueue
<1>6. /\ b \in State /\ SameQueue(s, b) /\ SamePeriod(s, b)
      /\ b.hisCall \in {s.hisCall, NoCall} /\ b.loggedCalls = s.loggedCalls
  <2>1. SamePeriod(s, a) BY <1>3, QueueSteps
  <2>2. b = ClearDX(a) \/ b = a BY DEF b
  <2> HIDE DEF b
  <2>3. CASE b = ClearDX(a)
    <3>1. SamePeriod(s, ClearDX(a)) BY <1>5, <2>1, QueueSteps
    <3> QED BY <1>3, <1>5, <2>3, <3>1 DEF SameQueue
  <2>4. CASE b = a BY <1>3, <1>4, <2>1, <2>4
  <2> QED BY <2>2, <2>3, <2>4
<1>7. AcceptQSO(s, c) = t BY DEF AcceptQSO, a
<1> HIDE DEF b
<1>8. /\ SamePeriod(b, d) /\ d.txPar = b.txPar /\ Queued(b) \ {c} \subseteq Queued(d)
  BY <1>6, RemoveMessageQueue
<1>9. d \in State BY <1>6 DEF RemoveMessage, State, AnyMessage
<1>10. /\ t.msgMap = d.msgMap /\ t.txPar = d.txPar /\ t.slot = d.slot /\ t.tx = d.tx
       /\ t.hisCall = b.hisCall /\ t.loggedCalls = b.loggedCalls \cup {c}
  BY <1>6 DEF PostLog, SetCallInProg, RemoveMessage, State
<1> HIDE DEF d, t
<1>11. SameQueue(d, t) /\ SamePeriod(d, t) BY <1>10, QueueSteps DEF SameQueue
<1>12. SamePeriod(s, t) BY <1>6, <1>8, <1>11, QueueSteps
<1>13. Queued(s) \ {c} \subseteq Queued(t)
  BY <1>6, <1>8, <1>11 DEF SameQueue, Queued
<1> QED BY <1>6, <1>7, <1>8, <1>10, <1>12, <1>13 DEF SameQueue

\* Logging drops the call that is logged, and may clear m_hisCall.
LEMMA LoggingQueue ==
  ASSUME NEW s \in Coherent, NEW c \in Calls \cup {NoCall}
  PROVE  LET t == InitLogQSO(s, c)
         IN /\ SamePeriod(s, t) /\ t.txPar = s.txPar
            /\ t.hisCall \in {s.hisCall, NoCall}
            /\ s.loggedCalls \subseteq t.loggedCalls
            /\ SameQueue(s, t) \/ (Queued(s) \ {c} \subseteq Queued(t) /\ c \in t.loggedCalls)
<1> DEFINE Good(t) == /\ SamePeriod(s, t) /\ t.txPar = s.txPar
                      /\ t.hisCall \in {s.hisCall, NoCall}
                      /\ s.loggedCalls \subseteq t.loggedCalls
                      /\ \/ SameQueue(s, t)
                         \/ Queued(s) \ {c} \subseteq Queued(t) /\ c \in t.loggedCalls
<1>1. s \in State BY DEF Coherent
<1>2. Good(AcceptQSO(s, c)) BY AcceptQueue
<1>3. Good(s) /\ Good([s EXCEPT !.logDlg = c])
  <2>1. LET t == [s EXCEPT !.logDlg = c]
        IN /\ SameQueue(s, t) /\ t.slot = s.slot /\ t.tx = s.tx
           /\ t.hisCall = s.hisCall /\ t.loggedCalls = s.loggedCalls
    BY <1>1 DEF SameQueue, State
  <2> QED BY <2>1, QueueSteps DEF SameQueue
<1>4. InitLogQSO(s, c) \in {s, AcceptQSO(s, c), [s EXCEPT !.logDlg = c]} BY DEF InitLogQSO
<1> HIDE DEF Good
<1>5. Good(InitLogQSO(s, c)) BY <1>2, <1>3, <1>4
<1> QED BY <1>5 DEF Good

\* Logging m_hisCall, at once or by the timer, drops at most m_hisCall.
LEMMA SelectLogMethodQueue ==
  ASSUME NEW s \in Coherent
  PROVE  \A t \in {LogHisCall(s), SelectLogMethod(s)} :
            /\ SamePeriod(s, t) /\ t.txPar = s.txPar
            /\ t.hisCall \in {s.hisCall, NoCall}
            /\ s.loggedCalls \subseteq t.loggedCalls
            /\ Queued(s) \ {s.hisCall} \subseteq Queued(t)
            /\ SameQueue(s, t) \/ s.hisCall \in t.loggedCalls
<1>1. s \in State /\ s.hisCall \in Calls \cup {NoCall} BY DEF Coherent, State
<1> DEFINE Good(t) == /\ SamePeriod(s, t) /\ t.txPar = s.txPar
                      /\ t.hisCall \in {s.hisCall, NoCall}
                      /\ s.loggedCalls \subseteq t.loggedCalls
                      /\ Queued(s) \ {s.hisCall} \subseteq Queued(t)
                      /\ SameQueue(s, t) \/ s.hisCall \in t.loggedCalls
<1>2. Good(InitLogQSO(s, s.hisCall))
  <2> DEFINE t == InitLogQSO(s, s.hisCall)
  <2>1. /\ SamePeriod(s, t) /\ t.txPar = s.txPar
        /\ t.hisCall \in {s.hisCall, NoCall}
        /\ s.loggedCalls \subseteq t.loggedCalls
        /\ \/ SameQueue(s, t)
           \/ Queued(s) \ {s.hisCall} \subseteq Queued(t) /\ s.hisCall \in t.loggedCalls
    BY <1>1, LoggingQueue
  <2> HIDE DEF t
  <2>2. SameQueue(s, t) => Queued(s) \subseteq Queued(t) BY DEF SameQueue, Queued
  <2>3. Good(t) BY <2>1, <2>2
  <2> HIDE DEF Good
  <2> QED BY <2>3 DEF t
<1>3. Good([s EXCEPT !.logTimer = TRUE])
  <2> DEFINE t == [s EXCEPT !.logTimer = TRUE]
  <2>1. /\ SameQueue(s, t) /\ t.slot = s.slot /\ t.tx = s.tx
        /\ t.hisCall = s.hisCall /\ t.loggedCalls = s.loggedCalls
    BY <1>1 DEF SameQueue, State
  <2> HIDE DEF t
  <2>2. Good(t) BY <2>1, QueueSteps DEF SameQueue, Queued
  <2> QED BY <2>2 DEF t
<1>4. \A t \in {LogHisCall(s), SelectLogMethod(s)} :
        t \in {InitLogQSO(s, s.hisCall), [s EXCEPT !.logTimer = TRUE]}
  BY DEF LogHisCall, SelectLogMethod
<1> HIDE DEF Good
<1>5. \A t \in {LogHisCall(s), SelectLogMethod(s)} : Good(t) BY <1>2, <1>3, <1>4
<1> QED BY <1>5 DEF Good

\* Queueing a message replaces that of one call.
LEMMA SaveMessageQueue ==
  ASSUME NEW s \in State, NEW c \in Calls, NEW m \in Messages
  PROVE  LET t == SaveMessage(s, c, m)
         IN /\ t.slot = s.slot /\ t.tx = s.tx /\ t.txPar = s.txPar
            /\ t.msgMap[c] = m /\ \A d \in Calls \ {c} : t.msgMap[d] = s.msgMap[d]
            /\ Queued(s) \subseteq Queued(t)
<1> DEFINE t == SaveMessage(s, c, m)
<1>1. /\ t.slot = s.slot /\ t.tx = s.tx /\ t.txPar = s.txPar
      /\ t.msgMap[c] = m /\ \A d \in Calls \ {c} : t.msgMap[d] = s.msgMap[d]
  BY DEF SaveMessage, State
<1>2. m # NoMsg BY DEF Messages, NoMsg, Kinds
<1> HIDE DEF t
<1>3. Queued(s) \subseteq Queued(t) BY <1>1, <1>2 DEF Queued
<1>4. /\ t.slot = s.slot /\ t.tx = s.tx /\ t.txPar = s.txPar
      /\ t.msgMap[c] = m /\ \A d \in Calls \ {c} : t.msgMap[d] = s.msgMap[d]
      /\ Queued(s) \subseteq Queued(t)
  BY <1>1, <1>3
<1> QED BY <1>4 DEF t

\* Only calls of S or calls newly logged leave the queue, unless the period changes.
DropsLogged(s, t, S) ==
  t.txPar = s.txPar => Queued(s) \ (S \cup (t.loggedCalls \ s.loggedCalls)) \subseteq Queued(t)

\* The end of a contact drops at most m_hisCall.
LEMMA EndQsoQueue ==
  ASSUME NEW s \in Coherent, NEW c \in Calls, NEW m \in AnyMessage, NEW held
  PROVE  LET t == EndQso(s, c, m, held)
         IN SamePeriod(s, t) /\ Drops(s, t, {s.hisCall}) /\ t.loggedCalls = s.loggedCalls
<1> DEFINE Good(t) == SamePeriod(s, t) /\ Drops(s, t, {s.hisCall})
           w == SetToCq(s)
           x == [w EXCEPT !.auto = FALSE]
<1>1. s \in State BY DEF Coherent
<1>2. Good(TxWatchdog(s)) BY TxWatchdogQueue
<1>3. Good(s) BY QueueSteps DEF Drops
<1>4. Good(ProcessMessage(s, c, m))
  BY ProcessMessageQueue DEF Drops, SameQueue, Queued
<1>5. Good(x)
  <2>1. w \in Coherent /\ SameQueue(s, w) /\ SamePeriod(s, w)
    BY <1>1, SetToCqCoherent, MembersQueue
  <2> HIDE DEF w
  <2>2. x.slot = w.slot /\ x.tx = w.tx /\ SameQueue(w, x)
    BY <2>1 DEF Coherent, State, SameQueue
  <2> HIDE DEF x
  <2>3. SamePeriod(w, x) BY <2>2, QueueSteps
  <2>4. SamePeriod(s, x) BY <2>1, <2>3, QueueSteps
  <2> QED BY <2>1, <2>2, <2>4 DEF SameQueue, Drops, Queued
<1>6. EndQso(s, c, m, held) \in {TxWatchdog(s), s, ProcessMessage(s, c, m), x}
  BY DEF EndQso
<1> HIDE DEF Good, x
<1>7. Good(EndQso(s, c, m, held)) BY <1>2, <1>3, <1>4, <1>5, <1>6
<1>8. EndQso(s, c, m, held).loggedCalls = s.loggedCalls BY AnsweringKeeps DEF Kept
<1> QED BY <1>7, <1>8 DEF Good

\* An answered call is queued in period, or it is the message of an earlier slot
\* or of a transmission that is not over.
LEMMA RespondQueue ==
  ASSUME NEW s \in Coherent, NEW c \in Calls, NEW m \in Messages, NEW held, NEW inTime
  PROVE  LET t == Respond(s, c, m, held, inTime)
         IN /\ t.slot = s.slot
            /\ t.tx \in {"on", "late"} => s.tx \in {"on", "late"} /\ t.txPar = s.txPar
            /\ \A d \in Calls : OutOfPeriod(t, d) =>
                 \/ OutOfPeriod(s, d)
                 \/ d = c /\ t.msgMap[c] = s.reportsRecd[c] /\ ~HasReport(m)
                 \/ d = c /\ ~CorrectPeriod(s, m) /\ (held \/ ~inTime)
            /\ Drops(s, t, {})
<1> DEFINE n == DecodeInSequence(s, c, m)
           q == IF AnyAuto(s) THEN SaveMessage(s, c, n) ELSE s
           p == ProcessMessage(q, c, n)
           Good(t) ==
            /\ t.slot = s.slot
            /\ t.tx \in {"on", "late"} => s.tx \in {"on", "late"} /\ t.txPar = s.txPar
            /\ \A d \in Calls : OutOfPeriod(t, d) =>
                 \/ OutOfPeriod(s, d)
                 \/ d = c /\ t.msgMap[c] = s.reportsRecd[c] /\ ~HasReport(m)
                 \/ d = c /\ ~CorrectPeriod(s, m) /\ (held \/ ~inTime)
            /\ Drops(s, t, {})
<1>1. s \in State /\ m \in AnyMessage BY DEF Coherent, AnyMessage
<1>2. /\ n \in Messages
      /\ n = m \/ (n = s.reportsRecd[c] /\ ~HasReport(m))
  <2>1. s.reportsRecd[c] \in AnyMessage BY <1>1 DEF State
  <2>2. IsCq(m) \/ m.kind = "reply" => ~HasReport(m) BY DEF IsCq, HasReport
  <2> QED BY <2>1, <2>2 DEF DecodeInSequence, AnyMessage
<1> HIDE DEF n
<1>3. n \in AnyMessage BY <1>2 DEF AnyMessage
<1>4. q \in Coherent BY <1>3, SaveMessageCoherent
<1>5. /\ q.slot = s.slot /\ q.tx = s.tx /\ q.txPar = s.txPar
      /\ \A d \in Calls \ {c} : q.msgMap[d] = s.msgMap[d]
      /\ Queued(s) \subseteq Queued(q)
      /\ q = s \/ q.msgMap[c] = n
  BY <1>1, <1>2, SaveMessageQueue
<1> HIDE DEF q
<1>6. \A d \in Calls : OutOfPeriod(q, d) => OutOfPeriod(s, d) \/ (d = c /\ q.msgMap[c] = n)
  BY <1>5 DEF OutOfPeriod, Queued, CorrectPeriod
<1>7. CASE held \/ ~inTime
  <2>1. Respond(s, c, m, held, inTime) = q BY <1>7 DEF Respond, q, n
  <2>2. OutOfPeriod(q, c) /\ q.msgMap[c] = m => ~CorrectPeriod(s, m)
    BY <1>5 DEF OutOfPeriod, CorrectPeriod
  <2>3. Good(q) BY <1>2, <1>5, <1>6, <1>7, <2>2 DEF Drops
  <2> QED BY <2>1, <2>3
<1>8. CASE ~(held \/ ~inTime)
  <2>1. Respond(s, c, m, held, inTime) = p BY <1>8 DEF Respond, q, n
  <2>2. /\ SamePeriod(q, p) /\ p.txPar = 1 - n.par
        /\ SameQueue(q, p) \/ (p.txPar # q.txPar /\ \A d \in Calls : ~OutOfPeriod(p, d))
    BY <1>3, <1>4, ProcessMessageQueue
  <2> HIDE DEF p
  <2>3. Drops(s, p, {}) BY <1>5, <2>2 DEF Drops, SameQueue, Queued
  <2>4. n.par \in 0..1 BY <1>2 DEF Messages
  <2>5. p.msgMap[c] = n => ~OutOfPeriod(p, c)
    BY <2>2, <2>4 DEF OutOfPeriod, CorrectPeriod
  <2>6. \A d \in Calls : OutOfPeriod(p, d) => OutOfPeriod(s, d)
    BY <1>6, <2>2, <2>5 DEF SamePeriod, SameQueue
  <2>7. Good(p) BY <1>5, <2>2, <2>3, <2>6 DEF SamePeriod
  <2> QED BY <2>1, <2>7
<1> QED BY <1>7, <1>8

\* One decoded line: what leaves the queue, and what gets into it out of period.
LEMMA DecodeQueue ==
  ASSUME NEW s \in Coherent, TxInSlot(s), NEW c \in Calls, NEW m \in Messages,
         m.par = 1 - s.slot, NEW early, early => Transmitting(s)
  PROVE  LET t == Decode(s, c, m, early)
         IN /\ t.slot = s.slot
            /\ t.tx \in {"on", "late"} => s.tx \in {"on", "late"} /\ t.txPar = s.txPar
            /\ \A d \in Calls : OutOfPeriod(t, d) =>
                 \/ OutOfPeriod(s, d)
                 \/ d = c /\ (t.msgMap[c] = s.reportsRecd[c] \/ s.tx = "cut")
            /\ DropsLogged(s, t, {s.hisCall})
<1> DEFINE r      == RecordReport(s, c, m)
           logs   == NewlyLogged(r, c, m)
           skip   == IF logs THEN c \notin {r.callInProg, r.hisCall} ELSE Ignored(s, c, m)
           held   == Held(s, c, m)
           l      == IF logs THEN LogDecode(r, c) ELSE r
           inTime == ~Transmitting(l) \/ early
           Good(t) ==
            /\ t.slot = s.slot
            /\ t.tx \in {"on", "late"} => s.tx \in {"on", "late"} /\ t.txPar = s.txPar
            /\ \A d \in Calls : OutOfPeriod(t, d) =>
                 \/ OutOfPeriod(s, d)
                 \/ d = c /\ (t.msgMap[c] = s.reportsRecd[c] \/ s.tx = "cut")
            /\ DropsLogged(s, t, {s.hisCall})
<1>1. s \in State /\ m \in AnyMessage BY DEF Coherent, AnyMessage
<1>2. /\ r \in Coherent /\ r \in State
      /\ r.slot = s.slot /\ r.tx = s.tx /\ r.txPar = s.txPar /\ r.msgMap = s.msgMap
      /\ r.hisCall = s.hisCall /\ r.callInProg = s.callInProg
      /\ r.loggedCalls = s.loggedCalls
      /\ ~HasReport(m) => r.reportsRecd = s.reportsRecd
  <2>1. r \in Coherent BY <1>1, RecordReportCoherent
  <2> QED BY <1>1, <2>1 DEF RecordReport, Coherent, State
<1> HIDE DEF r
<1>3. SameQueue(s, r) /\ SamePeriod(s, r) BY <1>2, QueueSteps DEF SameQueue
<1>4. /\ l \in Coherent /\ SamePeriod(s, l) /\ l.txPar = s.txPar
      /\ l.hisCall \in {s.hisCall, NoCall} /\ s.loggedCalls \subseteq l.loggedCalls
      /\ Queued(s) \ ({s.hisCall} \cup (l.loggedCalls \ s.loggedCalls)) \subseteq Queued(l)
      /\ ~logs => l = r
  <2> DEFINE Fine(t) == /\ SamePeriod(r, t) /\ t.txPar = r.txPar
                        /\ t.hisCall \in {r.hisCall, NoCall}
                        /\ r.loggedCalls \subseteq t.loggedCalls
                        /\ Queued(r) \ ({r.hisCall} \cup (t.loggedCalls \ r.loggedCalls))
                             \subseteq Queued(t)
  <2>1. Fine(r) BY QueueSteps
  <2>2. Fine(SelectLogMethod(r)) BY <1>2, SelectLogMethodQueue
  <2>3. logs => c \notin r.loggedCalls BY DEF NewlyLogged
  <2>4. logs => Fine(InitLogQSO(r, c))
    <3> DEFINE t == InitLogQSO(r, c)
    <3>1. /\ SamePeriod(r, t) /\ t.txPar = r.txPar
          /\ t.hisCall \in {r.hisCall, NoCall}
          /\ r.loggedCalls \subseteq t.loggedCalls
          /\ SameQueue(r, t) \/ (Queued(r) \ {c} \subseteq Queued(t) /\ c \in t.loggedCalls)
      BY <1>2, LoggingQueue
    <3> HIDE DEF t
    <3>2. SameQueue(r, t) => Queued(r) = Queued(t) BY DEF SameQueue, Queued
    <3>3. logs => Fine(t) BY <2>3, <3>1, <3>2
    <3> HIDE DEF Fine
    <3> QED BY <3>3 DEF t
  <2>5. l \in {r, SelectLogMethod(r), InitLogQSO(r, c)} /\ (~logs => l = r)
        /\ (logs \/ l = r)
    BY DEF LogDecode
  <2>6. l \in Coherent BY <1>2, LogDecodeCoherent
  <2> HIDE DEF l, Fine, logs
  <2>7. Fine(l) BY <2>1, <2>2, <2>4, <2>5
  <2>8. SamePeriod(s, l) BY <1>3, <2>7, QueueSteps DEF Fine
  <2>9. Queued(r) = Queued(s) BY <1>2 DEF Queued
  <2> QED BY <1>2, <2>5, <2>6, <2>7, <2>8, <2>9 DEF Fine
<1> HIDE DEF l
<1>5. Good(l) BY <1>4 DEF SamePeriod, DropsLogged
<1>6. Good(EndQso(l, c, m, held))
  <2> DEFINE t == EndQso(l, c, m, held)
  <2>1. SamePeriod(l, t) /\ Drops(l, t, {l.hisCall}) /\ t.loggedCalls = l.loggedCalls
    BY <1>1, <1>4, EndQsoQueue
  <2> HIDE DEF t
  <2>2. SamePeriod(s, t) BY <1>4, <2>1, QueueSteps
  <2>3. Queued(s) \subseteq Calls /\ NoCall \notin Calls BY DEF Queued, Calls, NoCall
  <2>4. DropsLogged(s, t, {s.hisCall}) BY <1>4, <2>1, <2>3 DEF Drops, DropsLogged
  <2>5. Good(t) BY <2>2, <2>4 DEF SamePeriod
  <2> HIDE DEF Good
  <2> QED BY <2>5 DEF t
<1>7. ASSUME l = r, ~Ignored(s, c, m) PROVE Good(Respond(l, c, m, held, inTime))
  <2> DEFINE t == Respond(l, c, m, held, inTime)
  <2> HIDE DEF held, inTime
  <2>1. /\ t.slot = l.slot
        /\ t.tx \in {"on", "late"} => l.tx \in {"on", "late"} /\ t.txPar = l.txPar
        /\ \A d \in Calls : OutOfPeriod(t, d) =>
             \/ OutOfPeriod(l, d)
             \/ d = c /\ t.msgMap[c] = l.reportsRecd[c] /\ ~HasReport(m)
             \/ d = c /\ ~CorrectPeriod(l, m) /\ (held \/ ~inTime)
        /\ Drops(l, t, {})
    BY <1>4, RespondQueue
  <2> HIDE DEF t
  <2>2. ~CorrectPeriod(s, m) /\ (held \/ ~inTime) => s.tx = "cut"
    <3> SUFFICES ASSUME ~CorrectPeriod(s, m), held \/ ~inTime PROVE s.tx = "cut"
      OBVIOUS
    <3>1. s.callInProg = NoCall BY <1>7 DEF Ignored
    <3>2. ~held BY <3>1 DEF held, Held
    <3>3. Transmitting(s) BY <1>2, <1>7, <3>2 DEF inTime, Transmitting
    <3>4. s.slot # s.txPar BY <1>1 DEF CorrectPeriod, State
    <3> QED BY <1>1, <3>3, <3>4 DEF TxInSlot, Transmitting, State, TxStates
  <2>3. Queued(r) = Queued(s) BY <1>2 DEF Queued
  <2>4. \A d \in Calls : OutOfPeriod(r, d) => OutOfPeriod(s, d) BY <1>3 DEF SamePeriod
  <2>5. ~CorrectPeriod(r, m) => ~CorrectPeriod(s, m) BY <1>2 DEF CorrectPeriod
  <2>6. DropsLogged(s, t, {s.hisCall}) BY <1>2, <1>7, <2>1, <2>3 DEF Drops, DropsLogged
  <2>7. \A d \in Calls : OutOfPeriod(t, d) =>
          \/ OutOfPeriod(s, d)
          \/ d = c /\ (t.msgMap[c] = s.reportsRecd[c] \/ s.tx = "cut")
    BY <1>2, <1>7, <2>1, <2>2, <2>4, <2>5
  <2>8. Good(t) BY <1>2, <1>7, <2>1, <2>6, <2>7
  <2> HIDE DEF Good
  <2> QED BY <2>8 DEF t
<1>8. ASSUME l = r, ~Ignored(s, c, m), s.callInProg # NoCall
      PROVE  Good(SaveMessage(l, c, m))
  <2> DEFINE t == SaveMessage(l, c, m)
  <2>1. /\ t.slot = s.slot /\ t.tx = s.tx /\ t.txPar = s.txPar
        /\ t.msgMap[c] = m /\ \A d \in Calls \ {c} : t.msgMap[d] = s.msgMap[d]
        /\ Queued(r) \subseteq Queued(t)
    BY <1>2, <1>8, SaveMessageQueue
  <2> HIDE DEF t
  <2>2. CorrectPeriod(s, m) BY <1>8 DEF Ignored
  <2>3. \A d \in Calls : OutOfPeriod(t, d) => OutOfPeriod(s, d)
    BY <2>1, <2>2 DEF OutOfPeriod, Queued, CorrectPeriod
  <2>4. Queued(r) = Queued(s) BY <1>2 DEF Queued
  <2>5. Good(t) BY <2>1, <2>3, <2>4 DEF DropsLogged
  <2> HIDE DEF Good
  <2> QED BY <2>5 DEF t
<1>9. logs => ~Continues(m) BY DEF NewlyLogged, Continues
<1>10. /\ ~logs => (skip <=> Ignored(s, c, m))
       /\ l = r => l.callInProg = s.callInProg
  BY <1>2
<1>11. \/ Decode(s, c, m, early) = l
       \/ Decode(s, c, m, early) = EndQso(l, c, m, held)
       \/ Decode(s, c, m, early) = Respond(l, c, m, held, inTime) /\ ~skip /\ Continues(m)
       \/ /\ Decode(s, c, m, early) = SaveMessage(l, c, m) /\ ~skip /\ Continues(m)
          /\ l.callInProg # NoCall
  BY DEF Decode, l, r
<1> HIDE DEF Good, logs, skip, held, inTime
<1>12. Good(Decode(s, c, m, early))
  <2>1. CASE Continues(m) /\ ~skip
    <3>1. l = r /\ ~Ignored(s, c, m) BY <1>4, <1>9, <1>10, <2>1
    <3> QED BY <1>5, <1>6, <1>7, <1>8, <1>10, <1>11, <3>1
  <2>2. CASE ~(Continues(m) /\ ~skip) BY <1>5, <1>6, <1>11, <2>2
  <2> QED BY <2>1, <2>2
<1> QED BY <1>12 DEF Good

\* From s to t at most m_hisCall leaves the queue, and it is not replaced.
Worked(s, t) == /\ SamePeriod(s, t) /\ t.txPar = s.txPar
                /\ Queued(s) \ {s.hisCall} \subseteq Queued(t)
                /\ t.hisCall \in {s.hisCall, NoCall}

\* What follows the log of a contact drops nothing else.
LEMMA WorkedThen ==
  ASSUME NEW s, NEW t, NEW u, Worked(s, t), SamePeriod(t, u), Drops(t, u, {t.hisCall})
  PROVE  SamePeriod(s, u) /\ Drops(s, u, {s.hisCall})
<1>1. NoCall \notin Queued(s) BY DEF Queued, Calls, NoCall
<1> QED BY <1>1, QueueSteps DEF Worked, Drops

\* A contact that times out takes only its call from the queue.
LEMMA CountRepeatQueue ==
  ASSUME NEW s \in Coherent
  PROVE  SamePeriod(s, CountRepeat(s)) /\ Drops(s, CountRepeat(s), {s.hisCall})
<1> DEFINE b == SetCallInProg(s, NoCall)
           d == IF b.limit # 0 THEN IncrFailCount(b, s.hisCall) ELSE b
           w == TxWatchdog(d)
           Good(t) == SamePeriod(s, t) /\ Drops(s, t, {s.hisCall})
<1>1. s \in State BY DEF Coherent
<1>2. /\ b \in Coherent /\ SameQueue(s, b) /\ SamePeriod(s, b)
      /\ b.hisCall = s.hisCall
  BY <1>1, ClearCallCoherent, MembersQueue DEF SetCallInProg, State
<1> HIDE DEF b
<1>3. b \in State BY <1>2 DEF Coherent
<1>4. /\ d \in Coherent /\ SameQueue(b, d) /\ SamePeriod(b, d) /\ d.hisCall = b.hisCall
  <2> DEFINE i == IncrFailCount(b, s.hisCall)
  <2>1. i \in Coherent BY <1>2, FailCountCoherent
  <2>2. SameQueue(b, i) /\ SamePeriod(b, i) BY <1>3, MembersQueue
  <2>3. i.hisCall = b.hisCall BY <1>3 DEF IncrFailCount, State
  <2>4. SameQueue(b, b) /\ SamePeriod(b, b) BY QueueSteps DEF SameQueue
  <2> QED BY <1>2, <2>1, <2>2, <2>3, <2>4
<1>5. TimeOut(s) = [w EXCEPT !.msgAtEndTx = NoSent] BY DEF TimeOut, b, d
<1> HIDE DEF d
<1>6. Worked(s, d)
  <2>1. SamePeriod(s, d) BY <1>2, <1>4, QueueSteps
  <2> QED BY <1>2, <1>4, <2>1 DEF Worked, SameQueue, Queued
<1>7. w \in State /\ SamePeriod(d, w) /\ Drops(d, w, {d.hisCall})
  BY <1>4, TxWatchdogQueue, TxWatchdogCoherent DEF Coherent
<1> HIDE DEF w
<1>8. SamePeriod(s, w) /\ Drops(s, w, {s.hisCall}) BY <1>6, <1>7, WorkedThen
<1>9. SameQueue(w, TimeOut(s)) /\ TimeOut(s).slot = w.slot /\ TimeOut(s).tx = w.tx
  BY <1>5, <1>7 DEF SameQueue, State
<1>10. SamePeriod(w, TimeOut(s)) BY <1>9, QueueSteps
<1>11. Good(TimeOut(s))
  BY <1>8, <1>9, <1>10, QueueSteps DEF Drops, SameQueue, Queued
<1>12. ASSUME NEW n, NEW v,
              CountRepeat(s) = [s EXCEPT !.dupTxCount = n, !.msgAtEndTx = v]
       PROVE  Good(CountRepeat(s))
  <2> DEFINE t == CountRepeat(s)
  <2>1. SameQueue(s, t) /\ t.slot = s.slot /\ t.tx = s.tx
    BY <1>1, <1>12 DEF SameQueue, State
  <2> HIDE DEF t
  <2>2. Good(t) BY <2>1, QueueSteps DEF Drops, SameQueue, Queued
  <2> HIDE DEF Good
  <2> QED BY <2>2 DEF t
<1>13. TimeOut(s) = CountRepeat(s)
       \/ \E n, v : CountRepeat(s) = [s EXCEPT !.dupTxCount = n, !.msgAtEndTx = v]
  BY DEF CountRepeat
<1> HIDE DEF Good
<1>14. Good(CountRepeat(s)) BY <1>11, <1>12, <1>13
<1> QED BY <1>14 DEF Good

\* The end of a transmission takes only m_hisCall from the queue.
LEMMA StopTxQueue ==
  ASSUME NEW s \in Coherent, ~s.restart, NEW short
  PROVE  SamePeriod(s, StopTx(s, short)) /\ Drops(s, StopTx(s, short), {s.hisCall})
<1> DEFINE ph == IF s.tx = "cut" /\ short THEN "cut" ELSE "sent"
           a  == [s EXCEPT !.tx = "off", !.phase = ph]
           r  == RecordSent(a)
           e  == IF EarlyLog /\ AnyAuto(r) /\ r.cur.k = 4 /\ Loggable(r)
                   THEN LogHisCall(r) ELSE r
           x  == IF Loggable(r) THEN SelectLogMethod(r) ELSE r
           w  == TxWatchdog(x)
           q  == [r EXCEPT !.dupTxCount = 0, !.msgAtEndTx = NoSent]
           Good(t) == SamePeriod(s, t) /\ Drops(s, t, {s.hisCall})
<1>1. s \in State /\ Linked(s) BY DEF Coherent
<1>2. ph \in {"due", "early", "sent", "cut", "over"} /\ "off" \in TxStates
  BY DEF TxStates
<1> HIDE DEF ph
<1>3. a \in State BY <1>1, <1>2, UpdateType
<1>4. Linked(a) BY <1>1 DEF Linked, State
<1>5. a \in Coherent BY <1>3, <1>4 DEF Coherent
<1>6. /\ SameQueue(s, a) /\ a.slot = s.slot /\ a.tx = "off" /\ a.hisCall = s.hisCall
  BY <1>1 DEF SameQueue, State
<1> HIDE DEF a
<1>7. r \in Coherent /\ r \in State BY <1>5, RecordSentCoherent DEF Coherent
<1>8. SameQueue(s, r) /\ r.slot = s.slot /\ r.tx = "off" /\ r.hisCall = s.hisCall
  BY <1>3, <1>6 DEF RecordSent, SameQueue, State
<1>9. StopTx(s, short) = IF short            THEN r
                         ELSE IF Ends73(r)   THEN SignOff(r)
                         ELSE IF r.cur.k = 6 THEN q
                         ELSE CountRepeat(e)
  BY DEF StopTx, e, r, a, ph
<1>10. SignOff(r) = IF AnyAuto(w) THEN w ELSE SetToCq(w) BY DEF SignOff
<1> HIDE DEF r
<1>11. Worked(s, r) BY <1>8, QueueSteps DEF Worked, SameQueue, Queued
<1>12. \A t \in {LogHisCall(r), SelectLogMethod(r)} : Worked(s, t)
  <2>1. TAKE t \in {LogHisCall(r), SelectLogMethod(r)}
  <2>2. /\ SamePeriod(r, t) /\ t.txPar = r.txPar
        /\ t.hisCall \in {r.hisCall, NoCall}
        /\ Queued(r) \ {r.hisCall} \subseteq Queued(t)
    BY <1>7, SelectLogMethodQueue
  <2> HIDE DEF w
  <2>3. SamePeriod(s, t) BY <1>11, <2>2, QueueSteps DEF Worked
  <2>4. Queued(s) = Queued(r) BY <1>8 DEF SameQueue, Queued
  <2> QED BY <1>8, <2>2, <2>3, <2>4 DEF Worked, SameQueue
<1>13. e \in Coherent /\ Worked(s, e) BY <1>7, <1>11, <1>12, LogHisCallCoherent
<1>14. x \in Coherent /\ Worked(s, x) BY <1>7, <1>11, <1>12, SelectLogMethodCoherent
<1> HIDE DEF e, x
<1>15. Good(CountRepeat(e)) BY <1>13, CountRepeatQueue, WorkedThen
<1>16. Good(w) /\ w \in State
  BY <1>14, TxWatchdogQueue, TxWatchdogCoherent, WorkedThen DEF Coherent
<1> HIDE DEF w
<1>17. Good(SetToCq(w))
  <2>1. SameQueue(w, SetToCq(w)) /\ SamePeriod(w, SetToCq(w)) BY <1>16, MembersQueue
  <2>2. SamePeriod(s, SetToCq(w)) BY <1>16, <2>1, QueueSteps
  <2> QED BY <1>16, <2>1, <2>2, QueueSteps
<1>18. Good(r) BY <1>11 DEF Worked, Drops
<1>19. Good(q)
  <2>1. SameQueue(r, q) /\ q.slot = r.slot /\ q.tx = r.tx BY <1>7 DEF SameQueue, State
  <2> HIDE DEF q
  <2>2. SamePeriod(r, q) BY <2>1, QueueSteps
  <2>3. SamePeriod(s, q) BY <1>18, <2>2, QueueSteps
  <2> QED BY <1>18, <2>1, <2>3, QueueSteps
<1> HIDE DEF Good, q
<1>20. Good(StopTx(s, short)) BY <1>9, <1>10, <1>15, <1>16, <1>17, <1>18, <1>19
<1> QED BY <1>20 DEF Good

\* Getting older changes no period, and adds one to an age at most.
LEMMA AgeAllQueue ==
  ASSUME NEW s \in Coherent
  PROVE  LET t == AgeAll(s)
         IN /\ SamePeriod(s, t) /\ t.txPar = s.txPar /\ t.hisCall = s.hisCall
            /\ Queued(t) = Queued(s)
            /\ \A c \in Calls : t.msgMap[c].age <= s.msgMap[c].age + 1
<1> DEFINE t == AgeAll(s)
<1>1. s \in State BY DEF Coherent
<1>2. /\ t.slot = s.slot /\ t.tx = s.tx /\ t.txPar = s.txPar /\ t.hisCall = s.hisCall
      /\ \A c \in Calls : t.msgMap[c] = Older(s.msgMap[c])
  BY <1>1 DEF AgeAll, State
<1> HIDE DEF t
<1>3. \A m \in AnyMessage : /\ Older(m).par = m.par /\ Older(m).age <= m.age + 1
                            /\ Older(m) = NoMsg <=> m = NoMsg
  <2>1. TAKE m \in AnyMessage
  <2>2. CASE m = NoMsg BY <2>2 DEF Older, NoMsg
  <2>3. CASE m \in Messages
    <3> DEFINE v == IF m.age < MaxAge THEN m.age + 1 ELSE m.age
    <3>1. m # NoMsg /\ m.kind # "none" BY <2>3 DEF Messages, Kinds, NoMsg
    <3>2. Older(m) = [m EXCEPT !.age = v] BY <3>1 DEF Older
    <3>3. v <= m.age + 1 BY <2>3, LimitAssumption DEF Messages
    <3> HIDE DEF v
    <3>4. /\ Older(m).par = m.par /\ Older(m).kind = m.kind /\ Older(m).age = v
      BY <2>3, <3>2 DEF Messages
    <3> QED BY <3>1, <3>3, <3>4 DEF NoMsg
  <2> QED BY <2>2, <2>3 DEF AnyMessage
<1>4. \A c \in Calls : s.msgMap[c] \in AnyMessage BY <1>1 DEF State
<1>5. Queued(t) = Queued(s) BY <1>2, <1>3, <1>4 DEF Queued
<1>6. SamePeriod(s, t)
  BY <1>2, <1>3, <1>4, <1>5 DEF SamePeriod, OutOfPeriod, CorrectPeriod
<1>7. \A c \in Calls : t.msgMap[c].age <= s.msgMap[c].age + 1 BY <1>2, <1>3, <1>4
<1>8. /\ SamePeriod(s, t) /\ t.txPar = s.txPar /\ t.hisCall = s.hisCall
      /\ Queued(t) = Queued(s)
      /\ \A c \in Calls : t.msgMap[c].age <= s.msgMap[c].age + 1
  BY <1>2, <1>5, <1>6, <1>7
<1> QED BY <1>8 DEF t

\* The decoder's start drops the calls that are too old, and m_hisCall.
LEMMA DecodeBusyQueue ==
  ASSUME NEW s \in Coherent, NEW cleanup
  PROVE  LET t == DecodeBusy(s, cleanup)
         IN /\ SamePeriod(s, t)
            /\ Drops(s, t, {s.hisCall} \cup {c \in Calls : cleanup /\ s.msgMap[c].age >= MaxAge})
<1> DEFINE x == CheckExpiredCallInfo(s)
           a == IF cleanup THEN x ELSE s
           S == {s.hisCall} \cup {c \in Calls : cleanup /\ s.msgMap[c].age >= MaxAge}
           Good(t) == SamePeriod(s, t) /\ Drops(s, t, S)
<1>1. s \in State BY DEF Coherent
<1>2. /\ SamePeriod(s, x) /\ x.txPar = s.txPar /\ x.hisCall = s.hisCall
      /\ \A c \in Queued(s) \ Queued(x) : s.msgMap[c].age >= MaxAge
  <2>1. /\ x.slot = s.slot /\ x.tx = s.tx /\ x.txPar = s.txPar /\ x.hisCall = s.hisCall
        /\ \A c \in Calls : x.msgMap[c] = IF s.msgMap[c].age >= MaxAge THEN NoMsg
                                                                      ELSE s.msgMap[c]
    BY <1>1 DEF CheckExpiredCallInfo, State
  <2> HIDE DEF x
  <2> QED BY <2>1 DEF SamePeriod, OutOfPeriod, Queued, CorrectPeriod
<1>3. a \in Coherent BY CheckExpiredCallInfoCoherent
<1> HIDE DEF x
<1>4. /\ SamePeriod(s, a) /\ a.txPar = s.txPar /\ a.hisCall = s.hisCall
      /\ Queued(s) \ S \subseteq Queued(a)
  <2>1. CASE cleanup
    <3>1. \A c \in Queued(s) \ S : ~(s.msgMap[c].age >= MaxAge)
      BY <2>1 DEF Queued
    <3> HIDE DEF S
    <3> QED BY <1>2, <2>1, <3>1
  <2>2. CASE ~cleanup BY <2>2, QueueSteps
  <2> QED BY <2>1, <2>2
<1>5. \/ DecodeBusy(s, cleanup) \in {a, TxWatchdog(a)}
      \/ Queued(a) # {} /\ DecodeBusy(s, cleanup) = ProcessNext(a)
  BY DEF DecodeBusy, a, x
<1> HIDE DEF a
<1>6. s.hisCall \in S OBVIOUS
<1> HIDE DEF S
<1>7. Good(a) BY <1>4 DEF Drops
<1>8. Good(TxWatchdog(a))
  <2>1. SamePeriod(a, TxWatchdog(a)) /\ Drops(a, TxWatchdog(a), {a.hisCall})
    BY <1>3, TxWatchdogQueue
  <2>2. SamePeriod(s, TxWatchdog(a)) BY <1>4, <2>1, QueueSteps
  <2> QED BY <1>4, <1>6, <2>1, <2>2 DEF Drops
<1>9. Queued(a) # {} => Good(ProcessNext(a))
  <2>1. SUFFICES ASSUME Queued(a) # {} PROVE Good(ProcessNext(a)) OBVIOUS
  <2>2. SamePeriod(a, ProcessNext(a)) /\ Drops(a, ProcessNext(a), {})
    BY <1>3, <2>1, TxWatchdogQueue
  <2>3. SamePeriod(s, ProcessNext(a)) BY <1>4, <2>2, QueueSteps
  <2> QED BY <1>4, <2>2, <2>3 DEF Drops
<1> HIDE DEF Good
<1>10. Good(DecodeBusy(s, cleanup)) BY <1>5, <1>7, <1>8, <1>9
<1> QED BY <1>10 DEF Good, S

\* What QueueInPeriod says of one step.
OnlyInPeriod ==
  \A c \in Calls : OutOfPeriod(st', c) =>
    \/ OutOfPeriod(st, c)
    \/ c \in HeardNow /\ (st'.msgMap[c] = st.reportsRecd[c] \/ st.tx = "cut")

\* What QueuedUntilServed says of one step, and the calls it may drop.
Served ==
  \A c \in Queued(st) \ Queued(st') :
    \/ c = st.hisCall
    \/ c \in st'.loggedCalls \ st.loggedCalls
    \/ c = st.logDlg
    \/ MaxAge > 0 /\ st.msgMap[c].age + 1 >= MaxAge
    \/ st'.txPar # st.txPar
    \/ ByCommand
Droppable == {st.hisCall, st.logDlg}
             \cup {c \in Calls : MaxAge > 0 /\ st.msgMap[c].age + 1 >= MaxAge}

\* Settled calls a transmission off and leaves queue, period and log alone.
LEMMA SettledQueue ==
  ASSUME NEW s \in State
  PROVE  LET t == Settled(s)
         IN /\ t.msgMap = s.msgMap /\ t.txPar = s.txPar /\ t.slot = s.slot
            /\ t.tx = s.tx /\ t.loggedCalls = s.loggedCalls
BY DEF Settled, State

\* A step that gets nothing out of its slot or period.
LEMMA StepInPeriod ==
  ASSUME NEW s \in State, st' = Settled(s), TxInSlot(s),
         \A c \in Calls : OutOfPeriod(s, c) => OutOfPeriod(st, c)
  PROVE  TxInSlot(st') /\ OnlyInPeriod
<1>1. /\ st'.msgMap = s.msgMap /\ st'.txPar = s.txPar /\ st'.slot = s.slot /\ st'.tx = s.tx
  BY SettledQueue
<1>2. \A c \in Calls : OutOfPeriod(st', c) => OutOfPeriod(s, c)
  BY <1>1 DEF OutOfPeriod, Queued, CorrectPeriod
<1> QED BY <1>1, <1>2 DEF TxInSlot, OnlyInPeriod

\* A step that drops only calls it may drop.
LEMMA StepServes ==
  ASSUME NEW s \in State, st' = Settled(s), NEW S, S \subseteq Droppable,
         DropsLogged(st, s, S)
  PROVE  Served
<1>1. st'.msgMap = s.msgMap /\ st'.txPar = s.txPar /\ st'.loggedCalls = s.loggedCalls
  BY SettledQueue
<1>2. Queued(st') = Queued(s) BY <1>1 DEF Queued
<1> QED BY <1>1, <1>2 DEF DropsLogged, Served, Droppable

\* Nothing gets out of its period with the operator's commands.
LEMMA CommandInPeriod ==
  ASSUME TxInSlot(st), NEW s \in State, NEW name, Command(name, s), SamePeriod(st, s)
  PROVE  TxInSlot(st') /\ OnlyInPeriod
<1>1. st' = Settled(s) BY DEF Command
<1>2. TxInSlot(s) BY DEF SamePeriod, TxInSlot
<1>3. \A c \in Calls : OutOfPeriod(s, c) => OutOfPeriod(st, c) BY DEF SamePeriod
<1> QED BY <1>1, <1>2, <1>3, StepInPeriod

\* The operator's buttons, clicks and settings.
LEMMA PersonInPeriod ==
  ASSUME IInv, TxInSlot(st), Person
  PROVE  TxInSlot(st') /\ OnlyInPeriod
<1> DEFINE Good == TxInSlot(st') /\ OnlyInPeriod
<1>1. st \in Coherent /\ st \in State BY IInvMeaning DEF Coherent
<1>2. ASSUME NEW s \in Coherent, NEW name, Command(name, s), SamePeriod(st, s) PROVE Good
  BY <1>2, CommandInPeriod DEF Coherent
<1> HIDE DEF Good
<1>3. ASSUME NEW t \in Coherent
      PROVE  /\ TxWatchdog(t) \in Coherent /\ SamePeriod(t, TxWatchdog(t))
             /\ ResetWatchdog(t) \in Coherent /\ SamePeriod(t, ResetWatchdog(t))
  <2>1. t \in State BY DEF Coherent
  <2> QED BY <2>1, TxWatchdogCoherent, TxWatchdogQueue, ResetWatchdogCoherent, MembersQueue
<1>4. ASSUME NEW t \in Coherent, t.msgMap = st.msgMap, t.txPar = st.txPar,
             t.slot = st.slot, t.tx = st.tx
      PROVE  SamePeriod(st, t)
  BY <1>4, QueueSteps DEF SameQueue
<1>5. ASSUME CqButton \/ ListenButton PROVE Good
  <2> DEFINE A == {[st EXCEPT !.mode = "manual", !.auto = FALSE],
                   [st EXCEPT !.mode = "cq", !.auto = TRUE],
                   [st EXCEPT !.mode = "listen"],
                   [st EXCEPT !.mode = "listen", !.auto = TRUE]}
  <2>1. \A t \in A : t \in Coherent /\ SamePeriod(st, t)
    <3>1. \A v \in {"manual", "cq", "listen"} : [st EXCEPT !.mode = v] \in Coherent
      BY <1>1, UpdateCoherent
    <3>2. \A v \in {"manual", "cq", "listen"} : \A b \in BOOLEAN :
            [[st EXCEPT !.mode = v] EXCEPT !.auto = b] \in Coherent
      BY <3>1, UpdateCoherent
    <3>3. \A t \in A : t \in Coherent BY <3>1, <3>2
    <3>4. \A t \in A : /\ t.msgMap = st.msgMap /\ t.txPar = st.txPar
                       /\ t.slot = st.slot /\ t.tx = st.tx
      <4>1. TAKE t \in A
      <4>2. CASE t = [st EXCEPT !.mode = "listen"] BY <1>1, <4>2 DEF State
      <4>3. CASE t = [st EXCEPT !.mode = "manual", !.auto = FALSE] BY <1>1, <4>3 DEF State
      <4>4. CASE t = [st EXCEPT !.mode = "cq", !.auto = TRUE] BY <1>1, <4>4 DEF State
      <4>5. CASE t = [st EXCEPT !.mode = "listen", !.auto = TRUE] BY <1>1, <4>5 DEF State
      <4> QED BY <4>2, <4>3, <4>4, <4>5
    <3> HIDE DEF A
    <3> QED BY <1>4, <3>3, <3>4
  <2>2. \E t \in A : \E name : \/ Command(name, ResetWatchdog(t))
                               \/ Command(name, ResetWatchdog(TxWatchdog(t)))
    <3>1. CASE CqButton BY <3>1 DEF CqButton
    <3>2. CASE ListenButton BY <3>2 DEF ListenButton
    <3> QED BY <1>5, <3>1, <3>2
  <2> HIDE DEF A
  <2>3. PICK t \in Coherent :
          /\ SamePeriod(st, t)
          /\ \E name : \/ Command(name, ResetWatchdog(t))
                       \/ Command(name, ResetWatchdog(TxWatchdog(t)))
    BY <2>1, <2>2
  <2>4. ResetWatchdog(t) \in Coherent /\ SamePeriod(st, ResetWatchdog(t))
    BY <1>3, <2>3, QueueSteps
  <2>5. TxWatchdog(t) \in Coherent /\ SamePeriod(st, TxWatchdog(t))
    BY <1>3, <2>3, QueueSteps
  <2>6. /\ ResetWatchdog(TxWatchdog(t)) \in Coherent
        /\ SamePeriod(st, ResetWatchdog(TxWatchdog(t)))
    BY <1>3, <2>5, QueueSteps
  <2> QED BY <1>2, <2>3, <2>4, <2>6
<1>6. ASSUME AutoButton PROVE Good
  <2> DEFINE on == ~st.auto
             s  == [st EXCEPT !.auto = on]
  <2>1. on \in BOOLEAN OBVIOUS
  <2>2. Command("auto", s) BY <1>6 DEF AutoButton
  <2> HIDE DEF on
  <2>3. s \in Coherent BY <1>1, <2>1, UpdateCoherent
  <2>4. SamePeriod(st, s) BY <1>1, <1>4, <2>3 DEF State
  <2> QED BY <1>2, <2>2, <2>3, <2>4
<1>7. ASSUME StopTxButtonClicked PROVE Good
  BY <1>1, <1>2, <1>7, StopTxButtonCoherent, MembersQueue DEF StopTxButtonClicked
<1>8. ASSUME NEW t \in Coherent, \A c \in Calls : t.msgMap[c] = NoMsg,
             t.slot = st.slot, t.txPar = st.txPar, t.tx = st.tx
      PROVE  SamePeriod(st, t)
  BY <1>8 DEF SamePeriod, OutOfPeriod, Queued
<1>9. ASSUME Escape PROVE Good
  <2> DEFINE none == [c \in Calls |-> NoMsg]
             a == [st EXCEPT !.msgMap = none]
             b == StopTxButton(a)
             d == ClearDX(b)
             e == [d EXCEPT !.auto = FALSE]
  <2>1. none \in [Calls -> AnyMessage] /\ FALSE \in BOOLEAN BY DEF AnyMessage
  <2>2. Command("escape", e) BY <1>9 DEF Escape
  <2>3. \A c \in Calls : none[c] = NoMsg OBVIOUS
  <2> HIDE DEF none
  <2>4. a \in Coherent BY <1>1, <2>1, UpdateCoherent
  <2>5. a.msgMap = none /\ a.slot = st.slot /\ a.txPar = st.txPar /\ a.tx = st.tx
    BY <1>1 DEF State
  <2> HIDE DEF a
  <2>6. a \in State /\ SamePeriod(st, a) BY <1>8, <2>3, <2>4, <2>5 DEF Coherent
  <2>7. b \in Coherent /\ SamePeriod(st, b)
    BY <2>4, <2>6, StopTxButtonCoherent, MembersQueue, QueueSteps
  <2> HIDE DEF b
  <2>8. b \in State BY <2>7 DEF Coherent
  <2>9. d \in Coherent /\ SamePeriod(st, d)
    BY <2>7, <2>8, ClearDXCoherent, MembersQueue, QueueSteps
  <2> HIDE DEF d
  <2>10. e \in Coherent BY <2>1, <2>9, UpdateCoherent
  <2>11. SameQueue(d, e) /\ e.slot = d.slot /\ e.tx = d.tx
    BY <2>9 DEF SameQueue, Coherent, State
  <2> HIDE DEF e
  <2>12. SamePeriod(st, e) BY <2>9, <2>11, QueueSteps
  <2> QED BY <1>2, <2>2, <2>10, <2>12
<1>10. ASSUME NEW c \in Calls, NEW kind \in Heard, NEW back \in 0..1,
              DoubleClickOnCall(c, kind, back)
       PROVE  Good
  <2> DEFINE m == Shown(kind, back)
             p == RemoveMessage(st, c)
             f == ClearFailCount(p, c)
             a == IF st.msgMap[c] = NoMsg THEN st ELSE f
             b == ResetWatchdog(a)
             q == ProcessMessage(b, c, m)
  <2>1. kind \in Kinds BY HeardAssumption
  <2>2. m \in AnyMessage BY <1>1, <2>1, ShownType
  <2>3. Command("dblclick", q) BY <1>10 DEF DoubleClickOnCall
  <2> HIDE DEF m
  <2>4. p \in Coherent /\ SamePeriod(st, p)
    BY <1>1, RemoveMessageCoherent, RemoveMessageQueue
  <2> HIDE DEF p
  <2>5. p \in State BY <2>4 DEF Coherent
  <2>6. f \in Coherent /\ SamePeriod(st, f)
    BY <2>4, <2>5, FailCountCoherent, MembersQueue, QueueSteps
  <2> HIDE DEF f
  <2>7. a \in Coherent /\ SamePeriod(st, a) BY <1>1, <2>6, QueueSteps
  <2> HIDE DEF a
  <2>8. b \in Coherent /\ SamePeriod(st, b) BY <1>3, <2>7, QueueSteps
  <2> HIDE DEF b
  <2>9. q \in Coherent /\ SamePeriod(b, q)
    BY <2>2, <2>8, ProcessMessageCoherent, ProcessMessageQueue
  <2> HIDE DEF q
  <2>10. SamePeriod(st, q) BY <2>8, <2>9, QueueSteps
  <2> QED BY <1>2, <2>3, <2>9, <2>10
<1>11. ASSUME NEW c \in Calls, NEW kind \in Heard, NEW back \in 0..1,
              CtrlDoubleClickOnCall(c, kind, back)
       PROVE  Good
  <2> DEFINE m == Shown(Stripped(kind), back)
             a == SetPeriod(st, 1 - m.par)
             q == SaveMessage(a, c, m)
             s == IF c = a.hisCall /\ a.auto THEN a ELSE q
  <2>1. kind \in Kinds BY HeardAssumption
  <2>2. Stripped(kind) \in Kinds BY <1>1, <2>1, ShownType
  <2>3. m \in AnyMessage /\ m.kind \in Kinds
    BY <1>1, <2>2, ShownType DEF Shown
  <2>4. Command("ctrlclick", s) BY <1>11 DEF CtrlDoubleClickOnCall
  <2> HIDE DEF m
  <2>5. m \in Messages /\ m.par \in 0..1 /\ 1 - m.par \in 0..1
    BY <2>3 DEF AnyMessage, Messages, NoMsg, Kinds
  <2>6. a \in Coherent /\ SamePeriod(st, a) /\ a.txPar = 1 - m.par
    BY <1>1, <2>5, SetPeriodCoherent, SetPeriodQueue
  <2> HIDE DEF a
  <2>7. a \in State BY <2>6 DEF Coherent
  <2>8. q \in Coherent BY <2>3, <2>6, SaveMessageCoherent
  <2>9. /\ q.slot = a.slot /\ q.tx = a.tx /\ q.txPar = a.txPar
        /\ q.msgMap[c] = m /\ \A d \in Calls \ {c} : q.msgMap[d] = a.msgMap[d]
    BY <2>5, <2>7, SaveMessageQueue
  <2> HIDE DEF q
  <2>10. SamePeriod(a, q)
    <3>1. ~OutOfPeriod(q, c) BY <2>5, <2>6, <2>9 DEF OutOfPeriod, CorrectPeriod
    <3>2. \A d \in Calls \ {c} : OutOfPeriod(q, d) => OutOfPeriod(a, d)
      BY <2>9 DEF OutOfPeriod, Queued, CorrectPeriod
    <3> QED BY <2>9, <3>1, <3>2 DEF SamePeriod
  <2>11. SamePeriod(st, q) BY <2>6, <2>10, QueueSteps
  <2>12. s \in Coherent /\ SamePeriod(st, s) BY <2>6, <2>8, <2>11
  <2> HIDE DEF s
  <2> QED BY <1>2, <2>4, <2>12
<1>12. ASSUME NEW n \in Limits \cup {0}, TxRepeatChanged(n) PROVE Good
  <2> DEFINE a == [st EXCEPT !.limit = n]
             f == ClearFailCount(a, a.callInProg)
             s == IF n = 0 THEN f ELSE a
  <2>1. Command("limit", s) BY <1>1, <1>12 DEF TxRepeatChanged, State
  <2>2. a \in Coherent BY <1>1, UpdateCoherent
  <2>3. SamePeriod(st, a) BY <1>1, <1>4, <2>2 DEF State
  <2> HIDE DEF a
  <2>4. f \in Coherent /\ SamePeriod(a, f)
    BY <2>2, FailCountCoherent, MembersQueue DEF Coherent
  <2> HIDE DEF f
  <2>5. s \in Coherent /\ SamePeriod(st, s) BY <2>2, <2>3, <2>4, QueueSteps
  <2> HIDE DEF s
  <2> QED BY <1>2, <2>1, <2>5
<1>13. ASSUME TxFirstChanged PROVE Good
  <2>1. 1 - st.txPar \in 0..1 BY <1>1 DEF State
  <2>2. SetPeriod(st, 1 - st.txPar) \in Coherent BY <1>1, <2>1, SetPeriodCoherent
  <2>3. SamePeriod(st, SetPeriod(st, 1 - st.txPar)) BY <1>1, <2>1, SetPeriodQueue
  <2> QED BY <1>2, <1>13, <2>2, <2>3 DEF TxFirstChanged
<1>14. ASSUME BandChanged PROVE Good
  <2> DEFINE p == StopTxButton(st)
             a == ClearAllCallInfo(p)
             b == [a EXCEPT !.logBook = {}]
  <2>1. p \in Coherent /\ SamePeriod(st, p) BY <1>1, StopTxButtonCoherent, MembersQueue
  <2>2. Command("band", b) BY <1>14 DEF BandChanged
  <2>3. {} \in SUBSET (Calls \cup {NoCall}) OBVIOUS
  <2> HIDE DEF p
  <2>4. p \in State BY <2>1 DEF Coherent
  <2>5. a \in Coherent BY <2>1, ClearAllCallInfoCoherent
  <2>6. /\ a.slot = p.slot /\ a.txPar = p.txPar /\ a.tx = p.tx
        /\ \A c \in Calls : a.msgMap[c] = NoMsg
    BY <2>4 DEF ClearAllCallInfo, SetCallInProg, State
  <2> HIDE DEF a
  <2>7. b \in Coherent BY <2>3, <2>5, UpdateCoherent
  <2>8. b.slot = a.slot /\ b.txPar = a.txPar /\ b.tx = a.tx /\ b.msgMap = a.msgMap
    BY <2>5 DEF Coherent, State
  <2> HIDE DEF b
  <2>9. SamePeriod(p, b) BY <2>6, <2>8 DEF SamePeriod, OutOfPeriod, Queued
  <2>10. SamePeriod(st, b) BY <2>1, <2>9, QueueSteps
  <2> QED BY <1>2, <2>2, <2>7, <2>10
<1>15. ASSUME LogQSOButton PROVE Good
  <2>1. LogHisCall(st) \in Coherent BY <1>1, LogHisCallCoherent
  <2>2. SamePeriod(st, LogHisCall(st)) BY <1>1, SelectLogMethodQueue
  <2> QED BY <1>2, <1>15, <2>1, <2>2 DEF LogQSOButton
<1>16. Good
  BY <1>5, <1>6, <1>7, <1>9, <1>10, <1>11, <1>12, <1>13, <1>14, <1>15 DEF Person
<1> QED BY <1>16 DEF Good

\* The end of a slot: the queue gets older, and the decoder's start serves it.
LEMMA SlotEndsQueue ==
  ASSUME IInv, NEW cleanup \in BOOLEAN, SlotEnds(cleanup)
  PROVE  TxInSlot(st') /\ OnlyInPeriod /\ Served
<1> DEFINE heard == IF st.phase = "over" THEN Calls ELSE {}
           par == 1 - st.slot
           d == [st EXCEPT !.slot = par, !.phase = "due", !.unheard = heard]
           e == AgeAll(d)
           f == DecodeBusy(e, cleanup)
<1>1. st \in Coherent /\ st \in State BY IInvMeaning DEF Coherent
<1>2. par \in 0..1 /\ heard \in SUBSET Calls BY <1>1 DEF State
<1>3. "due" \in {"due", "early", "sent", "cut", "over"} OBVIOUS
<1>4. /\ st.tx = "off" /\ (cleanup => MaxAge > 0)
      /\ Step(f) \/ (Step(e) /\ ~cleanup)
  BY DEF SlotEnds
<1> HIDE DEF heard, par
<1>5. d \in State BY <1>1, <1>2, <1>3, UpdateType
<1>6. Linked(d) BY <1>1 DEF Coherent, Linked, State
<1>7. /\ d.msgMap = st.msgMap /\ d.txPar = st.txPar /\ d.tx = "off"
      /\ d.hisCall = st.hisCall /\ d.loggedCalls = st.loggedCalls
  BY <1>1, <1>4 DEF State
<1> HIDE DEF d
<1>8. d \in Coherent BY <1>5, <1>6 DEF Coherent
<1>9. /\ SamePeriod(d, e) /\ e.txPar = d.txPar /\ e.hisCall = d.hisCall
      /\ Queued(e) = Queued(d)
      /\ \A c \in Calls : e.msgMap[c].age <= d.msgMap[c].age + 1
  BY <1>8, AgeAllQueue
<1>10. e \in Coherent BY <1>8, AgeAllCoherent
<1> HIDE DEF e
<1> DEFINE S == {e.hisCall} \cup {c \in Calls : cleanup /\ e.msgMap[c].age >= MaxAge}
<1>11. /\ SamePeriod(e, f) /\ Drops(e, f, S)
       /\ f \in Coherent
  BY <1>10, DecodeBusyQueue, DecodeBusyCoherent
<1> HIDE DEF f
<1>12. S \subseteq Droppable
  <2>1. \A c \in Calls : st.msgMap[c].age \in Nat /\ e.msgMap[c].age \in Nat
    <3>1. \A m \in AnyMessage : m.age \in Nat
      BY LimitAssumption DEF AnyMessage, Messages, NoMsg
    <3> QED BY <1>1, <1>10, <3>1 DEF Coherent, State
  <2>2. \A c \in Calls : cleanup /\ e.msgMap[c].age >= MaxAge
                           => MaxAge > 0 /\ st.msgMap[c].age + 1 >= MaxAge
    BY <1>4, <1>7, <1>9, <2>1, LimitAssumption
  <2> QED BY <1>7, <1>9, <2>2 DEF Droppable
<1>13. Queued(d) = Queued(st) BY <1>7 DEF Queued
<1>14. \A c \in Calls : OutOfPeriod(d, c) => OutOfPeriod(st, c)
  BY <1>7 DEF OutOfPeriod, Queued, CorrectPeriod
<1> HIDE DEF S
<1>15. ASSUME NEW t \in State, Step(t), SamePeriod(d, t), Drops(e, t, S)
       PROVE  TxInSlot(st') /\ OnlyInPeriod /\ Served
  <2>1. st' = Settled(t) BY <1>15 DEF Step
  <2>2. TxInSlot(t) BY <1>7, <1>15 DEF SamePeriod, TxInSlot
  <2>3. \A c \in Calls : OutOfPeriod(t, c) => OutOfPeriod(st, c)
    BY <1>14, <1>15 DEF SamePeriod
  <2>4. DropsLogged(st, t, S) BY <1>7, <1>9, <1>13, <1>15 DEF Drops, DropsLogged
  <2> QED BY <1>12, <2>1, <2>2, <2>3, <2>4, StepInPeriod, StepServes
<1>16. SamePeriod(d, f) BY <1>9, <1>11, QueueSteps
<1>17. Drops(e, e, S) BY DEF Drops
<1>18. e \in State /\ f \in State BY <1>10, <1>11 DEF Coherent
<1> QED BY <1>4, <1>9, <1>11, <1>15, <1>16, <1>17, <1>18

\* A decoded line.
LEMMA DecodeLineQueue ==
  ASSUME IInv, TxInSlot(st), NEW c \in Calls, NEW kind \in Heard, NEW early \in BOOLEAN,
         DecodeLine(c, kind, early)
  PROVE  TxInSlot(st') /\ OnlyInPeriod /\ Served
<1> DEFINE m == [kind |-> kind, par |-> 1 - st.slot, age |-> 0]
           rest == st.unheard \ {c}
           a == [st EXCEPT !.unheard = rest]
           s == Decode(a, c, m, early)
<1>1. st \in Coherent /\ st \in State BY IInvMeaning DEF Coherent
<1>2. 1 - st.slot \in 0..1 /\ rest \in SUBSET Calls BY <1>1 DEF State
<1>3. kind \in Kinds BY HeardAssumption
<1>4. m \in Messages /\ m \in AnyMessage /\ m.par = 1 - st.slot
  BY <1>2, <1>3, LimitAssumption DEF AnyMessage, Messages
<1>5. /\ Step(s) /\ left' = [left EXCEPT !.lines = @ - 1]
      /\ early => Transmitting(st)
  BY DEF DecodeLine
<1> HIDE DEF m, rest
<1>6. a \in Coherent BY <1>1, <1>2, UpdateCoherent
<1>7. /\ a.msgMap = st.msgMap /\ a.txPar = st.txPar /\ a.slot = st.slot /\ a.tx = st.tx
      /\ a.hisCall = st.hisCall /\ a.loggedCalls = st.loggedCalls
      /\ a.reportsRecd = st.reportsRecd
  BY <1>1 DEF State
<1> HIDE DEF a
<1>8. TxInSlot(a) /\ m.par = 1 - a.slot /\ (early => Transmitting(a))
  BY <1>4, <1>5, <1>7 DEF TxInSlot, Transmitting
<1>9. /\ s.slot = a.slot
      /\ s.tx \in {"on", "late"} => a.tx \in {"on", "late"} /\ s.txPar = a.txPar
      /\ \A d \in Calls : OutOfPeriod(s, d) =>
           \/ OutOfPeriod(a, d)
           \/ d = c /\ (s.msgMap[c] = a.reportsRecd[c] \/ a.tx = "cut")
      /\ DropsLogged(a, s, {a.hisCall})
  BY <1>4, <1>6, <1>8, DecodeQueue
<1>10. s \in State BY <1>4, <1>6, DecodeCoherent DEF Coherent
<1> HIDE DEF s
<1>11. st' = Settled(s) BY <1>5 DEF Step
<1>12. st'.msgMap = s.msgMap /\ st'.txPar = s.txPar /\ st'.slot = s.slot /\ st'.tx = s.tx
  BY <1>10, <1>11, SettledQueue
<1>13. HeardNow = {c}
  <2>1. st.unheard \ st'.unheard = {c} BY DecodeLineEffect
  <2>2. left'.lines < left.lines BY <1>5, IInvMeaning, BoundAssumption DEF Counts
  <2> QED BY <2>1, <2>2 DEF HeardNow
<1>14. TxInSlot(st') BY <1>7, <1>9, <1>12 DEF TxInSlot
<1>15. OnlyInPeriod
  <2>1. \A d \in Calls : OutOfPeriod(st', d) => OutOfPeriod(s, d)
    BY <1>12 DEF OutOfPeriod, Queued, CorrectPeriod
  <2>2. \A d \in Calls : OutOfPeriod(a, d) => OutOfPeriod(st, d)
    BY <1>7 DEF OutOfPeriod, Queued, CorrectPeriod
  <2> QED BY <1>7, <1>9, <1>12, <1>13, <2>1, <2>2 DEF OnlyInPeriod
<1>16. Served
  <2>1. Queued(a) = Queued(st) BY <1>7 DEF Queued
  <2>2. DropsLogged(st, s, {st.hisCall}) BY <1>7, <1>9, <2>1 DEF DropsLogged
  <2>3. {st.hisCall} \subseteq Droppable BY DEF Droppable
  <2> QED BY <1>10, <1>11, <2>2, <2>3, StepServes
<1> QED BY <1>14, <1>15, <1>16

\* What the program does by itself.
LEMMA ProgramQueue ==
  ASSUME IInv, TxInSlot(st), Clock \/ Watchdog \/ Decoder \/ LogDialog
  PROVE  TxInSlot(st') /\ OnlyInPeriod /\ Served
<1> DEFINE Good == TxInSlot(st') /\ OnlyInPeriod /\ Served
<1>1. st \in Coherent /\ st \in State BY IInvMeaning DEF Coherent
<1>2. ASSUME NEW s \in State, st' = Settled(s), TxInSlot(s),
             \A c \in Calls : OutOfPeriod(s, c) => OutOfPeriod(st, c),
             NEW S, S \subseteq Droppable, DropsLogged(st, s, S)
      PROVE  Good
  BY <1>2, StepInPeriod, StepServes
<1> HIDE DEF Good
<1>3. ASSUME NEW s \in State, st' = Settled(s), SamePeriod(st, s),
             NEW S, S \subseteq Droppable, Drops(st, s, S)
      PROVE  Good
  <2>1. TxInSlot(s) BY <1>3 DEF SamePeriod, TxInSlot
  <2>2. DropsLogged(st, s, S) BY <1>3 DEF Drops, DropsLogged
  <2> QED BY <1>2, <1>3, <2>1, <2>2 DEF SamePeriod
<1>4. ASSUME NEW s \in State, st' = Settled(s), TxInSlot(s), SameQueue(st, s) PROVE Good
  <2>1. {} \subseteq Droppable OBVIOUS
  <2>2. \A c \in Calls : OutOfPeriod(s, c) => OutOfPeriod(st, c)
    BY <1>4 DEF SameQueue, OutOfPeriod, Queued, CorrectPeriod
  <2>3. DropsLogged(st, s, {}) BY <1>4 DEF SameQueue, DropsLogged, Queued
  <2> QED BY <1>2, <1>4, <2>1, <2>2, <2>3
<1>5. /\ {st.hisCall} \subseteq Droppable /\ {st.logDlg} \subseteq Droppable
      /\ {} \subseteq Droppable
  BY DEF Droppable
<1>6. ASSUME NEW late \in BOOLEAN, StartTx(late) PROVE Good
  <2> DEFINE cur  == CurrentMessage(st)
             tx   == IF late THEN "late" ELSE "on"
             pref == IF st.limit # 0 THEN st.limit ELSE st.prefTxLimit
             s == [st EXCEPT !.tx = tx, !.phase = "sent", !.cur = cur, !.prefTxLimit = pref]
  <2>1. Step(s) /\ st.slot = st.txPar BY <1>6 DEF StartTx, TxDue
  <2>2. tx \in TxStates /\ pref \in Limits BY <1>1 DEF TxStates, State
  <2>3. cur \in Sent \cup {NoSent} BY <1>1 DEF CurrentMessage, State, Sent
  <2>4. "sent" \in {"due", "early", "sent", "cut", "over"} OBVIOUS
  <2> HIDE DEF cur, tx, pref
  <2>5. s \in State BY <1>1, <2>2, <2>3, <2>4, UpdateType
  <2>6. SameQueue(st, s) /\ s.slot = st.slot BY <1>1 DEF SameQueue, State
  <2>7. TxInSlot(s) BY <2>1, <2>6 DEF TxInSlot, SameQueue
  <2>8. st' = Settled(s) BY <2>1 DEF Step
  <2> QED BY <1>4, <2>5, <2>6, <2>7, <2>8
<1>7. ASSUME NEW s \in State, st' = Settled(s), s.msgMap = st.msgMap, s.txPar = st.txPar,
             s.slot = st.slot, s.tx = st.tx
      PROVE  Good
  BY <1>4, <1>7 DEF SameQueue, TxInSlot
<1>8. ASSUME RestartTx PROVE Good
  <2> DEFINE cur == CurrentMessage(st)
             s == [st EXCEPT !.restart = FALSE, !.cur = cur]
  <2>1. st' = Settled(s) BY <1>8 DEF RestartTx, Step
  <2>2. cur \in Sent \cup {NoSent} /\ FALSE \in BOOLEAN
    BY <1>1 DEF CurrentMessage, State, Sent
  <2> HIDE DEF cur
  <2>3. s \in State BY <1>1, <2>2, UpdateType
  <2>4. /\ s.msgMap = st.msgMap /\ s.txPar = st.txPar /\ s.slot = st.slot /\ s.tx = st.tx
    BY <1>1 DEF State
  <2> QED BY <1>7, <2>1, <2>3, <2>4
<1>9. ASSUME SlotLate PROVE Good
  <2> DEFINE ph == IF st.phase = "early" THEN "over" ELSE "sent"
             s == [st EXCEPT !.phase = ph]
  <2>1. ph \in {"due", "early", "sent", "cut", "over"} OBVIOUS
  <2>2. st' = Settled(s) BY <1>9 DEF SlotLate, Step
  <2> HIDE DEF ph
  <2>3. s \in State BY <1>1, <2>1, UpdateType
  <2>4. /\ s.msgMap = st.msgMap /\ s.txPar = st.txPar /\ s.slot = st.slot /\ s.tx = st.tx
    BY <1>1 DEF State
  <2> QED BY <1>7, <2>2, <2>3, <2>4
<1>10. ASSUME NEW short \in BOOLEAN, EndTx(short) PROVE Good
  <2> DEFINE s == StopTx(st, short)
  <2>1. ~st.restart /\ st' = Settled(s) BY <1>10 DEF EndTx
  <2>2. /\ s \in State /\ SamePeriod(st, s) /\ Drops(st, s, {st.hisCall})
    BY <1>1, <2>1, StopTxCoherent, StopTxQueue DEF Coherent
  <2> HIDE DEF s
  <2> QED BY <1>3, <1>5, <2>1, <2>2
<1>11. ASSUME NEW cleanup \in BOOLEAN, SlotEnds(cleanup) PROVE Good
  BY <1>11, SlotEndsQueue DEF Good
<1>12. ASSUME RunawayWatchdog PROVE Good
  <2> DEFINE w == TxWatchdog(st)
             t == [w EXCEPT !.tx = IF @ = "off" THEN @ ELSE "cut"]
  <2>1. /\ w \in Coherent /\ w \in State
        /\ SamePeriod(st, w) /\ Drops(st, w, {st.hisCall})
    BY <1>1, TxWatchdogCoherent, TxWatchdogQueue DEF Coherent
  <2>2. st' = Settled(t) BY <1>12 DEF RunawayWatchdog, Step
  <2> HIDE DEF w
  <2>3. t \in State BY <2>1, CutCoherent DEF Coherent
  <2>4. SameQueue(w, t) /\ t.slot = w.slot /\ t.tx \in {"off", "cut"}
    BY <2>1 DEF SameQueue, State
  <2> HIDE DEF t
  <2>5. SamePeriod(st, t) BY <2>1, <2>4, QueueSteps
  <2>6. Drops(st, t, {st.hisCall}) BY <2>1, <2>4, QueueSteps
  <2> QED BY <1>3, <1>5, <2>2, <2>3, <2>5, <2>6
<1>13. ASSUME NEW c \in Calls, NEW kind \in Heard, NEW early \in BOOLEAN,
              DecodeLine(c, kind, early)
       PROVE  Good
  BY <1>13, DecodeLineQueue DEF Good
<1>14. ASSUME DecodeFinished PROVE Good
  <2> DEFINE s == [st EXCEPT !.unheard = {}]
  <2>1. {} \in SUBSET Calls /\ st' = Settled(s) BY <1>14 DEF DecodeFinished, Step
  <2>2. s \in State BY <1>1, <2>1, UpdateType
  <2>3. /\ s.msgMap = st.msgMap /\ s.txPar = st.txPar /\ s.slot = st.slot /\ s.tx = st.tx
    BY <1>1 DEF State
  <2> QED BY <1>7, <2>1, <2>2, <2>3
<1>15. ASSUME LogTimer PROVE Good
  <2> DEFINE a == [st EXCEPT !.logTimer = FALSE]
             s == LogHisCall(a)
  <2>1. FALSE \in BOOLEAN /\ st' = Settled(s) BY <1>15 DEF LogTimer, Logs
  <2>2. a \in Coherent BY <1>1, <2>1, UpdateCoherent
  <2>3. SameQueue(st, a) /\ a.slot = st.slot /\ a.tx = st.tx /\ a.hisCall = st.hisCall
    BY <1>1 DEF SameQueue, State
  <2> HIDE DEF a
  <2>4. /\ s \in State /\ SamePeriod(a, s) /\ s.txPar = a.txPar
        /\ Queued(a) \ {a.hisCall} \subseteq Queued(s)
    BY <2>2, LogHisCallCoherent, SelectLogMethodQueue DEF Coherent
  <2> HIDE DEF s
  <2>5. SamePeriod(st, s) BY <2>3, <2>4, QueueSteps
  <2>6. Drops(st, s, {st.hisCall}) BY <2>3, <2>4 DEF Drops, SameQueue, Queued
  <2> QED BY <1>3, <1>5, <2>1, <2>4, <2>5, <2>6
<1>16. ASSUME LogDialogAccept PROVE Good
  <2> DEFINE c == st.logDlg
             a == [st EXCEPT !.logDlg = Hidden]
             s == AcceptQSO(a, c)
  <2>1. /\ Hidden \in Calls \cup {NoCall, Hidden} /\ st' = Settled(s)
        /\ c # Hidden
    BY <1>16 DEF LogDialogAccept, Logs
  <2>2. c \in Calls \cup {NoCall} BY <1>1, <2>1 DEF State
  <2>3. a \in Coherent BY <1>1, <2>1, UpdateCoherent
  <2>4. SameQueue(st, a) /\ a.slot = st.slot /\ a.tx = st.tx BY <1>1 DEF SameQueue, State
  <2>5. c = st.logDlg OBVIOUS
  <2> HIDE DEF a, c
  <2>6. /\ s \in State /\ SamePeriod(a, s) /\ s.txPar = a.txPar
        /\ Queued(a) \ {c} \subseteq Queued(s)
    BY <2>2, <2>3, AcceptQSOCoherent, AcceptQueue DEF Coherent
  <2> HIDE DEF s
  <2>7. SamePeriod(st, s) BY <2>4, <2>6, QueueSteps
  <2>8. Drops(st, s, {st.logDlg}) BY <2>4, <2>5, <2>6 DEF Drops, SameQueue, Queued
  <2> QED BY <1>3, <1>5, <2>1, <2>6, <2>7, <2>8
<1>17. ASSUME LogDialogReject PROVE Good
  <2> DEFINE s == [st EXCEPT !.logDlg = Hidden]
  <2>1. Hidden \in Calls \cup {NoCall, Hidden} /\ st' = Settled(s)
    BY <1>17 DEF LogDialogReject, Step
  <2>2. s \in State BY <1>1, <2>1, UpdateType
  <2>3. /\ s.msgMap = st.msgMap /\ s.txPar = st.txPar /\ s.slot = st.slot /\ s.tx = st.tx
    BY <1>1 DEF State
  <2> QED BY <1>7, <2>1, <2>2, <2>3
<1>18. Good
  BY <1>6, <1>8, <1>9, <1>10, <1>11, <1>12, <1>13, <1>14, <1>15, <1>16, <1>17
     DEF Clock, Watchdog, Decoder, LogDialog
<1> QED BY <1>18 DEF Good

\* What one step does to slot, period and queue.
LEMMA NextQueue ==
  ASSUME IInv, TxInSlot(st), [Next]_vars
  PROVE  TxInSlot(st') /\ [OnlyInPeriod]_vars /\ [Served]_vars
<1>1. CASE UNCHANGED vars BY <1>1 DEF vars
<1>2. CASE Person
  <2>1. TxInSlot(st') /\ OnlyInPeriod BY <1>2, PersonInPeriod
  <2>2. Served BY <1>2, PersonCommands DEF Served
  <2> QED BY <2>1, <2>2
<1>3. CASE Clock \/ Watchdog \/ Decoder \/ LogDialog BY <1>3, ProgramQueue
<1> QED BY <1>1, <1>2, <1>3 DEF Next

\* Whoever changes the period and whenever lines are decoded, no call gets out of
\* period in the queue but for the two exceptions of QueueInPeriod, for any number
\* of stations and any settings.
THEOREM QueueStaysInPeriod == Spec => QueueInPeriod
<1> DEFINE Slot == TxInSlot(st)
<1>1. Init => Slot BY DEF Init, TxInSlot
<1>2. ASSUME IInv, Slot, [Next]_vars PROVE Slot' /\ [OnlyInPeriod]_vars
  BY <1>2, NextQueue DEF TxInSlot
<1>3. Spec => Init /\ [][Next]_vars BY DEF Spec
<1> HIDE DEF Slot
<1> QED BY <1>1, <1>2, <1>3, Invariance, PTL DEF QueueInPeriod, OnlyInPeriod

\* No step forgets a queued call, but for the reasons QueuedUntilServed lists, for
\* any number of stations and any settings.
THEOREM QueuedCallsServed == Spec => QueuedUntilServed
<1> DEFINE Slot == TxInSlot(st)
<1>1. Init => Slot BY DEF Init, TxInSlot
<1>2. ASSUME IInv, Slot, [Next]_vars PROVE Slot' /\ [Served]_vars
  BY <1>2, NextQueue DEF TxInSlot
<1>3. Spec => Init /\ [][Next]_vars BY DEF Spec
<1> HIDE DEF Slot
<1> QED BY <1>1, <1>2, <1>3, Invariance, PTL DEF QueuedUntilServed, Served
=============================================================================
