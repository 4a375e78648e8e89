------------------------------ MODULE RigProofs ------------------------------
(***************************************************************************)
(* Proofs about rig control, for any set of frequencies and any number of  *)
(* polls: the types of both threads' members, that an instance that is     *)
(* offline left the radio unkeyed, that PTT ends up as asked for last,     *)
(* that rig control reports to its clients as RigReports says, and that    *)
(* with nothing on its way they have seen the state reported last, and PTT *)
(* as it is.                                                               *)
(*                                                                         *)
(* The operators on the rig's thread are shown one by one to keep types    *)
(* and to do to PTT and to requested_.online what the invariant needs; the *)
(* actions compose them.                                                   *)
(***************************************************************************)
EXTENDS Rig, TLAPS, SequenceTheorems, WellFoundedInduction

Rigs == [requested : TransceiverState, actual : TransceiverState,
         last : TransceiverState, next : TransceiverState,
         signalled : TransceiverState, retries : 0..Polls, num : Nat]
Shows  == [freq : Frequencies, ptt : BOOLEAN]
Radios == [freq : Frequencies, ptt : BOOLEAN, shown : Shows]
Events == [op : {"update", "failure"}, s : TransceiverState, num : Nat]
Calls  == [op : {"start", "set", "stop"}, s : TransceiverState, num : Nat]
Confs  == [active : BOOLEAN, num : Nat, cached : TransceiverState, calls : Seq(Calls)]
Budgets == [commands : 0..MaxCommands, turns : 0..MaxTurns, faults : 0..MaxFaults]

\* What the operators on the rig's thread work on.
Threads == [rig : Rigs, radio : Radios, events : Seq(Events)]

Online(x) == x.rig.requested.online
Released(x) == ~Online(x) => ~x.radio.ptt
-----------------------------------------------------------------------------
\* A default constructed state is a state.
LEMMA UnknownType == Unknown \in TransceiverState
BY DEF Unknown, TransceiverState

\* The members of a new instance have their types.
LEMMA InstanceType == Instance \in Rigs
BY UnknownType, RadioAssumption DEF Instance, Rigs

\* Posting an event changes nothing else.
LEMMA EmitKeeps ==
  ASSUME NEW x \in Threads, NEW linked \in BOOLEAN, NEW e \in Events
  PROVE  /\ Emit(x, linked, e) \in Threads
         /\ Emit(x, linked, e).rig = x.rig /\ Emit(x, linked, e).radio = x.radio
<1>1. Append(x.events, e) \in Seq(Events) BY DEF Threads
<1> QED BY <1>1 DEF Emit, Threads

\* A forced update only records what was reported last.
LEMMA UpdateKeeps ==
  ASSUME NEW x \in Threads, NEW linked \in BOOLEAN
  PROVE  /\ Update(x, linked) \in Threads
         /\ Online(Update(x, linked)) = Online(x)
         /\ Update(x, linked).radio = x.radio
<1> DEFINE e == [op |-> "update", s |-> x.rig.actual, num |-> x.rig.num]
           y == Emit(x, linked, e)
<1>1. e \in Events BY DEF Threads, Rigs, Events
<1>2. y \in Threads /\ y.rig = x.rig /\ y.radio = x.radio BY <1>1, EmitKeeps
<1>3. Update(x, linked) = [y EXCEPT !.rig.last = x.rig.actual] BY DEF Update
<1> HIDE DEF y
<1>4. [y EXCEPT !.rig.last = x.rig.actual] \in Threads BY <1>2 DEF Threads, Rigs
<1> QED BY <1>2, <1>3, <1>4 DEF Threads, Rigs, Online

\* So does one that is sent only if something changed.
LEMMA UpdateCompleteKeeps ==
  ASSUME NEW x \in Threads, NEW linked \in BOOLEAN
  PROVE  /\ UpdateComplete(x, linked) \in Threads
         /\ Online(UpdateComplete(x, linked)) = Online(x)
         /\ UpdateComplete(x, linked).radio = x.radio
BY UpdateKeeps DEF UpdateComplete

\* Expecting a state touches neither what was requested nor the number.
LEMMA ExpectType ==
  ASSUME NEW r \in Rigs, NEW s \in TransceiverState
  PROVE  Expect(r, s) \in Rigs /\ Expect(r, s).requested = r.requested
<1>1. Polls \in 0..Polls BY RadioAssumption
<1> QED BY <1>1 DEF Expect, Rigs

\* The radio keys and unkeys as told.
LEMMA RadioPttType ==
  ASSUME NEW x \in Threads, NEW on \in BOOLEAN
  PROVE  /\ RadioPtt(x, on) \in Threads /\ RadioPtt(x, on).rig = x.rig
         /\ RadioPtt(x, on).radio.ptt = on
<1>1. x.radio \in Radios BY DEF Threads
<1>2. [x.radio EXCEPT !.ptt = on, !.shown.ptt = IF LagPtt THEN @ ELSE on] \in Radios
  BY <1>1, RadioAssumption DEF Radios, Shows
<1> QED BY <1>1, <1>2 DEF RadioPtt, Threads, Radios, Shows

\* And tunes, which leaves PTT alone.
LEMMA RadioFrequencyType ==
  ASSUME NEW x \in Threads, NEW f \in Frequencies
  PROVE  /\ RadioFrequency(x, f) \in Threads /\ RadioFrequency(x, f).rig = x.rig
         /\ RadioFrequency(x, f).radio.ptt = x.radio.ptt
<1>1. x.radio \in Radios BY DEF Threads
<1>2. [x.radio EXCEPT !.freq = f, !.shown.freq = IF LagFreq THEN @ ELSE f] \in Radios
  BY <1>1, RadioAssumption DEF Radios, Shows
<1> QED BY <1>1, <1>2 DEF RadioFrequency, Threads, Radios, Shows

\* do_ptt keys the radio and leaves what was requested alone.
LEMMA DoPttType ==
  ASSUME NEW x \in Threads, NEW on \in BOOLEAN
  PROVE  /\ DoPtt(x, on) \in Threads /\ Online(DoPtt(x, on)) = Online(x)
         /\ DoPtt(x, on).radio.ptt = on
<1> DEFINE y == RadioPtt(x, on)
           a == [y.rig EXCEPT !.actual.ptt = on]
           n == [y.rig.next EXCEPT !.ptt = on]
<1>1. y \in Threads /\ y.rig = x.rig /\ y.radio.ptt = on BY RadioPttType
<1> HIDE DEF y
<1>2. a \in Rigs /\ a.requested = y.rig.requested /\ n \in TransceiverState
  BY <1>1 DEF Threads, Rigs, TransceiverState
<1>3. Expect(a, n) \in Rigs /\ Expect(a, n).requested = y.rig.requested
  BY <1>2, ExpectType
<1>4. DoPtt(x, on) = [y EXCEPT !.rig = Expect(a, n)] BY <1>1 DEF DoPtt, y, Threads
<1> HIDE DEF a, n
<1> QED BY <1>1, <1>3, <1>4 DEF Threads, Online

\* do_frequency leaves PTT and the connection alone.
LEMMA DoFrequencyType ==
  ASSUME NEW x \in Threads, NEW f \in Frequencies
  PROVE  /\ DoFrequency(x, f) \in Threads /\ Online(DoFrequency(x, f)) = Online(x)
         /\ DoFrequency(x, f).radio.ptt = x.radio.ptt
<1> DEFINE y == RadioFrequency(x, f)
           a == [y.rig EXCEPT !.actual.freq = f, !.requested.freq = f]
           n == [y.rig.next EXCEPT !.freq = f]
<1>1. y \in Threads /\ y.rig = x.rig /\ y.radio.ptt = x.radio.ptt BY RadioFrequencyType
<1> HIDE DEF y
<1>2. /\ a \in Rigs /\ a.requested.online = y.rig.requested.online
      /\ n \in TransceiverState
  BY <1>1 DEF Threads, Rigs, TransceiverState
<1>3. Expect(a, n) \in Rigs /\ Expect(a, n).requested = a.requested
  BY <1>2, ExpectType
<1>4. DoFrequency(x, f) = [y EXCEPT !.rig = Expect(a, n)]
  BY <1>1 DEF DoFrequency, y, Threads
<1> HIDE DEF a, n
<1> QED BY <1>1, <1>2, <1>3, <1>4 DEF Threads, Online
-----------------------------------------------------------------------------
\* Reading the radio changes neither the radio nor the connection.
LEMMA PollType ==
  ASSUME NEW x \in Threads
  PROVE  /\ PollFrequency(x) \in Threads /\ Poll(x) \in Threads
         /\ Online(PollFrequency(x)) = Online(x) /\ Online(Poll(x)) = Online(x)
         /\ PollFrequency(x).radio = x.radio /\ Poll(x).radio = x.radio
<1> DEFINE y == PollFrequency(x)
<1>1. x.radio.shown.freq \in Frequencies /\ x.radio.shown.ptt \in BOOLEAN
  BY DEF Threads, Radios, Shows
<1>2. y \in Threads /\ Online(y) = Online(x) /\ y.radio = x.radio
  BY <1>1 DEF PollFrequency, Threads, Rigs, TransceiverState, Online
<1>3. Poll(x) = [y EXCEPT !.rig.actual.ptt = x.radio.shown.ptt] BY DEF Poll
<1> HIDE DEF y
<1>4. /\ [y EXCEPT !.rig.actual.ptt = x.radio.shown.ptt] \in Threads
      /\ [y EXCEPT !.rig.actual.ptt = x.radio.shown.ptt].radio = y.radio
      /\ Online([y EXCEPT !.rig.actual.ptt = x.radio.shown.ptt]) = Online(y)
  BY <1>1, <1>2 DEF Threads, Rigs, TransceiverState, Online
<1> QED BY <1>2, <1>3, <1>4 DEF y

\* shutdown goes offline, and drops PTT when the connection was up.
LEMMA ShutdownType ==
  ASSUME NEW x \in Threads, NEW linked \in BOOLEAN, NEW drops \in BOOLEAN
  PROVE  /\ Shutdown(x, linked, drops) \in Threads
         /\ ~Online(Shutdown(x, linked, drops))
         /\ drops /\ Released(x) => ~Shutdown(x, linked, drops).radio.ptt
<1> DEFINE y == IF Online(x) /\ drops THEN DoPtt(x, FALSE) ELSE x
           z == [y EXCEPT !.rig.actual.online = FALSE, !.rig.requested.online = FALSE]
<1>1. FALSE \in BOOLEAN OBVIOUS
<1>2. y \in Threads /\ (drops /\ Released(x) => ~y.radio.ptt)
  BY <1>1, DoPttType DEF Released
<1>3. Shutdown(x, linked, drops) = UpdateComplete(z, linked)
  BY DEF Shutdown, Online
<1> HIDE DEF y
<1>4. z \in Threads /\ ~Online(z) /\ z.radio = y.radio
  BY <1>2 DEF Threads, Rigs, TransceiverState, Online
<1> HIDE DEF z
<1> QED BY <1>2, <1>3, <1>4, UpdateCompleteKeeps

\* startup brings the connection up.
LEMMA StartupType ==
  ASSUME NEW x \in Threads
  PROVE  Startup(x) \in Threads /\ Online(Startup(x))
<1> DEFINE y == Poll(x)
           a == [y.rig EXCEPT !.actual.online = TRUE, !.requested.online = TRUE]
           n == [y.rig.next EXCEPT !.online = TRUE]
<1>1. y \in Threads BY PollType
<1>2. Startup(x) = [y EXCEPT !.rig = Expect(a, n)] BY <1>1 DEF Startup, Threads
<1> HIDE DEF y
<1>3. a \in Rigs /\ a.requested.online /\ n \in TransceiverState
  BY <1>1 DEF Threads, Rigs, TransceiverState
<1>4. Expect(a, n) \in Rigs /\ Expect(a, n).requested = a.requested BY <1>3, ExpectType
<1> HIDE DEF a, n
<1> QED BY <1>1, <1>2, <1>3, <1>4 DEF Threads, Online

\* offline signals the failure and shuts down.
LEMMA OfflineType ==
  ASSUME NEW x \in Threads, NEW linked \in BOOLEAN, NEW drops \in BOOLEAN
  PROVE  /\ Offline(x, linked, drops) \in Threads
         /\ drops /\ Released(x) => Released(Offline(x, linked, drops))
<1> DEFINE e == [op |-> "failure", s |-> Unknown, num |-> 0]
           y == Emit(x, linked, e)
<1>1. e \in Events BY UnknownType DEF Events
<1>2. y \in Threads /\ y.rig = x.rig /\ y.radio = x.radio BY <1>1, EmitKeeps
<1>3. Offline(x, linked, drops) = Shutdown(y, linked, drops) BY DEF Offline
<1> HIDE DEF y
<1> QED BY <1>2, <1>3, ShutdownType DEF Released, Online

\* start, on a new instance, ends online.
LEMMA StartType ==
  ASSUME NEW x \in Threads, NEW num \in Nat, NEW linked \in BOOLEAN
  PROVE  Start(x, num, linked) \in Threads /\ Online(Start(x, num, linked))
<1> DEFINE i == [x EXCEPT !.rig = Instance]
           h == Shutdown(i, linked, TRUE)
           y == Startup(h)
           z == [y EXCEPT !.rig.num = num]
<1>1. i \in Threads BY InstanceType DEF Threads
<1>2. TRUE \in BOOLEAN OBVIOUS
<1> HIDE DEF i
<1>3. h \in Threads BY <1>1, <1>2, ShutdownType
<1> HIDE DEF h
<1>4. y \in Threads /\ Online(y) BY <1>3, StartupType
<1>5. Start(x, num, linked) = Update(z, linked) BY DEF Start, i, h
<1> HIDE DEF y
<1>6. z \in Threads /\ Online(z) BY <1>4 DEF Threads, Rigs, Online
<1> HIDE DEF z
<1> QED BY <1>5, <1>6, UpdateKeeps

\* Wherever set stops half-way, the connection is up, or down with PTT dropped.
LEMMA StepsType ==
  ASSUME NEW x \in Threads, NEW s \in TransceiverState, NEW linked \in BOOLEAN
  PROVE  /\ Steps(x, s, linked).done \in Threads
         /\ Online(Steps(x, s, linked).done)
         /\ \A y \in Steps(x, s, linked).thrown :
              y \in Threads /\ (Released(x) => Released(y))
<1> DEFINE h   == Shutdown(x, linked, TRUE)
           a   == IF x.rig.requested.online THEN x ELSE Startup(h)
           off == ~s.ptt /\ a.rig.requested.ptt
           on  == s.ptt /\ ~a.rig.requested.ptt
           b   == IF off THEN DoPtt(a, FALSE) ELSE a
           qsy == s.freq # 0 /\ (s.freq # b.rig.requested.freq \/ off)
           d   == IF qsy THEN DoFrequency(b, s.freq) ELSE b
           thrown == (IF x.rig.requested.online THEN {} ELSE {h})
                       \cup (IF off THEN {a, RadioPtt(a, FALSE)} ELSE {})
                       \cup (IF qsy THEN {b, RadioFrequency(b, s.freq)} ELSE {})
                       \cup (IF on THEN {d, RadioPtt(d, TRUE)} ELSE {})
           done == IF on THEN DoPtt(d, TRUE) ELSE d
<1>0. TRUE \in BOOLEAN /\ FALSE \in BOOLEAN OBVIOUS
<1>1. Steps(x, s, linked) = [done |-> done, thrown |-> thrown] BY DEF Steps
<1>2. h \in Threads /\ ~Online(h) /\ (Released(x) => Released(h))
  BY <1>0, ShutdownType DEF Released
<1> HIDE DEF h
<1>3. a \in Threads /\ Online(a) BY <1>2, StartupType DEF Online
<1> HIDE DEF a
<1>4. b \in Threads /\ Online(b) BY <1>0, <1>3, DoPttType
<1>5. RadioPtt(a, FALSE) \in Threads /\ Online(RadioPtt(a, FALSE))
  BY <1>0, <1>3, RadioPttType DEF Online
<1> HIDE DEF b, off
<1>6. qsy => s.freq \in Frequencies BY DEF TransceiverState
<1>7. d \in Threads /\ Online(d) BY <1>4, <1>6, DoFrequencyType
<1>8. qsy => /\ RadioFrequency(b, s.freq) \in Threads
             /\ Online(RadioFrequency(b, s.freq))
  BY <1>4, <1>6, RadioFrequencyType DEF Online
<1> HIDE DEF d, qsy
<1>9. RadioPtt(d, TRUE) \in Threads /\ Online(RadioPtt(d, TRUE))
  BY <1>0, <1>7, RadioPttType DEF Online
<1>10. done \in Threads /\ Online(done) BY <1>0, <1>7, DoPttType
<1> HIDE DEF on
<1>11. \A y \in thrown : y = h \/ (y \in Threads /\ Online(y))
  BY <1>3, <1>4, <1>5, <1>7, <1>8, <1>9
<1>12. \A y \in thrown : y \in Threads /\ (Released(x) => Released(y))
  BY <1>2, <1>11 DEF Released
<1> HIDE DEF done, thrown
<1> QED BY <1>1, <1>10, <1>12

\* set, when nothing throws, leaves the rig online.
LEMMA SetType ==
  ASSUME NEW x \in Threads, NEW s \in TransceiverState, NEW num \in Nat,
         NEW linked \in BOOLEAN
  PROVE  Set(x, s, num, linked) \in Threads /\ Online(Set(x, s, num, linked))
<1> DEFINE y == Steps(x, s, linked).done
           z == [y EXCEPT !.rig.requested.ptt = y.rig.actual.ptt, !.rig.num = num]
<1>1. y \in Threads /\ Online(y) BY StepsType
<1>2. Set(x, s, num, linked) = Update(z, linked) BY DEF Set
<1> HIDE DEF y
<1>3. z \in Threads /\ Online(z) BY <1>1 DEF Threads, Rigs, TransceiverState, Online
<1> HIDE DEF z
<1> QED BY <1>2, <1>3, UpdateKeeps

\* A poll leaves the radio and the connection alone.
LEMMA SyncType ==
  ASSUME NEW x \in Threads, NEW linked \in BOOLEAN
  PROVE  /\ Sync(x, linked) \in Threads /\ Online(Sync(x, linked)) = Online(x)
         /\ Sync(x, linked).radio = x.radio
<1> DEFINE p == Poll(x)
           z == [p EXCEPT !.rig.retries = 0, !.rig.next = p.rig.actual,
                          !.rig.signalled = p.rig.actual]
           w == [p EXCEPT !.rig.retries = IF @ > 0 THEN @ - 1 ELSE 0]
<1>1. p \in Threads /\ Online(p) = Online(x) /\ p.radio = x.radio BY PollType
<1>2. Sync(x, linked) \in {Update(z, linked), w} BY DEF Sync
<1> HIDE DEF p
<1>3. 0 \in 0..Polls BY RadioAssumption
<1>4. z \in Threads /\ Online(z) = Online(p) /\ z.radio = p.radio
  BY <1>1, <1>3 DEF Threads, Rigs, Online
<1>5. \A n \in 0..Polls : (IF n > 0 THEN n - 1 ELSE 0) \in 0..Polls BY RadioAssumption
<1>6. w \in Threads /\ Online(w) = Online(p) /\ w.radio = p.radio
  BY <1>1, <1>5 DEF Threads, Rigs, Online
<1> HIDE DEF z, w
<1> QED BY <1>1, <1>2, <1>4, <1>6, UpdateKeeps
-----------------------------------------------------------------------------
(* The queue of posted calls: an instance is started only after the one     *)
(* before it was told to stop.                                              *)

Handover(c, online) ==
  /\ \A i \in 1..Len(c.calls) - 1 :
       c.calls[i].op = "stop" <=> c.calls[i + 1].op = "start"
  /\ c.calls # <<>> /\ c.calls[1].op = "start" => ~online
  /\ c.calls = <<>> /\ ~c.active => ~online
  /\ c.calls # <<>> => (c.active <=> c.calls[Len(c.calls)].op # "stop")

\* Only the calls, whether the rig is active and whether it is online matter.
LEMMA HandoverSame ==
  ASSUME NEW c, NEW d, NEW online, d.calls = c.calls, d.active = c.active,
         Handover(c, online)
  PROVE  Handover(d, online)
BY DEF Handover

\* A call of a member function that posts to the rig's thread.
LEMMA PostType ==
  ASSUME NEW c \in Confs, NEW op \in {"start", "set"}
  PROVE  Post(c, op) \in Confs
<1> DEFINE e == [op |-> op, s |-> c.cached, num |-> c.num + 1]
<1>1. e \in Calls BY DEF Confs, Calls
<1>2. c.calls \in Seq(Calls) /\ Append(c.calls, e) \in Seq(Calls) /\ c.num + 1 \in Nat
  BY <1>1 DEF Confs
<1> QED BY <1>2 DEF Post, Confs

\* Appending a call in its proper place keeps the order.
LEMMA HandoverAppend ==
  ASSUME NEW c \in Confs, NEW d \in Confs, NEW e \in Calls, NEW online \in BOOLEAN,
         Handover(c, online), d.calls = Append(c.calls, e),
         d.active <=> e.op # "stop",
         e.op = "start" <=> ~c.active
  PROVE  Handover(d, online)
<1> DEFINE n == Len(c.calls)
<1>1. c.calls \in Seq(Calls) /\ n \in Nat BY DEF Confs
<1>2. /\ Len(d.calls) = n + 1 /\ d.calls[n + 1] = e /\ d.calls # <<>>
      /\ \A i \in 1..n : d.calls[i] = c.calls[i]
  BY <1>1
<1>3. c.calls = <<>> <=> n = 0 BY <1>1
<1>4. ASSUME NEW i \in 1..Len(d.calls) - 1
      PROVE  d.calls[i].op = "stop" <=> d.calls[i + 1].op = "start"
  <2>1. i \in 1..n BY <1>1, <1>2
  <2>2. CASE i = n
    <3>1. d.calls[i] = c.calls[n] /\ d.calls[i + 1] = e /\ c.calls # <<>>
      BY <1>1, <1>2, <1>3, <2>1, <2>2
    <3> QED BY <3>1 DEF Handover
  <2>3. CASE i # n
    <3>1. i \in 1..n - 1 /\ i + 1 \in 1..n BY <1>1, <2>1, <2>3
    <3>2. d.calls[i] = c.calls[i] /\ d.calls[i + 1] = c.calls[i + 1] BY <1>2, <3>1
    <3> QED BY <3>1, <3>2 DEF Handover
  <2> QED BY <2>2, <2>3
<1>5. d.calls[1].op = "start" => ~online
  <2>1. CASE n = 0 BY <1>2, <1>3, <2>1 DEF Handover
  <2>2. CASE n # 0
    <3>1. d.calls[1] = c.calls[1] /\ c.calls # <<>> BY <1>1, <1>2, <1>3, <2>2
    <3> QED BY <3>1 DEF Handover
  <2> QED BY <2>1, <2>2
<1> QED BY <1>2, <1>4, <1>5 DEF Handover

\* Taking the first call: a start comes next only after a stop.
LEMMA HandoverTail ==
  ASSUME NEW c \in Confs, NEW d \in Confs, NEW online \in BOOLEAN, NEW after \in BOOLEAN,
         Handover(c, online), c.calls # <<>>,
         d.calls = Tail(c.calls), d.active = c.active,
         c.calls[1].op = "stop" => ~after
  PROVE  Handover(d, after)
<1> DEFINE n == Len(c.calls)
<1>1. c.calls \in Seq(Calls) /\ n \in Nat /\ n > 0 BY DEF Confs
<1>2. Len(d.calls) = n - 1 /\ \A i \in 1..n - 1 : d.calls[i] = c.calls[i + 1]
  BY <1>1
<1>3. d.calls = <<>> <=> n = 1
  <2>1. d.calls \in Seq(Calls) BY DEF Confs
  <2>2. d.calls = <<>> <=> Len(d.calls) = 0 BY <2>1, EmptySeq
  <2> QED BY <1>1, <1>2, <2>2
<1>4. ASSUME NEW i \in 1..Len(d.calls) - 1
      PROVE  d.calls[i].op = "stop" <=> d.calls[i + 1].op = "start"
  <2>1. i + 1 \in 1..n - 1 /\ i \in 1..n - 1 BY <1>1, <1>2
  <2>2. d.calls[i] = c.calls[i + 1] /\ d.calls[i + 1] = c.calls[(i + 1) + 1]
    BY <1>2, <2>1
  <2> QED BY <2>1, <2>2 DEF Handover
<1>5. d.calls # <<>> /\ d.calls[1].op = "start" => ~after
  <2>1. d.calls # <<>> => 1 \in 1..n - 1 BY <1>1, <1>3
  <2>2. d.calls # <<>> => d.calls[1] = c.calls[1 + 1] BY <1>2, <2>1
  <2> QED BY <2>1, <2>2 DEF Handover
<1>6. d.calls = <<>> /\ ~d.active => ~after BY <1>3 DEF Handover
<1>7. d.calls # <<>> => d.calls[Len(d.calls)] = c.calls[n]
  <2>1. d.calls # <<>> => n - 1 \in 1..n - 1 BY <1>1, <1>3
  <2> QED BY <1>1, <1>2, <2>1
<1> QED BY <1>4, <1>5, <1>6, <1>7 DEF Handover
-----------------------------------------------------------------------------
(* The inductive invariant, and the actions. *)

RigInv ==
  /\ TypeOK
  /\ Handover(conf, rig.requested.online)
  /\ ~DropFails => PttReleased

\* What the invariant says of the parts the actions work on.
LEMMA RigInvMeaning ==
  ASSUME RigInv
  PROVE  /\ conf \in Confs /\ Here \in Threads /\ events \in Seq(Events)
         /\ view \in TransceiverState /\ budget \in Budgets
         /\ Handover(conf, Online(Here)) /\ Online(Here) \in BOOLEAN
         /\ ~DropFails => Released(Here)
<1>1. TypeOK /\ Handover(conf, rig.requested.online) /\ (~DropFails => PttReleased)
  BY DEF RigInv
<1>2. conf \in Confs BY <1>1 DEF TypeOK, Confs, Calls
<1>3. rig \in Rigs /\ events \in Seq(Events) BY <1>1 DEF TypeOK, Rigs, Events
<1>4. radio \in Radios BY <1>1 DEF TypeOK, Radios, Shows
<1>5. view \in TransceiverState /\ budget \in Budgets BY <1>1 DEF TypeOK, Budgets
<1>6. Here \in Threads /\ Here.rig = rig /\ Here.radio = radio
  BY <1>3, <1>4 DEF Here, Threads
<1>7. rig.requested.online \in BOOLEAN BY <1>3 DEF Rigs, TransceiverState
<1> QED BY <1>1, <1>2, <1>3, <1>5, <1>6, <1>7 DEF Online, Released, PttReleased

\* And what has to be shown of the next state.
LEMMA RigInvNext ==
  ASSUME conf' \in Confs, rig' \in Rigs, radio' \in Radios, events' \in Seq(Events),
         view' \in TransceiverState, budget' \in Budgets,
         Handover(conf', rig'.requested.online),
         ~DropFails => (~rig'.requested.online => ~radio'.ptt)
  PROVE  RigInv'
<1>1. TypeOK'
  BY DEF TypeOK, Confs, Calls, Rigs, Radios, Shows, Events, Budgets
<1>2. Handover(conf, rig.requested.online)' BY DEF Handover
<1>3. (~DropFails => PttReleased)' BY DEF PttReleased
<1> QED BY <1>1, <1>2, <1>3 DEF RigInv

\* A step of the rig's thread.
LEMMA ThreadStep ==
  ASSUME NEW y \in Threads, Becomes(y), conf' \in Confs, view' \in TransceiverState,
         budget' \in Budgets, Handover(conf', Online(y)), ~DropFails => Released(y)
  PROVE  RigInv'
<1>1. rig' = y.rig /\ radio' = y.radio /\ events' = y.events BY DEF Becomes
<1>2. rig' \in Rigs /\ radio' \in Radios /\ events' \in Seq(Events)
  BY <1>1 DEF Threads
<1> QED BY <1>1, <1>2, RigInvNext DEF Online, Released

\* A step of the GUI thread.
LEMMA GuiStep ==
  ASSUME RigInv, conf' \in Confs, view' \in TransceiverState,
         UNCHANGED <<rig, radio>>, events' \in Seq(Events), budget' \in Budgets,
         Handover(conf', Online(Here))
  PROVE  RigInv'
<1>1. Here \in Threads /\ (~DropFails => Released(Here)) BY RigInvMeaning
<1>2. rig' = Here.rig /\ radio' = Here.radio BY DEF Here
<1>3. rig' \in Rigs /\ radio' \in Radios BY <1>1, <1>2 DEF Threads
<1> QED BY <1>1, <1>2, <1>3, RigInvNext DEF Online, Released

\* A posted call taken from the queue, and what it is.
LEMMA TakenType ==
  ASSUME RigInv, NEW op, Taken(op)
  PROVE  /\ conf' \in Confs /\ Head(conf.calls) \in Calls
         /\ conf.calls[1].op = op
         /\ op = "start" => ~Online(Here)
         /\ \A after \in BOOLEAN : (op = "stop" => ~after) => Handover(conf', after)
<1>1. conf \in Confs /\ Handover(conf, Online(Here)) /\ Online(Here) \in BOOLEAN
  BY RigInvMeaning
<1>2. conf.calls \in Seq(Calls) /\ conf.calls # <<>> /\ Head(conf.calls).op = op
  BY <1>1 DEF Taken, Confs
<1>3. Head(conf.calls) = conf.calls[1] /\ Head(conf.calls) \in Calls
      /\ Tail(conf.calls) \in Seq(Calls)
  BY <1>2
<1>4. conf' = [conf EXCEPT !.calls = Tail(@)] BY DEF Taken
<1>5. conf' \in Confs /\ conf'.calls = Tail(conf.calls) /\ conf'.active = conf.active
  BY <1>1, <1>3, <1>4 DEF Confs
<1>6. op = "start" => ~Online(Here) BY <1>1, <1>2, <1>3 DEF Handover
<1>7. \A after \in BOOLEAN : (op = "stop" => ~after) => Handover(conf', after)
  <2> TAKE after \in BOOLEAN
  <2> HAVE op = "stop" => ~after
  <2> QED BY <1>1, <1>2, <1>3, <1>5, HandoverTail
<1> QED BY <1>2, <1>3, <1>5, <1>6, <1>7

\* Whether the signals arrive is a truth value.
LEMMA ConnectedType == ASSUME NEW c \in Confs PROVE Connected(c) \in BOOLEAN
BY DEF Connected, Confs

\* Using up a fault.
LEMMA FaultType == ASSUME budget \in Budgets, Fault PROVE budget' \in Budgets
<1>1. budget.faults - 1 \in 0..MaxFaults BY RigBoundAssumption DEF Fault, Budgets
<1> QED BY <1>1 DEF Fault, Budgets

\* start, whether it succeeds or throws.
LEMMA StartKeepsInv ==
  ASSUME RigInv, StartRig \/ \E drops \in Drops : StartFails(drops) PROVE RigInv'
<1>1. /\ conf \in Confs /\ Here \in Threads /\ view \in TransceiverState
      /\ budget \in Budgets /\ (~DropFails => Released(Here))
  BY RigInvMeaning
<1>2. Taken("start") BY DEF StartRig, StartFails
<1>3. /\ conf' \in Confs /\ Head(conf.calls).num \in Nat /\ ~Online(Here)
      /\ \A after \in BOOLEAN : Handover(conf', after)
  BY <1>2, TakenType DEF Calls
<1>4. Connected(conf') \in BOOLEAN BY <1>3, ConnectedType
<1>5. CASE StartRig
  <2> DEFINE y == Start(Here, Head(conf.calls).num, Connected(conf'))
  <2>1. y \in Threads /\ Online(y) BY <1>1, <1>3, <1>4, StartType
  <2>2. Becomes(y) /\ UNCHANGED <<view, budget>> BY <1>5 DEF StartRig
  <2> HIDE DEF y
  <2>3. Online(y) \in BOOLEAN BY <2>1 DEF Threads, Rigs, TransceiverState, Online
  <2>4. Handover(conf', Online(y)) /\ Released(y) BY <1>3, <2>1, <2>3 DEF Released
  <2> QED BY <1>1, <1>3, <2>1, <2>2, <2>4, ThreadStep
<1>6. ASSUME NEW drops \in Drops, StartFails(drops) PROVE RigInv'
  <2> DEFINE i == [Here EXCEPT !.rig = Instance]
             u == Update(i, Connected(conf'))
             y == Offline(u, Connected(conf'), drops)
  <2>1. drops \in BOOLEAN /\ (~DropFails => drops)
    BY RadioAssumption DEF Drops
  <2>2. i \in Threads /\ i.radio = Here.radio BY <1>1, InstanceType DEF Threads
  <2>3. Becomes(y) /\ view' = view /\ Fault BY <1>6 DEF StartFails
  <2> HIDE DEF i
  <2>4. u \in Threads /\ u.radio = Here.radio BY <1>4, <2>2, UpdateKeeps
  <2>5. ~DropFails => Released(u) BY <1>1, <1>3, <2>4 DEF Released
  <2> HIDE DEF u
  <2>6. y \in Threads /\ (~DropFails => Released(y))
    BY <1>4, <2>1, <2>4, <2>5, OfflineType
  <2> HIDE DEF y
  <2>7. Online(y) \in BOOLEAN BY <2>6 DEF Threads, Rigs, TransceiverState, Online
  <2>8. Handover(conf', Online(y)) BY <1>3, <2>7
  <2> QED BY <1>1, <1>3, <2>3, <2>6, <2>8, FaultType, ThreadStep
<1> QED BY <1>5, <1>6

\* set, whether it succeeds or throws on the way.
LEMMA SetKeepsInv ==
  ASSUME RigInv, SetRig \/ \E drops \in Drops : SetFails(drops) PROVE RigInv'
<1> DEFINE call == Head(conf.calls)
<1>1. /\ conf \in Confs /\ Here \in Threads /\ view \in TransceiverState
      /\ budget \in Budgets /\ (~DropFails => Released(Here))
  BY RigInvMeaning
<1>2. Taken("set") BY DEF SetRig, SetFails
<1>3. /\ conf' \in Confs /\ call.s \in TransceiverState /\ call.num \in Nat
      /\ \A after \in BOOLEAN : Handover(conf', after)
  BY <1>2, TakenType DEF Calls
<1>4. Connected(conf') \in BOOLEAN BY <1>3, ConnectedType
<1>5. CASE SetRig
  <2> DEFINE y == Set(Here, call.s, call.num, Connected(conf'))
  <2>1. y \in Threads /\ Online(y) BY <1>1, <1>3, <1>4, SetType
  <2>2. Becomes(y) /\ UNCHANGED <<view, budget>> BY <1>5 DEF SetRig
  <2> HIDE DEF y
  <2>3. Online(y) \in BOOLEAN BY <2>1 DEF Threads, Rigs, TransceiverState, Online
  <2>4. Handover(conf', Online(y)) /\ Released(y) BY <1>3, <2>1, <2>3 DEF Released
  <2> QED BY <1>1, <1>3, <2>1, <2>2, <2>4, ThreadStep
<1>6. ASSUME NEW drops \in Drops, SetFails(drops) PROVE RigInv'
  <2>1. drops \in BOOLEAN /\ (~DropFails => drops)
    BY RadioAssumption DEF Drops
  <2>2. view' = view /\ Fault BY <1>6 DEF SetFails
  <2>3. PICK x \in Steps(Here, call.s, Connected(conf')).thrown :
          Becomes(Offline(Update(x, Connected(conf')), Connected(conf'), drops))
    BY <1>6 DEF SetFails
  <2> DEFINE u == Update(x, Connected(conf'))
             y == Offline(u, Connected(conf'), drops)
  <2>4. x \in Threads /\ (~DropFails => Released(x))
    BY <1>1, <1>3, <1>4, StepsType
  <2>5. u \in Threads /\ (~DropFails => Released(u))
    BY <1>4, <2>4, UpdateKeeps DEF Released
  <2>6. Becomes(y) BY <2>3
  <2> HIDE DEF u
  <2>7. y \in Threads /\ (~DropFails => Released(y))
    BY <1>4, <2>1, <2>5, OfflineType
  <2> HIDE DEF y
  <2>8. Online(y) \in BOOLEAN BY <2>7 DEF Threads, Rigs, TransceiverState, Online
  <2>9. Handover(conf', Online(y)) BY <1>3, <2>8
  <2> QED BY <1>1, <1>3, <2>2, <2>6, <2>7, <2>9, FaultType, ThreadStep
<1> QED BY <1>5, <1>6

\* stop: offline, and nothing but a start may follow.
LEMMA StopKeepsInv ==
  ASSUME RigInv, NEW drops \in Drops, StopRig(drops) PROVE RigInv'
<1> DEFINE y == Shutdown(Here, FALSE, drops)
<1>1. /\ Here \in Threads /\ view \in TransceiverState
      /\ budget \in Budgets /\ (~DropFails => Released(Here))
  BY RigInvMeaning
<1>2. Taken("stop") /\ Becomes(y) /\ UNCHANGED <<view, budget>> BY DEF StopRig
<1>3. conf' \in Confs /\ Handover(conf', FALSE) BY <1>2, TakenType
<1>4. drops \in BOOLEAN /\ FALSE \in BOOLEAN /\ (~DropFails => drops)
  BY RadioAssumption DEF Drops
<1>5. /\ y \in Threads /\ ~Online(y)
      /\ ~DropFails => ~y.radio.ptt
  BY <1>1, <1>4, ShutdownType
<1> HIDE DEF y
<1>6. Online(y) = FALSE BY <1>5 DEF Threads, Rigs, TransceiverState, Online
<1> QED BY <1>1, <1>2, <1>3, <1>5, <1>6, ThreadStep DEF Released

\* The connection going down by itself leaves the queue in order.
LEMMA HandoverDown ==
  ASSUME NEW c, NEW online, NEW after, Handover(c, online), after => online
  PROVE  Handover(c, after)
BY DEF Handover

\* A poll, whether it succeeds or throws.
LEMMA PollKeepsInv ==
  ASSUME RigInv, PollTimer \/ \E drops \in Drops : PollFails(drops) PROVE RigInv'
<1>1. /\ conf \in Confs /\ Here \in Threads /\ view \in TransceiverState
      /\ budget \in Budgets /\ (~DropFails => Released(Here))
      /\ Handover(conf, Online(Here)) /\ Online(Here) \in BOOLEAN
  BY RigInvMeaning
<1>2. Connected(conf) \in BOOLEAN BY <1>1, ConnectedType
<1>3. CASE PollTimer
  <2> DEFINE y == Sync(Here, Connected(conf))
  <2>1. y \in Threads /\ Online(y) = Online(Here) /\ y.radio = Here.radio
    BY <1>1, <1>2, SyncType
  <2>2. Becomes(y) /\ UNCHANGED <<conf, view, budget>> BY <1>3 DEF PollTimer
  <2> HIDE DEF y
  <2>3. Handover(conf', Online(y)) BY <1>1, <2>1, <2>2
  <2>4. ~DropFails => Released(y) BY <1>1, <2>1 DEF Released
  <2> QED BY <1>1, <2>1, <2>2, <2>3, <2>4, ThreadStep
<1>4. ASSUME NEW drops \in Drops, PollFails(drops) PROVE RigInv'
  <2>1. drops \in BOOLEAN /\ (~DropFails => drops)
    BY RadioAssumption DEF Drops
  <2>2. UNCHANGED <<conf, view>> /\ Fault /\ Online(Here)
    BY <1>4 DEF PollFails, Online, Here
  <2>3. PICK x \in {Here, PollFrequency(Here)} :
          Becomes(Offline(x, Connected(conf), drops))
    BY <1>4 DEF PollFails
  <2> DEFINE y == Offline(x, Connected(conf), drops)
  <2>4. x \in Threads /\ Online(x) = Online(Here) /\ x.radio = Here.radio
    BY <1>1, PollType
  <2>5. ~DropFails => Released(x) BY <1>1, <2>4 DEF Released
  <2>6. Becomes(y) BY <2>3
  <2>7. y \in Threads /\ (~DropFails => Released(y))
    BY <1>2, <2>1, <2>4, <2>5, OfflineType
  <2> HIDE DEF y
  <2>8. Handover(conf', Online(y)) BY <1>1, <2>2, HandoverDown
  <2> QED BY <1>1, <2>2, <2>6, <2>7, <2>8, FaultType, ThreadStep
<1> QED BY <1>3, <1>4

\* What the radio does by itself does not touch PTT.
LEMMA RadioKeepsInv ==
  ASSUME RigInv, Settle \/ \E f \in Frequencies : TurnDial(f) PROVE RigInv'
<1>1. /\ conf \in Confs /\ Here \in Threads /\ view \in TransceiverState
      /\ budget \in Budgets /\ (~DropFails => Released(Here))
      /\ Handover(conf, Online(Here)) /\ events \in Seq(Events)
  BY RigInvMeaning
<1>2. rig \in Rigs /\ radio \in Radios BY <1>1 DEF Here, Threads
<1>3. ASSUME radio' \in Radios, radio'.ptt = radio.ptt, budget' \in Budgets,
             UNCHANGED <<conf, rig, events, view>>
      PROVE  RigInv'
  BY <1>1, <1>2, <1>3, RigInvNext DEF Here, Online, Released
<1>4. CASE Settle
  <2>1. radio' \in Radios /\ radio'.ptt = radio.ptt
    BY <1>2, <1>4 DEF Settle, Radios, Shows
  <2> QED BY <1>1, <1>3, <1>4, <2>1 DEF Settle
<1>5. ASSUME NEW f \in Frequencies, TurnDial(f) PROVE RigInv'
  <2>1. radio' \in Radios /\ radio'.ptt = radio.ptt
    BY <1>2, <1>5 DEF TurnDial, Radios, Shows
  <2>2. budget.turns > 0 /\ budget' = [budget EXCEPT !.turns = @ - 1]
    BY <1>5 DEF TurnDial
  <2>3. budget.turns - 1 \in 0..MaxTurns
    BY <1>1, <2>2, RigBoundAssumption DEF Budgets
  <2>4. budget' \in Budgets BY <1>1, <2>2, <2>3 DEF Budgets
  <2> QED BY <1>3, <1>5, <2>1, <2>4 DEF TurnDial
<1> QED BY <1>4, <1>5
-----------------------------------------------------------------------------
(* Configuration::impl.  A client of the queue is in order when its calls   *)
(* are, for the instance now running.                                       *)

Ordered(c, online) == c \in Confs /\ Handover(c, online)

\* Closing posts a stop behind whatever is still to be done.
LEMMA CloseRigOrdered ==
  ASSUME NEW c, NEW online \in BOOLEAN, Ordered(c, online)
  PROVE  Ordered(CloseRig(c), online) /\ ~CloseRig(c).active
<1> DEFINE e == [op |-> "stop", s |-> Unknown, num |-> 0]
           d == [c EXCEPT !.active = FALSE, !.calls = Append(@, e)]
<1>1. e \in Calls BY UnknownType DEF Calls
<1>2. c \in Confs BY DEF Ordered
<1>3. Append(c.calls, e) \in Seq(Calls) BY <1>1, <1>2 DEF Confs
<1>4. CASE ~c.active BY <1>4 DEF CloseRig
<1>5. CASE c.active
  <2>1. CloseRig(c) = d BY <1>5 DEF CloseRig
  <2>2. d \in Confs /\ d.calls = Append(c.calls, e) /\ d.active = FALSE
    BY <1>2, <1>3 DEF Confs
  <2>3. e.op = "stop" OBVIOUS
  <2> HIDE DEF d, e
  <2>4. Handover(d, online) BY <1>1, <1>2, <1>5, <2>2, <2>3, HandoverAppend DEF Ordered
  <2> QED BY <2>1, <2>2, <2>4 DEF Ordered
<1> QED BY <1>2, <1>4, <1>5 DEF Confs

\* A set is posted only while the rig is active, a start only when it was not.
LEMMA PostOrdered ==
  ASSUME NEW c, NEW d, NEW online \in BOOLEAN, NEW op \in {"start", "set"},
         Ordered(c, online), d \in Confs, d.calls = c.calls,
         op = "set" => d.active = c.active,
         op = "start" => d.active /\ ~c.active
  PROVE  Ordered(Post(d, op), online)
<1> DEFINE e == [op |-> op, s |-> d.cached, num |-> d.num + 1]
           p == Post(d, op)
<1>1. c \in Confs /\ Handover(c, online) BY DEF Ordered
<1>2. e \in Calls /\ e.op = op BY DEF Confs, Calls
<1>3. p \in Confs BY PostType
<1>4. p.active = d.active /\ p.calls = IF d.active THEN Append(c.calls, e) ELSE c.calls
  BY DEF Post, Confs
<1> HIDE DEF p, e
<1>5. CASE ~d.active
  <2>1. op = "set" BY <1>5
  <2>2. p.calls = c.calls /\ p.active = c.active BY <1>4, <1>5, <2>1
  <2>3. Handover(p, online) BY <1>1, <2>2, HandoverSame
  <2> QED BY <1>3, <2>3 DEF Ordered, p
<1>6. CASE d.active
  <2>1. p.calls = Append(c.calls, e) /\ p.active /\ e.op # "stop" BY <1>2, <1>4, <1>6
  <2>2. e.op = "start" <=> ~c.active BY <1>2, <1>6
  <2>3. Handover(p, online) BY <1>1, <1>2, <1>3, <2>1, <2>2, HandoverAppend
  <2> QED BY <1>3, <2>3 DEF Ordered, p
<1> QED BY <1>5, <1>6

\* Opening, tuning and keying keep the queue in order.
LEMMA CommandsOrdered ==
  ASSUME NEW c, NEW online \in BOOLEAN, Ordered(c, online)
  PROVE  /\ Ordered(OpenRig(c), online)
         /\ \A f \in Frequencies \cup {0} : Ordered(TransceiverFrequency(c, f), online)
         /\ \A on \in BOOLEAN : Ordered(TransceiverPtt(c, on), online)
<1>1. c \in Confs BY DEF Ordered
<1>2. Ordered(OpenRig(c), online)
  <2> DEFINE d == [c EXCEPT !.active = TRUE, !.cached = Unknown]
  <2>1. CASE c.active BY <2>1 DEF OpenRig
  <2>2. CASE ~c.active
    <3>1. d \in Confs /\ d.calls = c.calls /\ d.active
      BY <1>1, UnknownType DEF Confs
    <3>2. OpenRig(c) = Post(d, "start") BY <2>2 DEF OpenRig
    <3> HIDE DEF d
    <3> QED BY <2>2, <3>1, <3>2, PostOrdered
  <2> QED BY <2>1, <2>2
<1>3. ASSUME NEW f \in Frequencies \cup {0}
      PROVE  Ordered(TransceiverFrequency(c, f), online)
  <2> DEFINE d == [c EXCEPT !.cached.online = TRUE, !.cached.freq = f]
  <2>1. d \in Confs /\ d.calls = c.calls /\ d.active = c.active
    BY <1>1 DEF Confs, TransceiverState
  <2>2. TransceiverFrequency(c, f) = Post(d, "set") BY DEF TransceiverFrequency
  <2> HIDE DEF d
  <2> QED BY <2>1, <2>2, PostOrdered
<1>4. ASSUME NEW on \in BOOLEAN PROVE Ordered(TransceiverPtt(c, on), online)
  <2> DEFINE d == [c EXCEPT !.cached.online = TRUE, !.cached.ptt = on]
  <2>1. d \in Confs /\ d.calls = c.calls /\ d.active = c.active
    BY <1>1 DEF Confs, TransceiverState
  <2>2. TransceiverPtt(c, on) = Post(d, "set") BY DEF TransceiverPtt
  <2> HIDE DEF d
  <2> QED BY <2>1, <2>2, PostOrdered
<1> QED BY <1>2, <1>3, <1>4

\* Following the rig changes the cache, and closes a rig that is offline.
LEMMA FollowRigOrdered ==
  ASSUME NEW c, NEW online \in BOOLEAN, NEW s \in TransceiverState, Ordered(c, online)
  PROVE  Ordered(FollowRig(c, s), online)
<1> DEFINE d == [c EXCEPT !.cached.online = s.online, !.cached.freq = s.freq]
<1>1. c \in Confs BY DEF Ordered
<1>2. d \in Confs /\ d.calls = c.calls /\ d.active = c.active
  BY <1>1 DEF Confs, TransceiverState
<1>3. FollowRig(c, s) = IF s.online THEN d ELSE CloseRig(d) BY DEF FollowRig
<1> HIDE DEF d
<1>4. Ordered(d, online) BY <1>2, HandoverSame DEF Ordered
<1> QED BY <1>3, <1>4, CloseRigOrdered
-----------------------------------------------------------------------------
\* Updates and failures, as the GUI thread handles them.
LEMMA GuiKeepsInv == ASSUME RigInv, Gui PROVE RigInv'
<1>1. /\ Ordered(conf, Online(Here)) /\ Online(Here) \in BOOLEAN
      /\ view \in TransceiverState /\ budget \in Budgets /\ events \in Seq(Events)
  BY RigInvMeaning DEF Ordered
<1>2. events # <<>> BY DEF Gui, HandleUpdate, HandleFailure
<1>3. Head(events).s \in TransceiverState /\ Tail(events) \in Seq(Events)
  <2>1. Head(events) \in Events /\ Tail(events) \in Seq(Events) BY <1>1, <1>2
  <2> QED BY <2>1 DEF Events
<1>4. CASE HandleUpdate
  <2>1. /\ conf' = FollowRig(conf, Head(events).s) /\ events' = Tail(events)
        /\ view' \in {Head(events).s, view} /\ UNCHANGED <<rig, radio, budget>>
    BY <1>4 DEF HandleUpdate
  <2>2. Ordered(conf', Online(Here)) BY <1>1, <1>3, <2>1, FollowRigOrdered
  <2> QED BY <1>1, <1>3, <2>1, <2>2, GuiStep DEF Ordered
<1>5. CASE HandleFailure
  <2>1. /\ conf' = CloseRig(conf) /\ events' = Tail(events)
        /\ UNCHANGED <<rig, radio, view, budget>>
    BY <1>5 DEF HandleFailure
  <2>2. Ordered(conf', Online(Here)) BY <1>1, <2>1, CloseRigOrdered
  <2> QED BY <1>1, <1>3, <2>1, <2>2, GuiStep DEF Ordered
<1> QED BY <1>4, <1>5 DEF Gui

\* Every call of a client.
LEMMA ClientKeepsInv == ASSUME RigInv, Client PROVE RigInv'
<1>1. /\ Ordered(conf, Online(Here)) /\ Online(Here) \in BOOLEAN
      /\ view \in TransceiverState /\ budget \in Budgets /\ events \in Seq(Events)
  BY RigInvMeaning DEF Ordered
<1>2. ASSUME NEW c, Ordered(c, Online(Here)), ClientCall(c) PROVE RigInv'
  <2>1. conf' = c /\ UNCHANGED <<rig, radio, events, view>> BY <1>2 DEF ClientCall
  <2>2. budget.commands - 1 \in 0..MaxCommands
    BY <1>1, <1>2, RigBoundAssumption DEF ClientCall, Budgets
  <2>3. budget' \in Budgets BY <1>1, <1>2, <2>2 DEF ClientCall, Budgets
  <2> QED BY <1>1, <1>2, <2>1, <2>3, GuiStep DEF Ordered
<1>3. ASSUME NEW f \in Frequencies, Tune(f) PROVE RigInv'
  BY <1>1, <1>2, <1>3, CommandsOrdered DEF Tune
<1>4. ASSUME NEW on \in BOOLEAN, Key(on) PROVE RigInv'
  BY <1>1, <1>2, <1>4, CommandsOrdered DEF Key
<1>5. CASE Reopen BY <1>1, <1>2, <1>5, CommandsOrdered DEF Reopen
<1>6. CASE Settings BY <1>1, <1>2, <1>6, CommandsOrdered, CloseRigOrdered DEF Settings
<1>7. CASE Leave BY <1>1, <1>2, <1>7, CloseRigOrdered DEF Leave
<1> QED BY <1>3, <1>4, <1>5, <1>6, <1>7 DEF Client

\* Before anything was opened the queue is empty and the radio unkeyed.
LEMMA InitRigInv == Init => RigInv
<1> SUFFICES ASSUME Init PROVE RigInv OBVIOUS
<1>1. conf = [active |-> FALSE, num |-> 0, cached |-> Unknown, calls |-> <<>>]
      /\ rig = Instance /\ events = <<>> /\ view = Unknown
  BY DEF Init, RigInit
<1>2. PICK f \in Frequencies :
        radio = [freq |-> f, ptt |-> FALSE, shown |-> [freq |-> f, ptt |-> FALSE]]
  BY DEF Init, RigInit
<1>3. budget = [commands |-> MaxCommands, turns |-> MaxTurns, faults |-> MaxFaults]
  BY DEF Init
<1>4. budget \in Budgets BY <1>3, RigBoundAssumption DEF Budgets
<1>5. conf \in Confs /\ events \in Seq(Events) BY <1>1, UnknownType DEF Confs
<1>6. radio \in Radios /\ ~radio.ptt BY <1>2 DEF Radios, Shows
<1>7. rig \in Rigs /\ view \in TransceiverState BY <1>1, InstanceType, UnknownType
<1>8. TypeOK
  BY <1>4, <1>5, <1>6, <1>7 DEF TypeOK, Confs, Calls, Rigs, Radios, Shows, Events, Budgets
<1>9. Handover(conf, rig.requested.online)
  <2>1. ~rig.requested.online BY <1>1 DEF Instance, Unknown
  <2>2. conf.calls = <<>> /\ Len(conf.calls) = 0 BY <1>1
  <2> QED BY <2>1, <2>2 DEF Handover
<1> QED BY <1>6, <1>8, <1>9 DEF RigInv, PttReleased

\* Every step of either thread, of the radio and of a client keeps the invariant.
LEMMA NextKeepsRigInv == RigInv /\ [Next]_rigVars => RigInv'
<1> SUFFICES ASSUME RigInv, [Next]_rigVars PROVE RigInv' OBVIOUS
<1>1. CASE TakeCall
  BY <1>1, StartKeepsInv, SetKeepsInv, StopKeepsInv DEF TakeCall
<1>2. CASE PollTimer BY <1>2, PollKeepsInv
<1>3. CASE DriverThrows
  BY <1>3, StartKeepsInv, SetKeepsInv, PollKeepsInv DEF DriverThrows
<1>4. CASE Settle \/ \E f \in Frequencies : TurnDial(f) BY <1>4, RadioKeepsInv
<1>5. CASE Gui BY <1>5, GuiKeepsInv
<1>6. CASE Client BY <1>6, ClientKeepsInv
<1>7. CASE UNCHANGED rigVars
  <2>1. /\ UNCHANGED <<rig, radio>> /\ conf' = conf /\ view' = view
        /\ events' = events /\ budget' = budget
    BY <1>7 DEF rigVars
  <2> QED BY <2>1, RigInvMeaning, GuiStep
<1> QED BY <1>1, <1>2, <1>3, <1>4, <1>5, <1>6, <1>7 DEF Next

\* The invariant holds in every state of both threads, whatever the driver
\* throws and however calls, updates and commands interleave.
THEOREM RigInvariance == Spec => []RigInv
BY InitRigInv, NextKeepsRigInv, PTL DEF Spec

\* Every member keeps its type: the count of polls never passes zero, no call or
\* event carries a state that is none.
THEOREM RigTypeCorrect == Spec => []TypeOK
<1>1. RigInv => TypeOK BY DEF RigInv
<1> QED BY <1>1, RigInvariance, PTL

\* Unless dropping PTT itself fails, an instance that went offline left the radio
\* unkeyed, and so did every one before it: the next starts with PTT off.
THEOREM OfflineUnkeyed == ASSUME ~DropFails PROVE Spec => []PttReleased
<1>1. RigInv => PttReleased BY DEF RigInv
<1> QED BY <1>1, RigInvariance, PTL
-----------------------------------------------------------------------------
(* PTT as the rig's thread knows it, for a radio that shows PTT at once: a   *)
(* poll reads it as it is, and what was requested and what was read agree    *)
(* between two calls while the connection is up.                             *)

Shown(x) == x.radio.shown.ptt = x.radio.ptt
Read(x)  == x.rig.actual.ptt = x.radio.ptt
Asked(x) == x.rig.requested.ptt = x.radio.ptt
Mirrors(x) == Shown(x) /\ (Online(x) => Read(x) /\ Asked(x))

\* A failure was posted that the GUI has still to handle.
Fails(es) == \E i \in 1..Len(es) : es[i].op = "failure"

\* A posted event takes no other away.
LEMMA FailsAppend ==
  ASSUME NEW es \in Seq(Events), NEW e \in Events, Fails(es) \/ e.op = "failure"
  PROVE  Fails(Append(es, e))
<1> DEFINE n == Len(es)
           fs == Append(es, e)
<1>1. n \in Nat /\ Len(fs) = n + 1 /\ fs[n + 1] = e /\ \A i \in 1..n : fs[i] = es[i]
  OBVIOUS
<1> HIDE DEF fs
<1>2. CASE Fails(es)
  <2>1. PICK i \in 1..n : es[i].op = "failure" BY <1>2 DEF Fails
  <2>2. i \in 1..n + 1 /\ fs[i].op = "failure" BY <1>1, <2>1
  <2> QED BY <1>1, <2>2 DEF Fails
<1>3. CASE e.op = "failure"
  <2>1. n + 1 \in 1..n + 1 BY <1>1
  <2> QED BY <1>1, <1>3, <2>1 DEF Fails
<1> QED BY <1>2, <1>3 DEF fs

LEMMA EmitFails ==
  ASSUME NEW x \in Threads, NEW linked \in BOOLEAN, NEW e \in Events
  PROVE  /\ Fails(x.events) => Fails(Emit(x, linked, e).events)
         /\ linked /\ e.op = "failure" => Fails(Emit(x, linked, e).events)
<1>1. x.events \in Seq(Events) BY DEF Threads
<1>2. linked => Emit(x, linked, e).events = Append(x.events, e) BY DEF Emit, Threads
<1>3. ~linked => Emit(x, linked, e) = x BY DEF Emit
<1> QED BY <1>1, <1>2, <1>3, FailsAppend

\* An update reads nothing anew.
LEMMA UpdateReads ==
  ASSUME NEW x \in Threads, NEW linked \in BOOLEAN
  PROVE  /\ Fails(x.events) => Fails(Update(x, linked).events)
         /\ Update(x, linked).rig.actual = x.rig.actual
         /\ Update(x, linked).rig.requested = x.rig.requested
<1> DEFINE e == [op |-> "update", s |-> x.rig.actual, num |-> x.rig.num]
           y == Emit(x, linked, e)
<1>1. e \in Events BY DEF Threads, Rigs, Events
<1>2. y \in Threads /\ y.rig = x.rig /\ (Fails(x.events) => Fails(y.events))
  BY <1>1, EmitKeeps, EmitFails
<1>3. Update(x, linked) = [y EXCEPT !.rig.last = x.rig.actual] BY DEF Update
<1> HIDE DEF y
<1>4. /\ [y EXCEPT !.rig.last = x.rig.actual].events = y.events
      /\ [y EXCEPT !.rig.last = x.rig.actual].rig.actual = y.rig.actual
      /\ [y EXCEPT !.rig.last = x.rig.actual].rig.requested = y.rig.requested
  BY <1>2 DEF Threads, Rigs
<1> QED BY <1>2, <1>3, <1>4

LEMMA UpdateCompleteReads ==
  ASSUME NEW x \in Threads, NEW linked \in BOOLEAN
  PROVE  /\ Fails(x.events) => Fails(UpdateComplete(x, linked).events)
         /\ UpdateComplete(x, linked).rig.actual = x.rig.actual
         /\ UpdateComplete(x, linked).rig.requested = x.rig.requested
BY UpdateReads DEF UpdateComplete

\* The radio shows PTT as it was told.
LEMMA RadioPttShows ==
  ASSUME ~LagPtt, NEW x \in Threads, NEW on \in BOOLEAN
  PROVE  Shown(RadioPtt(x, on)) /\ RadioPtt(x, on).events = x.events
<1>1. x.radio \in Radios BY DEF Threads
<1>2. [x.radio EXCEPT !.ptt = on, !.shown.ptt = on].shown.ptt = on
      /\ [x.radio EXCEPT !.ptt = on, !.shown.ptt = on].ptt = on
  BY <1>1 DEF Radios, Shows
<1>3. RadioPtt(x, on) = [x EXCEPT !.radio = [x.radio EXCEPT !.ptt = on, !.shown.ptt = on]]
  BY <1>1 DEF RadioPtt, Threads, Radios, Shows
<1> QED BY <1>2, <1>3 DEF Shown, Threads

LEMMA ExpectReads ==
  ASSUME NEW r \in Rigs, NEW s \in TransceiverState
  PROVE  Expect(r, s).actual = r.actual /\ Expect(r, s).requested = r.requested
BY DEF Expect, Rigs

LEMMA DoPttReads ==
  ASSUME ~LagPtt, NEW x \in Threads, NEW on \in BOOLEAN
  PROVE  /\ Shown(DoPtt(x, on)) /\ Read(DoPtt(x, on))
         /\ DoPtt(x, on).rig.requested = x.rig.requested /\ DoPtt(x, on).events = x.events
<1> DEFINE y == RadioPtt(x, on)
           a == [y.rig EXCEPT !.actual.ptt = on]
           n == [y.rig.next EXCEPT !.ptt = on]
<1>1. /\ y \in Threads /\ y.rig = x.rig /\ y.radio.ptt = on /\ Shown(y)
      /\ y.events = x.events
  BY RadioPttType, RadioPttShows
<1>2. DoPtt(x, on) = [y EXCEPT !.rig = Expect(a, n)] BY <1>1 DEF DoPtt, Threads
<1> HIDE DEF y
<1>3. a \in Rigs /\ a.requested = y.rig.requested /\ a.actual.ptt = on
      /\ n \in TransceiverState
  BY <1>1 DEF Threads, Rigs, TransceiverState
<1>4. Expect(a, n).actual = a.actual /\ Expect(a, n).requested = a.requested
  BY <1>3, ExpectReads
<1> HIDE DEF a, n
<1> QED BY <1>1, <1>2, <1>3, <1>4 DEF Threads, Shown, Read

\* Tuning leaves all of it alone.
LEMMA RadioFrequencyShows ==
  ASSUME NEW x \in Threads, NEW f \in Frequencies
  PROVE  /\ RadioFrequency(x, f).radio.shown.ptt = x.radio.shown.ptt
         /\ RadioFrequency(x, f).events = x.events
<1>1. x.radio \in Radios BY DEF Threads
<1> QED BY <1>1 DEF RadioFrequency, Threads, Radios, Shows

LEMMA DoFrequencyReads ==
  ASSUME NEW x \in Threads, NEW f \in Frequencies
  PROVE  /\ Shown(x) => Shown(DoFrequency(x, f))
         /\ Read(x) => Read(DoFrequency(x, f))
         /\ DoFrequency(x, f).rig.requested.ptt = x.rig.requested.ptt
         /\ DoFrequency(x, f).events = x.events
<1> DEFINE y == RadioFrequency(x, f)
           a == [y.rig EXCEPT !.actual.freq = f, !.requested.freq = f]
           n == [y.rig.next EXCEPT !.freq = f]
<1>1. /\ y \in Threads /\ y.rig = x.rig /\ y.radio.ptt = x.radio.ptt
      /\ y.radio.shown.ptt = x.radio.shown.ptt /\ y.events = x.events
  BY RadioFrequencyType, RadioFrequencyShows
<1>2. DoFrequency(x, f) = [y EXCEPT !.rig = Expect(a, n)]
  BY <1>1 DEF DoFrequency, Threads
<1> HIDE DEF y
<1>3. /\ a \in Rigs /\ a.requested.ptt = y.rig.requested.ptt
      /\ a.actual.ptt = y.rig.actual.ptt /\ n \in TransceiverState
  BY <1>1 DEF Threads, Rigs, TransceiverState
<1>4. Expect(a, n).actual = a.actual /\ Expect(a, n).requested = a.requested
  BY <1>3, ExpectReads
<1> HIDE DEF a, n
<1> QED BY <1>1, <1>2, <1>3, <1>4 DEF Threads, Shown, Read

\* A poll reads what the radio shows.
LEMMA PollReads ==
  ASSUME NEW x \in Threads
  PROVE  /\ Poll(x).rig.actual.ptt = x.radio.shown.ptt
         /\ Poll(x).rig.requested.ptt = x.rig.requested.ptt
         /\ Poll(x).events = x.events /\ PollFrequency(x).events = x.events
<1> DEFINE y == PollFrequency(x)
<1>1. y \in Threads BY PollType
<1>2. y.rig.requested.ptt = x.rig.requested.ptt /\ y.events = x.events
  BY DEF PollFrequency, Threads, Rigs, TransceiverState
<1>3. Poll(x) = [y EXCEPT !.rig.actual.ptt = x.radio.shown.ptt] BY DEF Poll
<1> HIDE DEF y
<1> QED BY <1>1, <1>2, <1>3 DEF Threads, Rigs, TransceiverState, y

\* shutdown leaves an unconnected radio alone.
LEMMA ShutdownReads ==
  ASSUME ~LagPtt, NEW x \in Threads, NEW linked \in BOOLEAN, NEW drops \in BOOLEAN, Shown(x)
  PROVE  /\ Shown(Shutdown(x, linked, drops))
         /\ Fails(x.events) => Fails(Shutdown(x, linked, drops).events)
         /\ Shutdown(x, linked, drops).rig.requested.ptt = x.rig.requested.ptt
         /\ ~Online(x) => Shutdown(x, linked, drops).radio = x.radio
<1> DEFINE y == IF Online(x) /\ drops THEN DoPtt(x, FALSE) ELSE x
           z == [y EXCEPT !.rig.actual.online = FALSE, !.rig.requested.online = FALSE]
<1>1. FALSE \in BOOLEAN OBVIOUS
<1>2. /\ y \in Threads /\ Shown(y) /\ y.events = x.events
      /\ y.rig.requested = x.rig.requested /\ (~Online(x) => y.radio = x.radio)
  BY <1>1, DoPttType, DoPttReads
<1>3. Shutdown(x, linked, drops) = UpdateComplete(z, linked)
  BY DEF Shutdown, Online
<1> HIDE DEF y
<1>4. /\ z \in Threads /\ z.radio = y.radio /\ z.events = y.events
      /\ z.rig.requested.ptt = y.rig.requested.ptt
  BY <1>2 DEF Threads, Rigs, TransceiverState
<1> HIDE DEF z
<1>5. /\ UpdateComplete(z, linked).radio = z.radio
      /\ UpdateComplete(z, linked).rig.requested = z.rig.requested
      /\ Fails(z.events) => Fails(UpdateComplete(z, linked).events)
  BY <1>4, UpdateCompleteKeeps, UpdateCompleteReads
<1> QED BY <1>2, <1>3, <1>4, <1>5 DEF Shown

\* startup ends with a poll.
LEMMA StartupReads ==
  ASSUME NEW x \in Threads, Shown(x)
  PROVE  /\ Startup(x).radio = x.radio /\ Read(Startup(x))
         /\ Startup(x).rig.requested.ptt = x.rig.requested.ptt
         /\ Startup(x).events = x.events
<1> DEFINE y == Poll(x)
           a == [y.rig EXCEPT !.actual.online = TRUE, !.requested.online = TRUE]
           n == [y.rig.next EXCEPT !.online = TRUE]
<1>1. /\ y \in Threads /\ y.radio = x.radio /\ y.events = x.events
      /\ y.rig.actual.ptt = x.radio.ptt /\ y.rig.requested.ptt = x.rig.requested.ptt
  BY PollType, PollReads DEF Shown
<1>2. Startup(x) = [y EXCEPT !.rig = Expect(a, n)] BY <1>1 DEF Startup, Threads
<1> HIDE DEF y
<1>3. /\ a \in Rigs /\ a.requested.ptt = y.rig.requested.ptt
      /\ a.actual.ptt = y.rig.actual.ptt /\ n \in TransceiverState
  BY <1>1 DEF Threads, Rigs, TransceiverState
<1>4. Expect(a, n).actual = a.actual /\ Expect(a, n).requested = a.requested
  BY <1>3, ExpectReads
<1> HIDE DEF a, n
<1> QED BY <1>1, <1>2, <1>3, <1>4 DEF Threads, Read

\* offline tells the GUI, if it is still connected.
LEMMA OfflineFails ==
  ASSUME ~LagPtt, NEW x \in Threads, NEW linked \in BOOLEAN, NEW drops \in BOOLEAN, Shown(x)
  PROVE  /\ Shown(Offline(x, linked, drops)) /\ ~Online(Offline(x, linked, drops))
         /\ linked => Fails(Offline(x, linked, drops).events)
<1> DEFINE e == [op |-> "failure", s |-> Unknown, num |-> 0]
           y == Emit(x, linked, e)
<1>1. e \in Events /\ e.op = "failure" BY UnknownType DEF Events
<1>2. y \in Threads /\ y.radio = x.radio /\ (linked => Fails(y.events))
  BY <1>1, EmitKeeps, EmitFails
<1>3. Offline(x, linked, drops) = Shutdown(y, linked, drops) BY DEF Offline
<1> HIDE DEF y
<1> QED BY <1>2, <1>3, ShutdownType, ShutdownReads DEF Shown

\* start finds PTT off and leaves it so.
LEMMA StartReads ==
  ASSUME ~LagPtt, NEW x \in Threads, NEW num \in Nat, NEW linked \in BOOLEAN,
         Shown(x), ~x.radio.ptt
  PROVE  Mirrors(Start(x, num, linked)) /\ ~Start(x, num, linked).radio.ptt
<1> DEFINE i == [x EXCEPT !.rig = Instance]
           h == Shutdown(i, linked, TRUE)
           y == Startup(h)
           z == [y EXCEPT !.rig.num = num]
<1>1. /\ i \in Threads /\ i.radio = x.radio /\ ~Online(i) /\ i.rig.requested.ptt = FALSE
  BY InstanceType DEF Threads, Online, Instance, Unknown
<1>2. TRUE \in BOOLEAN OBVIOUS
<1> HIDE DEF i
<1>3. /\ h \in Threads /\ h.radio = x.radio /\ h.rig.requested.ptt = FALSE
  <2>1. Shown(i) BY <1>1 DEF Shown
  <2>2. h \in Threads BY <1>1, <1>2, ShutdownType
  <2>3. h.rig.requested.ptt = i.rig.requested.ptt /\ h.radio = i.radio
    BY <1>1, <1>2, <2>1, ShutdownReads
  <2> QED BY <1>1, <2>2, <2>3
<1> HIDE DEF h
<1>4. /\ y \in Threads /\ y.radio = x.radio /\ Read(y) /\ y.rig.requested.ptt = FALSE
  BY <1>3, StartupType, StartupReads DEF Shown
<1>5. Start(x, num, linked) = Update(z, linked) BY DEF Start, i, h
<1> HIDE DEF y
<1>6. z \in Threads /\ z.radio = y.radio /\ z.rig.requested = y.rig.requested
      /\ z.rig.actual = y.rig.actual
  BY <1>4 DEF Threads, Rigs
<1> HIDE DEF z
<1>7. /\ Update(z, linked).radio = z.radio /\ Update(z, linked).rig.actual = z.rig.actual
      /\ Update(z, linked).rig.requested = z.rig.requested
  BY <1>6, UpdateKeeps, UpdateReads
<1>8. x.radio.ptt = FALSE BY DEF Threads, Radios
<1> QED BY <1>4, <1>5, <1>6, <1>7, <1>8 DEF Mirrors, Shown, Read, Asked

\* set, wherever it stops, leaves a radio that shows its PTT; and a rig that was
\* connected ends with PTT as the call says.
LEMMA StepsReads ==
  ASSUME ~LagPtt, NEW x \in Threads, NEW s \in TransceiverState, NEW linked \in BOOLEAN,
         Shown(x), Online(x) => Read(x)
  PROVE  /\ Shown(Steps(x, s, linked).done) /\ Read(Steps(x, s, linked).done)
         /\ Online(x) /\ Asked(x) => Steps(x, s, linked).done.radio.ptt = s.ptt
         /\ Fails(x.events) => Fails(Steps(x, s, linked).done.events)
         /\ \A y \in Steps(x, s, linked).thrown : Shown(y)
<1> DEFINE h   == Shutdown(x, linked, TRUE)
           a   == IF x.rig.requested.online THEN x ELSE Startup(h)
           off == ~s.ptt /\ a.rig.requested.ptt
           on  == s.ptt /\ ~a.rig.requested.ptt
           b   == IF off THEN DoPtt(a, FALSE) ELSE a
           qsy == s.freq # 0 /\ (s.freq # b.rig.requested.freq \/ off)
           d   == IF qsy THEN DoFrequency(b, s.freq) ELSE b
           thrown == (IF x.rig.requested.online THEN {} ELSE {h})
                       \cup (IF off THEN {a, RadioPtt(a, FALSE)} ELSE {})
                       \cup (IF qsy THEN {b, RadioFrequency(b, s.freq)} ELSE {})
                       \cup (IF on THEN {d, RadioPtt(d, TRUE)} ELSE {})
           done == IF on THEN DoPtt(d, TRUE) ELSE d
<1>0. TRUE \in BOOLEAN /\ FALSE \in BOOLEAN OBVIOUS
<1>1. Steps(x, s, linked) = [done |-> done, thrown |-> thrown] BY DEF Steps
<1>2. h \in Threads /\ Shown(h) /\ (Fails(x.events) => Fails(h.events))
  BY <1>0, ShutdownType, ShutdownReads
<1> HIDE DEF h
<1>3. /\ a \in Threads /\ Shown(a) /\ Read(a) /\ (Fails(x.events) => Fails(a.events))
      /\ Online(x) /\ Asked(x) => Asked(a)
  <2>1. CASE Online(x) BY <2>1 DEF Online
  <2>2. CASE ~Online(x)
    <3>1. a = Startup(h) BY <2>2 DEF Online
    <3> QED BY <1>2, <2>2, <3>1, StartupType, StartupReads DEF Shown
  <2> QED BY <2>1, <2>2
<1> HIDE DEF a
<1>4. /\ b \in Threads /\ Shown(b) /\ Read(b) /\ b.events = a.events
      /\ b.rig.requested = a.rig.requested /\ (off => ~b.radio.ptt)
      /\ ~off => b = a
  BY <1>0, <1>3, DoPttType, DoPttReads
<1>5. Shown(RadioPtt(a, FALSE)) BY <1>0, <1>3, RadioPttShows
<1>6. a.rig.requested.ptt \in BOOLEAN /\ a.radio.ptt \in BOOLEAN /\ s.ptt \in BOOLEAN
  BY <1>3 DEF Threads, Rigs, Radios, TransceiverState
<1>7. Online(x) /\ Asked(x) /\ ~on => b.radio.ptt = s.ptt
  <2> SUFFICES ASSUME Online(x), Asked(x), ~on PROVE b.radio.ptt = s.ptt OBVIOUS
  <2>1. a.rig.requested.ptt = a.radio.ptt BY <1>3 DEF Asked
  <2>2. CASE off
    <3>1. b.radio.ptt = FALSE BY <1>0, <1>3, <2>2, DoPttType
    <3>2. s.ptt = FALSE BY <1>6, <2>2
    <3> QED BY <3>1, <3>2
  <2>3. CASE ~off
    <3>1. b = a BY <2>3
    <3>2. s.ptt = a.rig.requested.ptt BY <1>6, <2>3
    <3> QED BY <2>1, <3>1, <3>2
  <2> QED BY <2>2, <2>3
<1>8. b.radio.ptt \in BOOLEAN BY <1>4 DEF Threads, Radios
<1> HIDE DEF b, off
<1>9. qsy => s.freq \in Frequencies BY DEF TransceiverState
<1>10. /\ d \in Threads /\ Shown(d) /\ Read(d) /\ d.events = a.events
       /\ d.radio.ptt = b.radio.ptt
  BY <1>4, <1>9, DoFrequencyType, DoFrequencyReads
<1>11. qsy => Shown(RadioFrequency(b, s.freq))
  BY <1>4, <1>9, RadioFrequencyType, RadioFrequencyShows DEF Shown
<1> HIDE DEF d, qsy
<1>12. Shown(RadioPtt(d, TRUE)) BY <1>0, <1>10, RadioPttShows
<1>13. /\ Shown(done) /\ Read(done) /\ done.events = a.events
       /\ on => done.radio.ptt = TRUE
       /\ ~on => done = d
  BY <1>0, <1>10, DoPttType, DoPttReads
<1>14. Online(x) /\ Asked(x) => done.radio.ptt = s.ptt
  BY <1>6, <1>7, <1>10, <1>13
<1>15. \A y \in thrown : Shown(y)
  BY <1>2, <1>3, <1>4, <1>5, <1>10, <1>11, <1>12
<1> HIDE DEF done, thrown
<1> QED BY <1>1, <1>3, <1>13, <1>14, <1>15

LEMMA SetReads ==
  ASSUME ~LagPtt, NEW x \in Threads, NEW s \in TransceiverState, NEW num \in Nat,
         NEW linked \in BOOLEAN, Mirrors(x)
  PROVE  /\ Mirrors(Set(x, s, num, linked))
         /\ Online(x) => Set(x, s, num, linked).radio.ptt = s.ptt
         /\ Fails(x.events) => Fails(Set(x, s, num, linked).events)
<1> DEFINE y == Steps(x, s, linked).done
           z == [y EXCEPT !.rig.requested.ptt = y.rig.actual.ptt, !.rig.num = num]
<1>1. /\ y \in Threads /\ Shown(y) /\ Read(y) /\ (Online(x) => y.radio.ptt = s.ptt)
      /\ Fails(x.events) => Fails(y.events)
  BY StepsType, StepsReads DEF Mirrors
<1>2. Set(x, s, num, linked) = Update(z, linked) BY DEF Set
<1> HIDE DEF y
<1>3. /\ z \in Threads /\ z.radio = y.radio /\ z.events = y.events
      /\ z.rig.actual = y.rig.actual /\ z.rig.requested.ptt = y.rig.actual.ptt
  BY <1>1 DEF Threads, Rigs, TransceiverState
<1> HIDE DEF z
<1>4. /\ Update(z, linked).radio = z.radio /\ Update(z, linked).rig.actual = z.rig.actual
      /\ Update(z, linked).rig.requested = z.rig.requested
      /\ Fails(z.events) => Fails(Update(z, linked).events)
  BY <1>3, UpdateKeeps, UpdateReads
<1> QED BY <1>1, <1>2, <1>3, <1>4 DEF Mirrors, Shown, Read, Asked

LEMMA SyncReads ==
  ASSUME NEW x \in Threads, NEW linked \in BOOLEAN, Mirrors(x)
  PROVE  /\ Mirrors(Sync(x, linked))
         /\ Fails(x.events) => Fails(Sync(x, linked).events)
<1> DEFINE p == Poll(x)
           z == [p EXCEPT !.rig.retries = 0, !.rig.next = p.rig.actual,
                          !.rig.signalled = p.rig.actual]
           w == [p EXCEPT !.rig.retries = IF @ > 0 THEN @ - 1 ELSE 0]
<1>1. /\ p \in Threads /\ Online(p) = Online(x) /\ p.radio = x.radio
      /\ p.rig.actual.ptt = x.radio.ptt /\ p.rig.requested.ptt = x.rig.requested.ptt
      /\ p.events = x.events
  BY PollType, PollReads DEF Mirrors, Shown
<1>2. Sync(x, linked) \in {Update(z, linked), w} BY DEF Sync
<1> HIDE DEF p
<1>3. 0 \in 0..Polls BY RadioAssumption
<1>4. /\ z \in Threads /\ z.radio = p.radio /\ z.events = p.events
      /\ z.rig.actual = p.rig.actual /\ z.rig.requested = p.rig.requested
  BY <1>1, <1>3 DEF Threads, Rigs
<1>5. /\ w.radio = p.radio /\ w.events = p.events
      /\ w.rig.actual = p.rig.actual /\ w.rig.requested = p.rig.requested
  BY <1>1 DEF Threads, Rigs
<1> HIDE DEF z, w
<1>6. /\ Update(z, linked).radio = z.radio /\ Update(z, linked).rig.actual = z.rig.actual
      /\ Update(z, linked).rig.requested = z.rig.requested
      /\ Fails(z.events) => Fails(Update(z, linked).events)
  BY <1>4, UpdateKeeps, UpdateReads
<1>7. LET y == Sync(x, linked)
      IN /\ y.radio = p.radio /\ y.rig.actual = p.rig.actual
         /\ y.rig.requested = p.rig.requested
         /\ Fails(x.events) => Fails(y.events)
  BY <1>1, <1>2, <1>4, <1>5, <1>6
<1> QED BY <1>1, <1>7 DEF Mirrors, Shown, Read, Asked, Online
-----------------------------------------------------------------------------
(* The calls on their way.  The newest one says what PTT is to be, a start    *)
(* says off; and unless a failure is on its way to the GUI, an instance whose *)
(* signals arrive is online, or about to be started, and once the queue is    *)
(* empty it has done what the newest call said.                              *)

Latest(c) ==
  /\ \A i \in 1..Len(c.calls) : c.calls[i].op = "start" => ~c.calls[i].s.ptt
  /\ c.active /\ c.calls # <<>> => c.calls[Len(c.calls)].s.ptt = c.cached.ptt

Applied(c, x) ==
  /\ c.calls = <<>> => Online(x) /\ x.radio.ptt = c.cached.ptt
  /\ c.calls # <<>> => c.calls[1].op = "start" \/ Online(x)

Sound(c, x, es) == Latest(c) /\ (Connected(c) => Fails(es) \/ Applied(c, x))

\* A call behind the others: they stay what they were.
LEMMA AppendLatest ==
  ASSUME NEW c \in Confs, NEW d \in Confs, NEW e \in Calls, Latest(c),
         d.calls = Append(c.calls, e), e.op = "start" => ~e.s.ptt,
         d.active => e.s.ptt = d.cached.ptt
  PROVE  /\ Latest(d) /\ d.calls # <<>>
         /\ c.calls = <<>> => d.calls[1] = e
         /\ c.calls # <<>> => d.calls[1] = c.calls[1]
         /\ Connected(d) => /\ \A i \in DOMAIN c.calls : c.calls[i].op # "stop"
                            /\ e.op # "stop"
<1> DEFINE n == Len(c.calls)
<1>1. c.calls \in Seq(Calls) /\ n \in Nat BY DEF Confs
<1>2. /\ Len(d.calls) = n + 1 /\ d.calls[n + 1] = e /\ d.calls # <<>>
      /\ DOMAIN d.calls = 1..n + 1 /\ DOMAIN c.calls = 1..n
      /\ \A i \in 1..n : d.calls[i] = c.calls[i]
  BY <1>1
<1>3. c.calls = <<>> <=> n = 0 BY <1>1
<1>4. ASSUME NEW i \in 1..Len(d.calls), d.calls[i].op = "start"
      PROVE  ~d.calls[i].s.ptt
  <2>1. CASE i = n + 1 BY <1>2, <1>4, <2>1
  <2>2. CASE i # n + 1
    <3>1. i \in 1..n BY <1>1, <1>2, <2>2
    <3> QED BY <1>2, <1>4, <3>1 DEF Latest
  <2> QED BY <2>1, <2>2
<1>5. c.calls # <<>> => d.calls[1] = c.calls[1]
  <2>1. n # 0 => 1 \in 1..n BY <1>1
  <2> QED BY <1>2, <1>3, <2>1
<1>6. ASSUME Connected(d)
      PROVE  (\A i \in DOMAIN c.calls : c.calls[i].op # "stop") /\ e.op # "stop"
  <2>1. n + 1 \in 1..n + 1 /\ \A i \in 1..n : i \in 1..n + 1 BY <1>1
  <2>2. \A i \in 1..n + 1 : d.calls[i].op # "stop" BY <1>2, <1>6 DEF Connected
  <2> QED BY <1>2, <2>1, <2>2
<1>7. Latest(d) BY <1>2, <1>4 DEF Latest
<1>8. c.calls = <<>> => d.calls[1] = e BY <1>2, <1>3
<1> QED BY <1>2, <1>5, <1>6, <1>7, <1>8

\* A failure on its way does not get lost, and nothing else depends on the events.
LEMMA SoundFails ==
  ASSUME NEW c, NEW d, NEW x, NEW es, NEW fs, Sound(c, x, es), Fails(es) => Fails(fs),
         d.calls = c.calls, d.active = c.active, d.cached.ptt = c.cached.ptt
  PROVE  Sound(d, x, fs)
<1>1. Latest(d) BY DEF Sound, Latest
<1>2. Connected(d) => Connected(c) BY DEF Connected
<1>3. Applied(c, x) => Applied(d, x) BY DEF Applied
<1> QED BY <1>1, <1>2, <1>3 DEF Sound

\* Closing takes the connection down.
LEMMA CloseRigSound ==
  ASSUME NEW c \in Confs, NEW x, NEW es, NEW fs, Sound(c, x, es)
  PROVE  Sound(CloseRig(c), x, fs)
<1> DEFINE e == [op |-> "stop", s |-> Unknown, num |-> 0]
           d == [c EXCEPT !.active = FALSE, !.calls = Append(@, e)]
<1>1. CASE ~c.active
  <2>1. CloseRig(c) = c /\ ~Connected(c) BY <1>1 DEF CloseRig, Connected
  <2> QED BY <2>1 DEF Sound
<1>2. CASE c.active
  <2>1. e \in Calls /\ e.op = "stop" BY UnknownType DEF Calls
  <2>2. c.calls \in Seq(Calls) /\ Append(c.calls, e) \in Seq(Calls) BY <2>1 DEF Confs
  <2>3. d \in Confs /\ d.calls = Append(c.calls, e) /\ ~d.active BY <2>2 DEF Confs
  <2>4. CloseRig(c) = d BY <1>2 DEF CloseRig
  <2> HIDE DEF d, e
  <2>5. Latest(d) BY <2>1, <2>3, AppendLatest DEF Sound
  <2>6. ~Connected(d) BY <2>3 DEF Connected
  <2> QED BY <2>4, <2>5, <2>6 DEF Sound
<1> QED BY <1>1, <1>2

\* A call posted in its order: a set goes to an instance that is connected, or
\* about to be; a start comes first, or behind a stop.
LEMMA PostSound ==
  ASSUME NEW c, NEW d, NEW online \in BOOLEAN, NEW op \in {"start", "set"}, NEW x, NEW es,
         Ordered(c, online), Sound(c, x, es), d \in Confs, d.calls = c.calls,
         op = "set" => d.active = c.active,
         op = "start" => d.active /\ ~c.active /\ ~d.cached.ptt
  PROVE  Sound(Post(d, op), x, es)
<1> DEFINE e == [op |-> op, s |-> d.cached, num |-> d.num + 1]
           p == Post(d, op)
<1>1. c \in Confs /\ Handover(c, online) /\ Latest(c) BY DEF Ordered, Sound
<1>2. e \in Calls /\ e.op = op /\ e.s = d.cached BY DEF Confs, Calls
<1>3. p \in Confs BY PostType
<1>4. /\ p.active = d.active /\ p.cached = d.cached
      /\ p.calls = IF d.active THEN Append(c.calls, e) ELSE c.calls
  BY DEF Post, Confs
<1> HIDE DEF p, e
<1>5. CASE ~d.active
  <2>1. p.calls = c.calls /\ ~p.active BY <1>4, <1>5
  <2>2. Latest(p) /\ ~Connected(p) BY <1>1, <2>1 DEF Latest, Connected
  <2> QED BY <2>2 DEF Sound, p
<1>6. CASE d.active
  <2>1. p.calls = Append(c.calls, e) BY <1>4, <1>6
  <2>2. e.op = "start" => ~e.s.ptt BY <1>2
  <2>3. /\ Latest(p) /\ p.calls # <<>>
        /\ c.calls = <<>> => p.calls[1] = e
        /\ c.calls # <<>> => p.calls[1] = c.calls[1]
        /\ Connected(p) => \A i \in DOMAIN c.calls : c.calls[i].op # "stop"
    BY <1>1, <1>2, <1>3, <1>4, <2>1, <2>2, AppendLatest
  <2>4. ASSUME Connected(p), op = "set", ~Fails(es) PROVE Applied(p, x)
    <3>1. Connected(c) BY <1>6, <2>3, <2>4 DEF Connected
    <3>2. Applied(c, x) BY <2>4, <3>1 DEF Sound
    <3> QED BY <2>3, <3>2 DEF Applied
  <2>5. ASSUME Connected(p), op = "start" PROVE Applied(p, x)
    <3>1. ~c.active BY <2>5
    <3>2. c.calls # <<>> => c.calls[Len(c.calls)].op = "stop"
      BY <1>1, <3>1 DEF Handover
    <3>3. c.calls # <<>> => Len(c.calls) \in DOMAIN c.calls BY <1>1 DEF Confs
    <3>4. c.calls = <<>> BY <2>3, <2>5, <3>2, <3>3
    <3> QED BY <1>2, <2>3, <2>5, <3>4 DEF Applied
  <2> QED BY <2>3, <2>4, <2>5 DEF Sound, p
<1> QED BY <1>5, <1>6

\* Opening, tuning and keying.
LEMMA CommandsSound ==
  ASSUME NEW c, NEW online \in BOOLEAN, NEW x, NEW es, Ordered(c, online), Sound(c, x, es)
  PROVE  /\ Sound(OpenRig(c), x, es)
         /\ \A f \in Frequencies \cup {0} : Sound(TransceiverFrequency(c, f), x, es)
         /\ \A on \in BOOLEAN : Sound(TransceiverPtt(c, on), x, es)
<1>1. c \in Confs BY DEF Ordered
<1>2. Sound(OpenRig(c), x, es)
  <2> DEFINE d == [c EXCEPT !.active = TRUE, !.cached = Unknown]
  <2>1. CASE c.active BY <2>1 DEF OpenRig
  <2>2. CASE ~c.active
    <3>1. d \in Confs /\ d.calls = c.calls /\ d.active /\ d.cached = Unknown
      BY <1>1, UnknownType DEF Confs
    <3>2. ~d.cached.ptt BY <3>1 DEF Unknown
    <3>3. OpenRig(c) = Post(d, "start") BY <2>2 DEF OpenRig
    <3> HIDE DEF d
    <3> QED BY <2>2, <3>1, <3>2, <3>3, PostSound
  <2> QED BY <2>1, <2>2
<1>3. ASSUME NEW f \in Frequencies \cup {0} PROVE Sound(TransceiverFrequency(c, f), x, es)
  <2> DEFINE d == [c EXCEPT !.cached.online = TRUE, !.cached.freq = f]
  <2>1. d \in Confs /\ d.calls = c.calls /\ d.active = c.active
    BY <1>1 DEF Confs, TransceiverState
  <2>2. TransceiverFrequency(c, f) = Post(d, "set") BY DEF TransceiverFrequency
  <2> HIDE DEF d
  <2> QED BY <2>1, <2>2, PostSound
<1>4. ASSUME NEW on \in BOOLEAN PROVE Sound(TransceiverPtt(c, on), x, es)
  <2> DEFINE d == [c EXCEPT !.cached.online = TRUE, !.cached.ptt = on]
  <2>1. d \in Confs /\ d.calls = c.calls /\ d.active = c.active
    BY <1>1 DEF Confs, TransceiverState
  <2>2. TransceiverPtt(c, on) = Post(d, "set") BY DEF TransceiverPtt
  <2> HIDE DEF d
  <2> QED BY <2>1, <2>2, PostSound
<1> QED BY <1>2, <1>3, <1>4

\* Following the rig leaves what is asked of PTT alone.
LEMMA FollowRigSound ==
  ASSUME NEW c \in Confs, NEW x, NEW es, NEW fs, NEW s \in TransceiverState,
         Sound(c, x, es), Fails(es) => Fails(fs)
  PROVE  Sound(FollowRig(c, s), x, fs)
<1> DEFINE d == [c EXCEPT !.cached.online = s.online, !.cached.freq = s.freq]
<1>1. /\ d \in Confs /\ d.calls = c.calls /\ d.active = c.active
      /\ d.cached.ptt = c.cached.ptt
  BY DEF Confs, TransceiverState
<1>2. FollowRig(c, s) = IF s.online THEN d ELSE CloseRig(d) BY DEF FollowRig
<1> HIDE DEF d
<1>3. Sound(d, x, fs) BY <1>1, SoundFails
<1> QED BY <1>1, <1>2, <1>3, CloseRigSound

\* Handling an update takes no failure away.
LEMMA FailsTail ==
  ASSUME NEW es \in Seq(Events), es # <<>>, Head(es).op # "failure", Fails(es)
  PROVE  Fails(Tail(es))
<1> DEFINE n == Len(es)
           fs == Tail(es)
<1>1. n \in Nat /\ Len(fs) = n - 1 /\ \A i \in 1..n - 1 : fs[i] = es[i + 1] OBVIOUS
<1>2. Head(es) = es[1] OBVIOUS
<1>3. PICK i \in 1..n : es[i].op = "failure" BY DEF Fails
<1> HIDE DEF fs
<1>4. i - 1 \in 1..n - 1 /\ (i - 1) + 1 = i BY <1>1, <1>2, <1>3
<1>5. fs[i - 1].op = "failure" BY <1>1, <1>3, <1>4
<1> QED BY <1>1, <1>4, <1>5 DEF Fails, fs
-----------------------------------------------------------------------------
(* PTT between the two threads: the invariant, kept by every action. *)

PttInv == Mirrors(Here) /\ Sound(conf, Here, events)

\* What has to be shown of the next state.
LEMMA PttInvNext ==
  ASSUME NEW y, rig' = y.rig, radio' = y.radio, Mirrors(y), Sound(conf', y, events')
  PROVE  PttInv'
<1>1. Mirrors(Here)' BY DEF Mirrors, Shown, Read, Asked, Online, Here
<1>2. Latest(conf)' BY DEF Sound, Latest
<1>3. Connected(conf)' = Connected(conf') /\ Fails(events)' = Fails(events')
  BY DEF Connected, Fails
<1>4. Applied(conf', y) => Applied(conf, Here)' BY DEF Applied, Online, Here
<1>5. (Connected(conf) => Fails(events) \/ Applied(conf, Here))'
  BY <1>3, <1>4 DEF Sound
<1> QED BY <1>1, <1>2, <1>5 DEF PttInv, Sound

\* A call taken leaves what the others say; after a stop the next instance is to be
\* started.
LEMMA TakenLatest ==
  ASSUME RigInv, NEW op, Taken(op), Latest(conf)
  PROVE  /\ Latest(conf') /\ conf'.active = conf.active /\ conf'.cached = conf.cached
         /\ conf.calls # <<>> /\ conf.calls[1] = Head(conf.calls)
         /\ op # "stop" /\ Connected(conf') => Connected(conf)
         /\ op = "stop" /\ Connected(conf') => conf'.calls # <<>> /\ conf'.calls[1].op = "start"
         /\ conf'.calls = <<>> /\ conf.active => Head(conf.calls).s.ptt = conf.cached.ptt
         /\ op = "start" => ~Head(conf.calls).s.ptt
<1> DEFINE n == Len(conf.calls)
<1>1. conf \in Confs /\ Handover(conf, Online(Here)) BY RigInvMeaning
<1>2. conf.calls \in Seq(Calls) /\ conf.calls # <<>> /\ n \in Nat /\ n > 0
  BY <1>1 DEF Taken, Confs
<1>3. conf.calls[1].op = op /\ conf' \in Confs BY TakenType
<1>4. /\ conf'.calls = Tail(conf.calls) /\ conf'.active = conf.active
      /\ conf'.cached = conf.cached
  BY <1>1 DEF Taken, Confs
<1>5. /\ Len(conf'.calls) = n - 1 /\ DOMAIN conf'.calls = 1..n - 1
      /\ DOMAIN conf.calls = 1..n /\ Head(conf.calls) = conf.calls[1]
      /\ \A i \in 1..n - 1 : conf'.calls[i] = conf.calls[i + 1]
  BY <1>2, <1>4
<1>6. conf'.calls = <<>> <=> n = 1
  <2>1. conf'.calls \in Seq(Calls) BY <1>3 DEF Confs
  <2>2. conf'.calls = <<>> <=> Len(conf'.calls) = 0 BY <2>1, EmptySeq
  <2> QED BY <1>2, <1>5, <2>2
<1>7. Latest(conf')
  <2>1. ASSUME NEW i \in 1..Len(conf'.calls), conf'.calls[i].op = "start"
        PROVE  ~conf'.calls[i].s.ptt
    <3>1. i \in 1..n - 1 /\ i + 1 \in 1..n BY <1>2, <1>5
    <3> QED BY <1>5, <2>1, <3>1 DEF Latest
  <2>2. conf'.calls # <<>> => conf'.calls[Len(conf'.calls)] = conf.calls[n]
    <3>1. n \in Nat /\ n > 0 BY <1>2
    <3> HIDE DEF n
    <3>2. n # 1 => n - 1 \in 1..n - 1 /\ (n - 1) + 1 = n BY <3>1
    <3> QED BY <1>5, <1>6, <3>2
  <2> QED BY <1>2, <1>4, <2>1, <2>2 DEF Latest
<1>8. ASSUME op # "stop", Connected(conf') PROVE Connected(conf)
  <2>1. ASSUME NEW i \in DOMAIN conf.calls PROVE conf.calls[i].op # "stop"
    <3>1. CASE i = 1 BY <1>3, <1>8, <3>1
    <3>2. CASE i # 1
      <4>1. i - 1 \in 1..n - 1 /\ (i - 1) + 1 = i BY <1>2, <1>5, <3>2
      <4>2. conf'.calls[i - 1] = conf.calls[i] BY <1>5, <4>1
      <4> QED BY <1>5, <1>8, <4>1, <4>2 DEF Connected
    <3> QED BY <3>1, <3>2
  <2> QED BY <1>4, <1>8, <2>1 DEF Connected
<1>9. ASSUME op = "stop", Connected(conf')
      PROVE  conf'.calls # <<>> /\ conf'.calls[1].op = "start"
  <2>1. conf.active BY <1>4, <1>9 DEF Connected
  <2>2. conf.calls[n].op # "stop" BY <1>1, <1>2, <2>1 DEF Handover
  <2>3. n # 1 BY <1>3, <1>9, <2>2
  <2>4. 1 \in 1..n - 1
    <3>1. n \in Nat /\ n > 0 BY <1>2
    <3> HIDE DEF n
    <3> QED BY <2>3, <3>1
  <2>5. conf.calls[1 + 1].op = "start" BY <1>1, <1>3, <1>9, <2>4 DEF Handover
  <2>6. conf'.calls[1] = conf.calls[1 + 1] BY <1>5, <2>4
  <2> QED BY <1>6, <2>3, <2>5, <2>6
<1>10. conf'.calls = <<>> /\ conf.active => Head(conf.calls).s.ptt = conf.cached.ptt
  BY <1>2, <1>5, <1>6 DEF Latest
<1>11. op = "start" => ~Head(conf.calls).s.ptt
  <2>1. 1 \in 1..n BY <1>2
  <2> QED BY <1>3, <1>5, <2>1 DEF Latest
<1> QED BY <1>2, <1>4, <1>5, <1>7, <1>8, <1>9, <1>10, <1>11

\* start: the radio unkeyed, as the call says.
LEMMA StartKeepsPtt ==
  ASSUME ~LagPtt, ~DropFails, RigInv, PttInv,
         StartRig \/ \E drops \in Drops : StartFails(drops)
  PROVE  PttInv'
<1> DEFINE linked == Connected(conf')
           call == Head(conf.calls)
<1>1. Here \in Threads /\ Released(Here) /\ conf \in Confs BY RigInvMeaning
<1>2. Taken("start") BY DEF StartRig, StartFails
<1>3. conf' \in Confs /\ call.num \in Nat /\ call.s \in TransceiverState /\ ~Online(Here)
  BY <1>2, TakenType DEF Calls
<1>4. linked \in BOOLEAN BY <1>3, ConnectedType
<1>5. /\ Latest(conf') /\ conf'.cached = conf.cached /\ conf'.active = conf.active
      /\ ~call.s.ptt
      /\ conf'.calls = <<>> /\ conf.active => call.s.ptt = conf.cached.ptt
  BY <1>2, TakenLatest DEF PttInv, Sound
<1>6. Shown(Here) /\ ~Here.radio.ptt BY <1>1, <1>3 DEF PttInv, Mirrors, Released
<1>7. CASE StartRig
  <2> DEFINE y == Start(Here, call.num, linked)
  <2>1. Becomes(y) BY <1>7 DEF StartRig
  <2>2. y \in Threads /\ Online(y) BY <1>1, <1>3, <1>4, StartType
  <2>3. Mirrors(y) /\ ~y.radio.ptt BY <1>1, <1>3, <1>4, <1>6, StartReads
  <2> HIDE DEF y
  <2>4. y.radio.ptt \in BOOLEAN /\ call.s.ptt \in BOOLEAN /\ conf.cached.ptt \in BOOLEAN
    BY <1>1, <1>3, <2>2 DEF Threads, Radios, TransceiverState, Confs
  <2>5. conf'.calls = <<>> /\ conf.active => y.radio.ptt = conf'.cached.ptt
    BY <1>5, <2>3, <2>4
  <2>6. linked => Applied(conf', y)
    BY <1>5, <2>2, <2>5 DEF Applied, Connected
  <2> QED BY <1>5, <2>1, <2>3, <2>6, PttInvNext DEF Becomes, Sound
<1>8. ASSUME NEW drops \in Drops, StartFails(drops) PROVE PttInv'
  <2> DEFINE i == [Here EXCEPT !.rig = Instance]
             u == Update(i, linked)
             y == Offline(u, linked, drops)
  <2>1. drops \in BOOLEAN BY RadioAssumption DEF Drops
  <2>2. i \in Threads /\ i.radio = Here.radio BY <1>1, InstanceType DEF Threads
  <2>3. Becomes(y) BY <1>8 DEF StartFails
  <2> HIDE DEF i
  <2>4. u \in Threads /\ u.radio = Here.radio BY <1>4, <2>2, UpdateKeeps
  <2>5. Shown(u) BY <1>6, <2>4 DEF Shown
  <2> HIDE DEF u
  <2>6. Shown(y) /\ ~Online(y) /\ (linked => Fails(y.events))
    BY <1>4, <2>1, <2>4, <2>5, OfflineFails
  <2> HIDE DEF y
  <2> QED BY <1>5, <2>3, <2>6, PttInvNext DEF Becomes, Sound, Mirrors
<1> QED BY <1>7, <1>8

\* set: PTT as the call says, unless a failure is reported.
LEMMA SetKeepsPtt ==
  ASSUME ~LagPtt, RigInv, PttInv, SetRig \/ \E drops \in Drops : SetFails(drops)
  PROVE  PttInv'
<1> DEFINE linked == Connected(conf')
           call == Head(conf.calls)
<1>1. Here \in Threads /\ conf \in Confs BY RigInvMeaning
<1>2. Taken("set") BY DEF SetRig, SetFails
<1>3. conf' \in Confs /\ call.num \in Nat /\ call.s \in TransceiverState
      /\ conf.calls[1].op = "set"
  BY <1>2, TakenType DEF Calls
<1>4. linked \in BOOLEAN BY <1>3, ConnectedType
<1>5. /\ Latest(conf') /\ conf'.cached = conf.cached /\ conf'.active = conf.active
      /\ conf.calls # <<>>
      /\ linked => Connected(conf)
      /\ conf'.calls = <<>> /\ conf.active => call.s.ptt = conf.cached.ptt
  BY <1>2, TakenLatest DEF PttInv, Sound
<1>6. Mirrors(Here) /\ Sound(conf, Here, events) BY DEF PttInv
<1>7. Here.events = events BY DEF Here
<1>8. CASE SetRig
  <2> DEFINE y == Set(Here, call.s, call.num, linked)
  <2>1. Becomes(y) BY <1>8 DEF SetRig
  <2>2. Online(y) BY <1>1, <1>3, <1>4, SetType
  <2>3. /\ Mirrors(y) /\ (Online(Here) => y.radio.ptt = call.s.ptt)
        /\ Fails(Here.events) => Fails(y.events)
    BY <1>1, <1>3, <1>4, <1>6, SetReads
  <2> HIDE DEF y
  <2>4. ASSUME linked PROVE Fails(y.events) \/ Applied(conf', y)
    <3>1. conf'.active BY <2>4 DEF Connected
    <3>2. CASE Fails(events) BY <1>7, <2>3, <3>2
    <3>3. CASE Applied(conf, Here)
      <4>1. Online(Here) BY <1>3, <1>5, <3>3 DEF Applied
      <4> QED BY <1>5, <2>2, <2>3, <3>1, <4>1 DEF Applied
    <3> QED BY <1>5, <1>6, <2>4, <3>2, <3>3 DEF Sound
  <2> QED BY <1>5, <2>1, <2>3, <2>4, PttInvNext DEF Becomes, Sound
<1>9. ASSUME NEW drops \in Drops, SetFails(drops) PROVE PttInv'
  <2>1. drops \in BOOLEAN BY RadioAssumption DEF Drops
  <2>2. PICK x \in Steps(Here, call.s, linked).thrown :
          Becomes(Offline(Update(x, linked), linked, drops))
    BY <1>9 DEF SetFails
  <2> DEFINE u == Update(x, linked)
             y == Offline(u, linked, drops)
  <2>3. x \in Threads /\ Shown(x) BY <1>1, <1>3, <1>4, <1>6, StepsType, StepsReads DEF Mirrors
  <2>4. u \in Threads /\ Shown(u) BY <1>4, <2>3, UpdateKeeps DEF Shown
  <2>5. Becomes(y) BY <2>2
  <2> HIDE DEF u
  <2>6. Shown(y) /\ ~Online(y) /\ (linked => Fails(y.events))
    BY <1>4, <2>1, <2>4, OfflineFails
  <2> HIDE DEF y
  <2> QED BY <1>5, <2>5, <2>6, PttInvNext DEF Becomes, Sound, Mirrors
<1> QED BY <1>8, <1>9

\* stop: whoever is connected next is to be started.
LEMMA StopKeepsPtt ==
  ASSUME ~LagPtt, RigInv, PttInv, NEW drops \in Drops, StopRig(drops) PROVE PttInv'
<1> DEFINE y == Shutdown(Here, FALSE, drops)
<1>1. Here \in Threads BY RigInvMeaning
<1>2. Taken("stop") /\ Becomes(y) BY DEF StopRig
<1>3. drops \in BOOLEAN /\ FALSE \in BOOLEAN BY RadioAssumption DEF Drops
<1>4. /\ Latest(conf')
      /\ Connected(conf') => conf'.calls # <<>> /\ conf'.calls[1].op = "start"
  BY <1>2, TakenLatest DEF PttInv, Sound
<1>5. Shown(y) /\ ~Online(y)
  BY <1>1, <1>3, ShutdownType, ShutdownReads DEF PttInv, Mirrors
<1> HIDE DEF y
<1>6. Connected(conf') => Applied(conf', y) BY <1>4 DEF Applied
<1> QED BY <1>2, <1>4, <1>5, <1>6, PttInvNext DEF Becomes, Sound, Mirrors

\* A poll finds PTT as it was set, or is reported to have failed.
LEMMA PollKeepsPtt ==
  ASSUME ~LagPtt, RigInv, PttInv, PollTimer \/ \E drops \in Drops : PollFails(drops)
  PROVE  PttInv'
<1> DEFINE linked == Connected(conf)
<1>1. Here \in Threads /\ conf \in Confs BY RigInvMeaning
<1>2. linked \in BOOLEAN BY <1>1, ConnectedType
<1>3. Mirrors(Here) /\ Sound(conf, Here, events) /\ Here.events = events
  BY DEF PttInv, Here
<1>4. CASE PollTimer
  <2> DEFINE y == Sync(Here, linked)
  <2>1. Becomes(y) /\ conf' = conf BY <1>4 DEF PollTimer
  <2>2. Online(y) = Online(Here) /\ y.radio = Here.radio BY <1>1, <1>2, SyncType
  <2>3. Mirrors(y) /\ (Fails(events) => Fails(y.events))
    BY <1>1, <1>2, <1>3, SyncReads
  <2> HIDE DEF y
  <2>4. Sound(conf, y, y.events) BY <1>3, <2>2, <2>3 DEF Sound, Applied
  <2> QED BY <2>1, <2>3, <2>4, PttInvNext DEF Becomes
<1>5. ASSUME NEW drops \in Drops, PollFails(drops) PROVE PttInv'
  <2>1. drops \in BOOLEAN BY RadioAssumption DEF Drops
  <2>2. PICK x \in {Here, PollFrequency(Here)} : Becomes(Offline(x, linked, drops))
    BY <1>5 DEF PollFails
  <2> DEFINE y == Offline(x, linked, drops)
  <2>3. x \in Threads /\ Shown(x) BY <1>1, <1>3, PollType DEF Mirrors, Shown
  <2>4. Becomes(y) /\ conf' = conf BY <1>5, <2>2 DEF PollFails
  <2>5. Shown(y) /\ ~Online(y) /\ (linked => Fails(y.events))
    BY <1>2, <2>1, <2>3, OfflineFails
  <2> HIDE DEF y
  <2>6. Sound(conf, y, y.events) BY <1>3, <2>5 DEF Sound
  <2> QED BY <2>4, <2>5, <2>6, PttInvNext DEF Becomes, Mirrors
<1> QED BY <1>4, <1>5

\* The dial and the radio's display have nothing to do with it.
LEMMA RadioKeepsPtt ==
  ASSUME RigInv, PttInv, Settle \/ \E f \in Frequencies : TurnDial(f) PROVE PttInv'
<1> DEFINE y == [Here EXCEPT !.radio = radio']
<1>1. radio \in Radios BY RigInvMeaning DEF Here, Threads
<1>2. Mirrors(Here) /\ Sound(conf, Here, events) /\ Shown(Here) BY DEF PttInv, Mirrors
<1>3. UNCHANGED <<conf, rig, events>> BY DEF Settle, TurnDial
<1>4. radio'.ptt = radio.ptt /\ radio'.shown.ptt = radio.shown.ptt
  <2>1. radio.shown.ptt = radio.ptt BY <1>2 DEF Shown, Here
  <2>2. CASE Settle BY <1>1, <2>1, <2>2 DEF Settle, Radios, Shows
  <2>3. ASSUME NEW f \in Frequencies, TurnDial(f)
        PROVE  radio'.ptt = radio.ptt /\ radio'.shown.ptt = radio.shown.ptt
    BY <1>1, <2>3 DEF TurnDial, Radios, Shows
  <2> QED BY <2>2, <2>3
<1>5. y.rig = rig /\ y.radio = radio' /\ Here.rig = rig /\ Here.radio = radio BY DEF Here
<1> HIDE DEF y
<1>6. Mirrors(y) BY <1>2, <1>4, <1>5 DEF Mirrors, Shown, Read, Asked, Online
<1>7. Sound(conf, y, events) BY <1>2, <1>4, <1>5 DEF Sound, Applied, Online
<1> QED BY <1>3, <1>5, <1>6, <1>7, PttInvNext

\* A slot of the GUI.
LEMMA SlotKeepsPtt ==
  ASSUME PttInv, UNCHANGED <<rig, radio>>, Sound(conf', Here, events') PROVE PttInv'
BY PttInvNext DEF PttInv, Here

\* Updates and failures.
LEMMA GuiKeepsPtt == ASSUME RigInv, PttInv, Gui PROVE PttInv'
<1>1. conf \in Confs /\ events \in Seq(Events) BY RigInvMeaning
<1>2. events # <<>> /\ UNCHANGED <<rig, radio>> /\ events' = Tail(events)
  BY DEF Gui, HandleUpdate, HandleFailure
<1>3. Head(events) \in Events BY <1>1, <1>2
<1>4. Head(events).s \in TransceiverState BY <1>3 DEF Events
<1>5. Sound(conf, Here, events) BY DEF PttInv
<1>6. CASE HandleUpdate
  <2>1. Fails(events) => Fails(Tail(events)) BY <1>1, <1>2, <1>6, FailsTail DEF HandleUpdate
  <2>2. conf' = FollowRig(conf, Head(events).s) BY <1>6 DEF HandleUpdate
  <2>3. Sound(conf', Here, events') BY <1>1, <1>2, <1>4, <1>5, <2>1, <2>2, FollowRigSound
  <2> QED BY <1>2, <2>3, SlotKeepsPtt
<1>7. CASE HandleFailure
  <2>1. conf' = CloseRig(conf) BY <1>7 DEF HandleFailure
  <2>2. Sound(conf', Here, events') BY <1>1, <1>5, <2>1, CloseRigSound
  <2> QED BY <1>2, <2>2, SlotKeepsPtt
<1> QED BY <1>6, <1>7 DEF Gui

\* Every call of a client.
LEMMA ClientKeepsPtt == ASSUME RigInv, PttInv, Client PROVE PttInv'
<1>1. Ordered(conf, Online(Here)) /\ Online(Here) \in BOOLEAN /\ conf \in Confs
  BY RigInvMeaning DEF Ordered
<1>2. Sound(conf, Here, events) BY DEF PttInv
<1>3. ASSUME NEW c, Sound(c, Here, events), ClientCall(c) PROVE PttInv'
  BY <1>3, SlotKeepsPtt DEF ClientCall
<1>4. ASSUME NEW f \in Frequencies, Tune(f) PROVE PttInv'
  <2>1. Ordered(OpenRig(conf), Online(Here)) /\ Sound(OpenRig(conf), Here, events)
    BY <1>1, <1>2, CommandsOrdered, CommandsSound
  <2>2. Sound(TransceiverFrequency(OpenRig(conf), f), Here, events)
    BY <1>1, <2>1, CommandsSound
  <2> QED BY <1>3, <1>4, <2>2 DEF Tune
<1>5. ASSUME NEW on \in BOOLEAN, Key(on) PROVE PttInv'
  BY <1>1, <1>2, <1>3, <1>5, CommandsSound DEF Key
<1>6. CASE Reopen BY <1>1, <1>2, <1>3, <1>6, CommandsSound DEF Reopen
<1>7. CASE Settings
  <2>1. Ordered(CloseRig(conf), Online(Here)) BY <1>1, CloseRigOrdered
  <2>2. Sound(CloseRig(conf), Here, events) BY <1>1, <1>2, CloseRigSound
  <2>3. Sound(OpenRig(CloseRig(conf)), Here, events) BY <1>1, <2>1, <2>2, CommandsSound
  <2> QED BY <1>3, <1>7, <2>3 DEF Settings
<1>8. CASE Leave BY <1>1, <1>2, <1>3, <1>8, CloseRigSound DEF Leave
<1> QED BY <1>4, <1>5, <1>6, <1>7, <1>8 DEF Client

\* A new instance, no calls, and the radio unkeyed.
LEMMA InitPttInv == Init => PttInv
<1> SUFFICES ASSUME Init PROVE PttInv OBVIOUS
<1>1. conf = [active |-> FALSE, num |-> 0, cached |-> Unknown, calls |-> <<>>]
      /\ rig = Instance
  BY DEF Init, RigInit
<1>2. PICK f \in Frequencies :
        radio = [freq |-> f, ptt |-> FALSE, shown |-> [freq |-> f, ptt |-> FALSE]]
  BY DEF Init, RigInit
<1>3. ~Online(Here) BY <1>1 DEF Here, Online, Instance, Unknown
<1>4. Shown(Here) BY <1>2 DEF Shown, Here
<1>5. ~conf.active /\ Len(conf.calls) = 0 BY <1>1
<1>6. Sound(conf, Here, events) BY <1>5 DEF Sound, Latest, Connected
<1> QED BY <1>3, <1>4, <1>6 DEF PttInv, Mirrors

\* Every step of either thread, of the radio and of a client keeps it.
LEMMA NextKeepsPttInv ==
  ASSUME ~LagPtt, ~DropFails PROVE RigInv /\ PttInv /\ [Next]_rigVars => PttInv'
<1> SUFFICES ASSUME RigInv, PttInv, [Next]_rigVars PROVE PttInv' OBVIOUS
<1>1. CASE TakeCall
  BY <1>1, StartKeepsPtt, SetKeepsPtt, StopKeepsPtt DEF TakeCall
<1>2. CASE PollTimer BY <1>2, PollKeepsPtt
<1>3. CASE DriverThrows
  BY <1>3, StartKeepsPtt, SetKeepsPtt, PollKeepsPtt DEF DriverThrows
<1>4. CASE Settle \/ \E f \in Frequencies : TurnDial(f) BY <1>4, RadioKeepsPtt
<1>5. CASE Gui BY <1>5, GuiKeepsPtt
<1>6. CASE Client BY <1>6, ClientKeepsPtt
<1>7. CASE UNCHANGED rigVars
  <2>1. UNCHANGED <<rig, radio>> /\ conf' = conf /\ events' = events BY <1>7 DEF rigVars
  <2> QED BY <2>1, SlotKeepsPtt DEF PttInv
<1> QED BY <1>1, <1>2, <1>3, <1>4, <1>5, <1>6, <1>7 DEF Next

\* With the queues empty, PTT is as the newest command says.
LEMMA QuietPtt == RigInv /\ PttInv => PttApplied
<1> SUFFICES ASSUME RigInv, PttInv, Quiet PROVE radio.ptt = conf.cached.ptt
  BY DEF PttApplied
<1>1. conf.active /\ conf.calls = <<>> /\ events = <<>> BY DEF Quiet
<1>2. Connected(conf) BY <1>1 DEF Connected
<1>3. ~Fails(events) BY <1>1 DEF Fails
<1>4. Applied(conf, Here) BY <1>2, <1>3 DEF PttInv, Sound
<1> QED BY <1>1, <1>4 DEF Applied, Here

\* For a radio that shows PTT at once and drops it when told: every command carried
\* out, PTT is what was asked for last, whatever the polls, the failures and the
\* instances of the rig between.
THEOREM PttEndsAsAsked == ASSUME ~LagPtt, ~DropFails PROVE Spec => []PttApplied
<1>1. RigInv /\ PttInv /\ [Next]_rigVars => PttInv' BY NextKeepsPttInv
<1>2. Spec => []PttInv BY <1>1, InitPttInv, RigInvariance, PTL DEF Spec
<1> QED BY <1>2, QuietPtt, RigInvariance, PTL
-----------------------------------------------------------------------------
(* What Fresh collects: the recursion has one solution, and how it changes  *)
(* with an event at either end.                                             *)

Smaller == OpToRel(<, Nat)

\* Induction over the natural numbers, for sets of them.
LEMMA EveryNat ==
  ASSUME NEW S \in SUBSET Nat, 0 \in S, \A n \in S : n + 1 \in S
  PROVE  S = Nat
<1> SUFFICES ASSUME Nat \ S # {} PROVE FALSE OBVIOUS
<1>1. IsWellFoundedOn(Smaller, Nat) BY NatLessThanWellFounded DEF Smaller
<1>2. PICK x \in Nat \ S : \A y \in Nat \ S : ~(<<y, x>> \in Smaller) BY <1>1, WFMin, Zenon
<1>3. x - 1 \in Nat \ S /\ x - 1 < x
  <2>1. x # 0 /\ x \in Nat BY <1>2
  <2>2. x - 1 \in Nat /\ (x - 1) + 1 = x BY <2>1
  <2> QED BY <1>2, <2>2
<1>4. <<x - 1, x>> \in Smaller BY <1>2, <1>3 DEF Smaller, OpToRel
<1> QED BY <1>2, <1>3, <1>4

\* An update with the number.
IsFresh(e, num) == e.op = "update" /\ e.num = num

\* F counts up what Fresh collects, for the first n events.
Collects(F, es, num, n) ==
  /\ F = [i \in 0..n |-> F[i]]
  /\ F[0] = <<>>
  /\ \A i \in 1..n : F[i] = IF IsFresh(es[i], num) THEN Append(F[i - 1], es[i].s)
                           ELSE F[i - 1]

\* Fresh is well defined: the recursion has a solution.
LEMMA FreshCollects ==
  ASSUME NEW es, NEW num, Len(es) \in Nat
  PROVE  \E F : Collects(F, es, num, Len(es)) /\ Fresh(es, num) = F[Len(es)]
<1> DEFINE Step(F, i) == IF i = 0 THEN <<>>
                         ELSE IF es[i].op = "update" /\ es[i].num = num
                                THEN Append(F[i - 1], es[i].s) ELSE F[i - 1]
           Upto(F, n) == F = [i \in 0..n |-> Step(F, i)]
           S == {n \in Nat : \E F : Upto(F, n)}
<1>1. 0 \in S
  <2>1. Upto([i \in 0..0 |-> <<>>], 0) OBVIOUS
  <2> QED BY <2>1
<1>2. ASSUME NEW n \in S PROVE n + 1 \in S
  <2>1. PICK F : Upto(F, n) OBVIOUS
  <2> DEFINE G == [i \in 0..(n + 1) |-> IF i = n + 1 THEN Step(F, n + 1) ELSE F[i]]
  <2>2. \A i \in 0..n : F[i] = Step(F, i) BY <2>1
  <2>3. \A i \in 0..(n + 1) : Step(G, i) = Step(F, i)
    <3>1. \A i \in 0..n : G[i] = F[i] OBVIOUS
    <3>2. SUFFICES ASSUME NEW i \in 0..(n + 1), i # 0 PROVE G[i - 1] = F[i - 1] OBVIOUS
    <3>3. i - 1 \in 0..n BY <3>2
    <3> QED BY <3>1, <3>3
  <2>4. \A i \in 0..(n + 1) : G[i] = Step(G, i)
    <3>1. \A i \in 0..(n + 1) : i = n + 1 \/ i \in 0..n OBVIOUS
    <3>2. \A i \in 0..n : i # n + 1 /\ i \in 0..(n + 1) OBVIOUS
    <3>3. n + 1 \in 0..(n + 1) OBVIOUS
    <3> HIDE DEF Step
    <3> QED BY <2>2, <2>3, <3>1, <3>2, <3>3
  <2> HIDE DEF Step
  <2>5. G = [i \in 0..(n + 1) |-> G[i]] OBVIOUS
  <2>6. Upto(G, n + 1) BY <2>4, <2>5
  <2> HIDE DEF G, Upto
  <2> QED BY <2>6
<1>3. Len(es) \in S
  <2> HIDE DEF S
  <2>1. S \in SUBSET Nat BY DEF S
  <2> QED BY <1>1, <1>2, <2>1, EveryNat
<1> DEFINE C == CHOOSE F : Upto(F, Len(es))
<1>4. Upto(C, Len(es)) BY <1>3
<1>5. Fresh(es, num) = C[Len(es)] BY DEF Fresh
<1> HIDE DEF C
<1>6. Collects(C, es, num, Len(es))
  <2>1. \A i \in 0..Len(es) : C[i] = Step(C, i) BY <1>4
  <2>2. C = [i \in 0..Len(es) |-> C[i]] BY <1>4, <2>1
  <2>3. \A i \in 1..Len(es) : i \in 0..Len(es) /\ i # 0 OBVIOUS
  <2> QED BY <2>1, <2>2, <2>3 DEF Collects, IsFresh
<1> QED BY <1>5, <1>6

\* Two that look at the same first k events collect the same from them.
LEMMA CollectSame ==
  ASSUME NEW es, NEW ds, NEW num, NEW F, NEW G, NEW n \in Nat, NEW m \in Nat, NEW k \in Nat,
         Collects(F, es, num, n), Collects(G, ds, num, m), k <= n, k <= m,
         \A i \in 1..k : es[i] = ds[i]
  PROVE  F[k] = G[k]
<1> DEFINE S == {i \in Nat : i <= k => F[i] = G[i]}
<1>1. 0 \in S BY DEF Collects
<1>2. ASSUME NEW i \in S PROVE i + 1 \in S
  <2>1. SUFFICES ASSUME i + 1 <= k PROVE F[i + 1] = G[i + 1] OBVIOUS
  <2>2. i + 1 \in 1..k /\ i + 1 \in 1..n /\ i + 1 \in 1..m /\ (i + 1) - 1 = i BY <2>1
  <2>3. F[i] = G[i] BY <2>1
  <2>4. F[i + 1] = IF IsFresh(es[i + 1], num) THEN Append(F[i], es[i + 1].s) ELSE F[i]
    BY <2>2 DEF Collects
  <2>5. G[i + 1] = IF IsFresh(ds[i + 1], num) THEN Append(G[i], ds[i + 1].s) ELSE G[i]
    BY <2>2 DEF Collects
  <2>6. es[i + 1] = ds[i + 1] BY <2>2
  <2> QED BY <2>3, <2>4, <2>5, <2>6
<1>3. S = Nat
  <2> HIDE DEF S
  <2>1. S \in SUBSET Nat BY DEF S
  <2> QED BY <1>1, <1>2, <2>1, EveryNat
<1> QED BY <1>3

\* An event at the end is collected last, if it is fresh.
LEMMA FreshAppend ==
  ASSUME NEW es \in Seq(Events), NEW e \in Events, NEW num
  PROVE  Fresh(Append(es, e), num) =
           IF IsFresh(e, num) THEN Append(Fresh(es, num), e.s) ELSE Fresh(es, num)
<1> DEFINE ds == Append(es, e)
           n == Len(es)
<1>1. /\ n \in Nat /\ Len(ds) = n + 1 /\ ds[n + 1] = e
      /\ \A i \in 1..n : ds[i] = es[i]
  OBVIOUS
<1>2. PICK F : Collects(F, es, num, n) /\ Fresh(es, num) = F[n] BY <1>1, FreshCollects
<1> HIDE DEF ds
<1>3. PICK G : Collects(G, ds, num, n + 1) /\ Fresh(ds, num) = G[n + 1]
  BY <1>1, FreshCollects
<1>4. G[n] = F[n] BY <1>1, <1>2, <1>3, CollectSame
<1>5. n + 1 \in 1..(n + 1) /\ (n + 1) - 1 = n BY <1>1
<1>6. G[n + 1] = IF IsFresh(e, num) THEN Append(G[n], e.s) ELSE G[n]
  BY <1>1, <1>3, <1>5 DEF Collects
<1> QED BY <1>2, <1>3, <1>4, <1>6 DEF ds

\* What is collected are states.
LEMMA FreshType ==
  ASSUME NEW es \in Seq(Events), NEW num
  PROVE  Fresh(es, num) \in Seq(TransceiverState)
<1> DEFINE n == Len(es)
<1>1. n \in Nat OBVIOUS
<1>2. PICK F : Collects(F, es, num, n) /\ Fresh(es, num) = F[n] BY <1>1, FreshCollects
<1> DEFINE S == {i \in Nat : i <= n => F[i] \in Seq(TransceiverState)}
<1>3. 0 \in S BY <1>2 DEF Collects
<1>4. ASSUME NEW i \in S PROVE i + 1 \in S
  <2>1. SUFFICES ASSUME i + 1 <= n PROVE F[i + 1] \in Seq(TransceiverState) OBVIOUS
  <2>2. i + 1 \in 1..n /\ (i + 1) - 1 = i BY <1>1, <2>1
  <2>3. F[i] \in Seq(TransceiverState) BY <1>1, <2>1
  <2>4. es[i + 1] \in Events BY <2>2
  <2>5. es[i + 1].s \in TransceiverState BY <2>4 DEF Events
  <2>6. F[i + 1] = IF IsFresh(es[i + 1], num) THEN Append(F[i], es[i + 1].s) ELSE F[i]
    BY <1>2, <2>2 DEF Collects
  <2> QED BY <2>3, <2>5, <2>6
<1>5. S = Nat
  <2> HIDE DEF S
  <2>1. S \in SUBSET Nat BY DEF S
  <2> QED BY <1>3, <1>4, <2>1, EveryNat
<1> QED BY <1>1, <1>2, <1>5

\* Nothing fresh, nothing collected.
LEMMA FreshNone ==
  ASSUME NEW es \in Seq(Events), NEW num, \A i \in 1..Len(es) : ~IsFresh(es[i], num)
  PROVE  Fresh(es, num) = <<>>
<1> DEFINE n == Len(es)
<1>1. n \in Nat OBVIOUS
<1>2. PICK F : Collects(F, es, num, n) /\ Fresh(es, num) = F[n] BY <1>1, FreshCollects
<1> DEFINE S == {i \in Nat : i <= n => F[i] = <<>>}
<1>3. 0 \in S BY <1>2 DEF Collects
<1>4. ASSUME NEW i \in S PROVE i + 1 \in S
  <2>1. SUFFICES ASSUME i + 1 <= n PROVE F[i + 1] = <<>> OBVIOUS
  <2>2. i + 1 \in 1..n /\ (i + 1) - 1 = i BY <1>1, <2>1
  <2>3. F[i] = <<>> BY <1>1, <2>1
  <2> QED BY <1>2, <2>2, <2>3 DEF Collects
<1>5. S = Nat
  <2> HIDE DEF S
  <2>1. S \in SUBSET Nat BY DEF S
  <2> QED BY <1>3, <1>4, <2>1, EveryNat
<1> QED BY <1>1, <1>2, <1>5

\* The first event is collected first, if it is fresh.
LEMMA FreshTail ==
  ASSUME NEW es \in Seq(Events), es # <<>>, NEW num
  PROVE  IF IsFresh(Head(es), num)
           THEN /\ Fresh(es, num) # <<>> /\ Head(Fresh(es, num)) = Head(es).s
                /\ Tail(Fresh(es, num)) = Fresh(Tail(es), num)
           ELSE Fresh(es, num) = Fresh(Tail(es), num)
<1> DEFINE ds == Tail(es)
           m == Len(ds)
           first == IF IsFresh(Head(es), num) THEN <<Head(es).s>> ELSE <<>>
<1>1. /\ ds \in Seq(Events) /\ m \in Nat /\ Len(es) = m + 1 /\ Head(es) = es[1]
      /\ \A i \in 1..m : ds[i] = es[i + 1]
  OBVIOUS
<1>2. Head(es).s \in TransceiverState
  <2>1. Head(es) \in Events OBVIOUS
  <2> QED BY <2>1 DEF Events
<1>3. first \in Seq(TransceiverState) BY <1>2
<1> HIDE DEF ds
<1>4. PICK F : Collects(F, es, num, m + 1) /\ Fresh(es, num) = F[m + 1]
  BY <1>1, FreshCollects
<1>5. PICK G : Collects(G, ds, num, m) /\ Fresh(ds, num) = G[m] BY <1>1, FreshCollects
<1> DEFINE S == {i \in Nat : i <= m => /\ G[i] \in Seq(TransceiverState)
                                       /\ F[i + 1] = first \o G[i]}
<1>6. 0 \in S
  <2>1. 1 \in 1..(m + 1) /\ 0 + 1 = 1 /\ 1 - 1 = 0 BY <1>1
  <2>2. F[1] = IF IsFresh(es[1], num) THEN Append(<<>>, es[1].s) ELSE <<>>
    BY <1>4, <2>1 DEF Collects
  <2>3. F[1] = first BY <1>1, <2>2
  <2>4. G[0] = <<>> BY <1>5 DEF Collects
  <2> HIDE DEF first
  <2>5. first \o <<>> = first BY <1>3
  <2>6. G[0] \in Seq(TransceiverState) /\ F[0 + 1] = first \o G[0]
    BY <2>1, <2>3, <2>4, <2>5
  <2> QED BY <2>6
<1> HIDE DEF first
<1>7. ASSUME NEW i \in S PROVE i + 1 \in S
  <2>1. SUFFICES ASSUME i + 1 <= m
                 PROVE  /\ G[i + 1] \in Seq(TransceiverState)
                        /\ F[(i + 1) + 1] = first \o G[i + 1]
    OBVIOUS
  <2>2. i + 1 \in 1..m /\ (i + 1) - 1 = i /\ (i + 1) + 1 \in 1..(m + 1)
        /\ ((i + 1) + 1) - 1 = i + 1
    BY <1>1, <2>1
  <2>3. G[i] \in Seq(TransceiverState) /\ F[i + 1] = first \o G[i] BY <1>1, <2>1
  <2> DEFINE e == ds[i + 1]
  <2>4. e = es[(i + 1) + 1] /\ e \in Events BY <1>1, <2>2
  <2>5. e.s \in TransceiverState BY <2>4 DEF Events
  <2>6. G[i + 1] = IF IsFresh(e, num) THEN Append(G[i], e.s) ELSE G[i]
    BY <1>5, <2>2 DEF Collects
  <2>7. F[(i + 1) + 1] = IF IsFresh(e, num) THEN Append(F[i + 1], e.s) ELSE F[i + 1]
    <3> DEFINE k == (i + 1) + 1
    <3>1. F[k] = IF IsFresh(es[k], num) THEN Append(F[k - 1], es[k].s) ELSE F[k - 1]
      <4>1. k \in 1..(m + 1) BY <2>2
      <4> HIDE DEF k
      <4> QED BY <1>4, <4>1 DEF Collects
    <3> QED BY <2>2, <2>4, <3>1
  <2> HIDE DEF e
  <2>8. Append(first \o G[i], e.s) = first \o Append(G[i], e.s)
    <3> DEFINE a == e.s
               t == G[i]
    <3>1. a \in TransceiverState /\ t \in Seq(TransceiverState) BY <2>3, <2>5
    <3> HIDE DEF a, t
    <3>2. Append(first \o t, a) = first \o Append(t, a) BY <1>3, <3>1
    <3> QED BY <3>2 DEF a, t
  <2>9. Append(G[i], e.s) \in Seq(TransceiverState) BY <2>3, <2>5
  <2> QED BY <2>3, <2>6, <2>7, <2>8, <2>9
<1>8. S = Nat
  <2> HIDE DEF S
  <2>1. S \in SUBSET Nat BY DEF S
  <2> QED BY <1>6, <1>7, <2>1, EveryNat
<1>9. Fresh(es, num) = first \o Fresh(ds, num) /\ Fresh(ds, num) \in Seq(TransceiverState)
  BY <1>1, <1>4, <1>5, <1>8
<1> DEFINE rest == Fresh(ds, num)
<1> HIDE DEF rest
<1>10. CASE IsFresh(Head(es), num)
  <2>1. first = <<Head(es).s>> BY <1>10 DEF first
  <2> DEFINE a == Head(es).s
  <2>2. /\ <<a>> \o rest # <<>> /\ Head(<<a>> \o rest) = a
        /\ Tail(<<a>> \o rest) = rest
    <3> HIDE DEF a
    <3>1. a \in TransceiverState /\ rest \in Seq(TransceiverState) BY <1>2, <1>9 DEF rest, a
    <3> QED BY <3>1
  <2> QED BY <1>9, <1>10, <2>1, <2>2 DEF rest, ds
<1>11. CASE ~IsFresh(Head(es), num)
  <2>1. first = <<>> BY <1>11 DEF first
  <2>2. <<>> \o rest = rest BY <1>9 DEF rest
  <2> QED BY <1>9, <1>11, <2>1, <2>2 DEF rest, ds
<1> QED BY <1>10, <1>11
-----------------------------------------------------------------------------
(* What the operators on the rig's thread post.                             *)

Bounded(es, n) == \A i \in 1..Len(es) : es[i].num <= n

\* From x to y nothing is posted.
Silent(x, y) == y.events = x.events /\ y.rig.num = x.rig.num

\* From x to y something is posted, at most one fresh update, and only while linked
\* and if the newest command c was carried out.
Says(x, y, linked, c) ==
  /\ y.rig.num = x.rig.num
  /\ linked \/ y.events = x.events
  /\ Bounded(x.events, c) => Bounded(y.events, c)
  /\ \/ Fresh(y.events, c) = Fresh(x.events, c)
     \/ /\ x.rig.num = c
        /\ \E s \in TransceiverState : Fresh(y.events, c) = Append(Fresh(x.events, c), s)

\* Posting an event.
LEMMA EmitSays ==
  ASSUME NEW x \in Threads, NEW linked \in BOOLEAN, NEW e \in Events, NEW c \in Nat,
         e.num <= c
  PROVE  /\ Emit(x, linked, e).rig.num = x.rig.num
         /\ linked \/ Emit(x, linked, e).events = x.events
         /\ Bounded(x.events, c) => Bounded(Emit(x, linked, e).events, c)
         /\ Fresh(Emit(x, linked, e).events, c) =
              IF linked /\ IsFresh(e, c) THEN Append(Fresh(x.events, c), e.s)
              ELSE Fresh(x.events, c)
<1> DEFINE y == Emit(x, linked, e)
<1>1. x.events \in Seq(Events) BY DEF Threads
<1>2. y.rig = x.rig /\ y.events = IF linked THEN Append(x.events, e) ELSE x.events
  BY DEF Emit, Threads
<1> HIDE DEF y
<1>3. Fresh(Append(x.events, e), c) =
        IF IsFresh(e, c) THEN Append(Fresh(x.events, c), e.s) ELSE Fresh(x.events, c)
  BY <1>1, FreshAppend
<1>4. ASSUME Bounded(x.events, c) PROVE Bounded(Append(x.events, e), c)
  <2>1. \A i \in 1..Len(Append(x.events, e)) :
          \/ Append(x.events, e)[i] = e
          \/ i \in 1..Len(x.events) /\ Append(x.events, e)[i] = x.events[i]
    BY <1>1
  <2> QED BY <1>4, <2>1 DEF Bounded
<1> QED BY <1>2, <1>3, <1>4 DEF y

\* update_rx and update_complete post the state with the number of the instance.
LEMMA UpdateSays ==
  ASSUME NEW x \in Threads, NEW linked \in BOOLEAN, NEW c \in Nat, x.rig.num <= c
  PROVE  Says(x, Update(x, linked), linked, c)
<1> DEFINE e == [op |-> "update", s |-> x.rig.actual, num |-> x.rig.num]
           y == Emit(x, linked, e)
           u == Update(x, linked)
<1>1. /\ e \in Events /\ e.num <= c /\ e.s \in TransceiverState
      /\ IsFresh(e, c) => x.rig.num = c
  BY DEF Threads, Rigs, Events, IsFresh
<1>2. y \in Threads /\ y.rig = x.rig BY <1>1, EmitKeeps
<1>3. u = [y EXCEPT !.rig.last = x.rig.actual] BY DEF Update
<1> HIDE DEF y, u
<1>4. u.events = y.events /\ u.rig.num = y.rig.num BY <1>2, <1>3 DEF Threads, Rigs
<1> HIDE DEF e
<1>5. /\ y.rig.num = x.rig.num /\ (linked \/ y.events = x.events)
      /\ Bounded(x.events, c) => Bounded(y.events, c)
      /\ Fresh(y.events, c) = IF linked /\ IsFresh(e, c) THEN Append(Fresh(x.events, c), e.s)
                              ELSE Fresh(x.events, c)
  BY <1>1, EmitSays DEF y
<1> QED BY <1>1, <1>4, <1>5 DEF Says, u

LEMMA SaysNothing ==
  ASSUME NEW x, NEW y, NEW linked, NEW c, Silent(x, y) PROVE Says(x, y, linked, c)
BY DEF Silent, Says

LEMMA UpdateCompleteSays ==
  ASSUME NEW x \in Threads, NEW linked \in BOOLEAN, NEW c \in Nat, x.rig.num <= c
  PROVE  Says(x, UpdateComplete(x, linked), linked, c)
BY UpdateSays, SaysNothing DEF UpdateComplete, Silent

\* Something posted after nothing, or before nothing.
LEMMA SilentSays ==
  ASSUME NEW x, NEW y, NEW z, NEW linked, NEW c,
         \/ Silent(x, y) /\ Says(y, z, linked, c)
         \/ Says(x, y, linked, c) /\ Silent(y, z)
  PROVE  Says(x, z, linked, c)
BY DEF Silent, Says

\* Before the newest command is carried out nothing fresh is posted, however much.
LEMMA StaleSays ==
  ASSUME NEW x \in Threads, NEW y, NEW z, NEW linked, NEW c \in Nat, x.rig.num < c,
         Says(x, y, linked, c), Says(y, z, linked, c)
  PROVE  Says(x, z, linked, c)
<1>1. x.rig.num # c BY DEF Threads, Rigs
<1> QED BY <1>1 DEF Says

\* Expecting, keying, tuning and reading the radio post nothing.
LEMMA ExpectNum ==
  ASSUME NEW r \in Rigs, NEW s \in TransceiverState PROVE Expect(r, s).num = r.num
BY DEF Expect, Rigs

LEMMA RadioSilent ==
  ASSUME NEW x \in Threads, NEW v
  PROVE  Silent(x, RadioPtt(x, v)) /\ Silent(x, RadioFrequency(x, v))
BY DEF Silent, RadioPtt, RadioFrequency, Threads

LEMMA DoPttSilent ==
  ASSUME NEW x \in Threads, NEW on \in BOOLEAN PROVE Silent(x, DoPtt(x, on))
<1> DEFINE y == RadioPtt(x, on)
           a == [y.rig EXCEPT !.actual.ptt = on]
           n == [y.rig.next EXCEPT !.ptt = on]
<1>1. y \in Threads /\ Silent(x, y) BY RadioPttType, RadioSilent
<1>2. DoPtt(x, on) = [y EXCEPT !.rig = Expect(a, n)] BY <1>1 DEF DoPtt, Threads
<1> HIDE DEF y
<1>3. a \in Rigs /\ a.num = y.rig.num /\ n \in TransceiverState
  BY <1>1 DEF Threads, Rigs, TransceiverState
<1>4. Expect(a, n).num = a.num BY <1>3, ExpectNum
<1> HIDE DEF a, n
<1> QED BY <1>1, <1>2, <1>3, <1>4 DEF Silent, Threads

LEMMA DoFrequencySilent ==
  ASSUME NEW x \in Threads, NEW f \in Frequencies PROVE Silent(x, DoFrequency(x, f))
<1> DEFINE y == RadioFrequency(x, f)
           a == [y.rig EXCEPT !.actual.freq = f, !.requested.freq = f]
           n == [y.rig.next EXCEPT !.freq = f]
<1>1. y \in Threads /\ Silent(x, y) BY RadioFrequencyType, RadioSilent
<1>2. DoFrequency(x, f) = [y EXCEPT !.rig = Expect(a, n)]
  BY <1>1 DEF DoFrequency, Threads
<1> HIDE DEF y
<1>3. a \in Rigs /\ a.num = y.rig.num /\ n \in TransceiverState
  BY <1>1 DEF Threads, Rigs, TransceiverState
<1>4. Expect(a, n).num = a.num BY <1>3, ExpectNum
<1> HIDE DEF a, n
<1> QED BY <1>1, <1>2, <1>3, <1>4 DEF Silent, Threads

LEMMA PollSilent ==
  ASSUME NEW x \in Threads PROVE Silent(x, PollFrequency(x)) /\ Silent(x, Poll(x))
<1> DEFINE y == PollFrequency(x)
<1>1. y \in Threads BY PollType
<1>2. Silent(x, y) BY DEF PollFrequency, Silent, Threads, Rigs
<1>3. Poll(x) = [y EXCEPT !.rig.actual.ptt = x.radio.shown.ptt] BY DEF Poll
<1> HIDE DEF y
<1>4. Silent(y, [y EXCEPT !.rig.actual.ptt = x.radio.shown.ptt])
  BY <1>1 DEF Silent, Threads, Rigs
<1> QED BY <1>2, <1>3, <1>4 DEF Silent, y

LEMMA StartupSilent == ASSUME NEW x \in Threads PROVE Silent(x, Startup(x))
<1> DEFINE y == Poll(x)
           a == [y.rig EXCEPT !.actual.online = TRUE, !.requested.online = TRUE]
           n == [y.rig.next EXCEPT !.online = TRUE]
<1>1. y \in Threads /\ Silent(x, y) BY PollType, PollSilent
<1>2. Startup(x) = [y EXCEPT !.rig = Expect(a, n)] BY <1>1 DEF Startup, Threads
<1> HIDE DEF y
<1>3. a \in Rigs /\ a.num = y.rig.num /\ n \in TransceiverState
  BY <1>1 DEF Threads, Rigs, TransceiverState
<1>4. Expect(a, n).num = a.num BY <1>3, ExpectNum
<1> HIDE DEF a, n
<1> QED BY <1>1, <1>2, <1>3, <1>4 DEF Silent, Threads

\* shutdown posts at most one update, offline a failure before it.
LEMMA ShutdownSays ==
  ASSUME NEW x \in Threads, NEW linked \in BOOLEAN, NEW drops \in BOOLEAN,
         NEW c \in Nat, x.rig.num <= c
  PROVE  Says(x, Shutdown(x, linked, drops), linked, c)
<1> DEFINE y == IF x.rig.requested.online /\ drops THEN DoPtt(x, FALSE) ELSE x
           z == [y EXCEPT !.rig.actual.online = FALSE, !.rig.requested.online = FALSE]
<1>1. FALSE \in BOOLEAN OBVIOUS
<1>2. y \in Threads /\ Silent(x, y) BY <1>1, DoPttType, DoPttSilent DEF Silent
<1>3. Shutdown(x, linked, drops) = UpdateComplete(z, linked) BY DEF Shutdown
<1> HIDE DEF y
<1>4. z \in Threads /\ Silent(y, z) BY <1>2 DEF Threads, Rigs, TransceiverState, Silent
<1> HIDE DEF z
<1>5. z.rig.num <= c BY <1>2, <1>4 DEF Silent
<1>6. Says(z, UpdateComplete(z, linked), linked, c) BY <1>4, <1>5, UpdateCompleteSays
<1> QED BY <1>2, <1>3, <1>4, <1>6, SilentSays

LEMMA OfflineSays ==
  ASSUME NEW x \in Threads, NEW linked \in BOOLEAN, NEW drops \in BOOLEAN,
         NEW c \in Nat, x.rig.num <= c
  PROVE  Says(x, Offline(x, linked, drops), linked, c)
<1> DEFINE e == [op |-> "failure", s |-> Unknown, num |-> 0]
           y == Emit(x, linked, e)
           z == Shutdown(y, linked, drops)
<1>1. e \in Events /\ e.num <= c /\ ~IsFresh(e, c) BY UnknownType DEF Events, IsFresh
<1>2. y \in Threads /\ y.rig = x.rig BY <1>1, EmitKeeps
<1> HIDE DEF e
<1>3. /\ linked \/ y.events = x.events
      /\ Bounded(x.events, c) => Bounded(y.events, c)
      /\ Fresh(y.events, c) = Fresh(x.events, c)
  BY <1>1, EmitSays
<1>4. Offline(x, linked, drops) = z BY DEF Offline, y, e
<1> HIDE DEF y
<1>5. Says(y, z, linked, c) BY <1>2, ShutdownSays
<1> HIDE DEF z
<1> QED BY <1>2, <1>3, <1>4, <1>5 DEF Says

\* A poll posts at most one update.
LEMMA SyncSays ==
  ASSUME NEW x \in Threads, NEW linked \in BOOLEAN, NEW c \in Nat, x.rig.num <= c
  PROVE  Says(x, Sync(x, linked), linked, c)
<1> DEFINE p == Poll(x)
           z == [p EXCEPT !.rig.retries = 0, !.rig.next = p.rig.actual,
                          !.rig.signalled = p.rig.actual]
           w == [p EXCEPT !.rig.retries = IF @ > 0 THEN @ - 1 ELSE 0]
<1>1. p \in Threads /\ Silent(x, p) BY PollType, PollSilent
<1>2. Sync(x, linked) \in {Update(z, linked), w} BY DEF Sync
<1> HIDE DEF p
<1>3. 0 \in 0..Polls BY RadioAssumption
<1>4. z \in Threads /\ Silent(p, z) BY <1>1, <1>3 DEF Threads, Rigs, Silent
<1>5. Silent(p, w) BY <1>1 DEF Threads, Rigs, Silent
<1> HIDE DEF z, w
<1>6. Silent(x, z) /\ Silent(x, w) /\ z.rig.num <= c BY <1>1, <1>4, <1>5 DEF Silent
<1>7. Says(z, Update(z, linked), linked, c) BY <1>4, <1>6, UpdateSays
<1> QED BY <1>2, <1>6, <1>7, SilentSays, SaysNothing

\* Of the calls set makes only shutdown posts anything.
LEMMA StepsSays ==
  ASSUME NEW x \in Threads, NEW s \in TransceiverState, NEW linked \in BOOLEAN,
         NEW c \in Nat, x.rig.num <= c
  PROVE  /\ Says(x, Steps(x, s, linked).done, linked, c)
         /\ \A y \in Steps(x, s, linked).thrown : Says(x, y, linked, c)
<1> DEFINE h   == Shutdown(x, linked, TRUE)
           a   == IF x.rig.requested.online THEN x ELSE Startup(h)
           off == ~s.ptt /\ a.rig.requested.ptt
           on  == s.ptt /\ ~a.rig.requested.ptt
           b   == IF off THEN DoPtt(a, FALSE) ELSE a
           qsy == s.freq # 0 /\ (s.freq # b.rig.requested.freq \/ off)
           d   == IF qsy THEN DoFrequency(b, s.freq) ELSE b
           thrown == (IF x.rig.requested.online THEN {} ELSE {h})
                       \cup (IF off THEN {a, RadioPtt(a, FALSE)} ELSE {})
                       \cup (IF qsy THEN {b, RadioFrequency(b, s.freq)} ELSE {})
                       \cup (IF on THEN {d, RadioPtt(d, TRUE)} ELSE {})
           done == IF on THEN DoPtt(d, TRUE) ELSE d
<1>0. TRUE \in BOOLEAN /\ FALSE \in BOOLEAN OBVIOUS
<1>1. Steps(x, s, linked) = [done |-> done, thrown |-> thrown] BY DEF Steps
<1>2. h \in Threads /\ Says(x, h, linked, c) BY <1>0, ShutdownType, ShutdownSays
<1> HIDE DEF h
<1>3. a \in Threads /\ Says(x, a, linked, c)
  <2>1. CASE x.rig.requested.online BY <2>1, SaysNothing DEF Silent
  <2>2. CASE ~x.rig.requested.online
    BY <1>2, <2>2, StartupType, StartupSilent, SilentSays
  <2> QED BY <2>1, <2>2
<1> HIDE DEF a
<1>4. b \in Threads /\ Silent(a, b) BY <1>0, <1>3, DoPttType, DoPttSilent DEF Silent
<1>5. Silent(a, RadioPtt(a, FALSE)) BY <1>3, RadioSilent
<1> HIDE DEF b, off
<1>6. qsy => s.freq \in Frequencies BY DEF TransceiverState
<1>7. d \in Threads /\ Silent(b, d)
  BY <1>4, <1>6, DoFrequencyType, DoFrequencySilent DEF Silent
<1>8. Silent(b, RadioFrequency(b, s.freq)) BY <1>4, RadioSilent
<1> HIDE DEF d, qsy
<1>9. Silent(d, RadioPtt(d, TRUE)) BY <1>7, RadioSilent
<1>10. Silent(d, done) BY <1>0, <1>7, DoPttSilent DEF Silent
<1> HIDE DEF on, done
<1>11. Says(x, b, linked, c) /\ Says(x, RadioPtt(a, FALSE), linked, c)
  BY <1>3, <1>4, <1>5, SilentSays
<1>12. Says(x, d, linked, c) /\ Says(x, RadioFrequency(b, s.freq), linked, c)
  BY <1>7, <1>8, <1>11, SilentSays
<1>13. Says(x, done, linked, c) /\ Says(x, RadioPtt(d, TRUE), linked, c)
  BY <1>9, <1>10, <1>12, SilentSays
<1>14. \A y \in thrown : Says(x, y, linked, c) BY <1>2, <1>3, <1>11, <1>12, <1>13
<1> HIDE DEF thrown
<1> QED BY <1>1, <1>13, <1>14

\* What a step of the rig's thread reports, in the end: nothing or one state, and
\* nothing to anyone but the newest command's client.
ReportsOnce(x, y, c) ==
  /\ Bounded(x.events, c) => Bounded(y.events, c)
  /\ \/ Fresh(y.events, c) = Fresh(x.events, c)
     \/ \E s \in TransceiverState : Fresh(y.events, c) = Append(Fresh(x.events, c), s)

LEMMA SaysReported ==
  ASSUME NEW x, NEW y, NEW linked, NEW c, Says(x, y, linked, c)
  PROVE  ReportsOnce(x, y, c) /\ y.rig.num = x.rig.num
BY DEF Says, ReportsOnce

\* Before the newest command is carried out, then the update that says it is.
LEMMA ReportedAfter ==
  ASSUME NEW x, NEW y, NEW z, NEW linked, NEW c \in Nat, x.rig.num # c,
         Says(x, y, linked, c), ReportsOnce(y, z, c)
  PROVE  ReportsOnce(x, z, c)
BY DEF Says, ReportsOnce

\* set: what is done on the way is numbered as before, the last update as the call.
LEMMA SetReported ==
  ASSUME NEW x \in Threads, NEW s \in TransceiverState, NEW num \in Nat,
         NEW linked \in BOOLEAN, NEW c \in Nat, x.rig.num < num, num <= c
  PROVE  ReportsOnce(x, Set(x, s, num, linked), c) /\ Set(x, s, num, linked).rig.num = num
<1> DEFINE y == Steps(x, s, linked).done
           z == [y EXCEPT !.rig.requested.ptt = y.rig.actual.ptt, !.rig.num = num]
           u == Update(z, linked)
<1>1. x.rig.num \in Nat BY DEF Threads, Rigs
<1>2. x.rig.num <= c /\ x.rig.num # c BY <1>1
<1>3. y \in Threads /\ Says(x, y, linked, c) BY <1>2, StepsType, StepsSays
<1>4. Set(x, s, num, linked) = u BY DEF Set
<1> HIDE DEF y
<1>5. z \in Threads /\ z.events = y.events /\ z.rig.num = num
  BY <1>3 DEF Threads, Rigs, TransceiverState
<1> HIDE DEF z
<1>6. ReportsOnce(z, u, c) /\ u.rig.num = num BY <1>5, UpdateSays, SaysReported
<1> HIDE DEF u
<1>7. ReportsOnce(y, u, c) BY <1>5, <1>6 DEF ReportsOnce
<1> QED BY <1>2, <1>3, <1>4, <1>6, <1>7, ReportedAfter

\* A new instance has carried out nothing.
LEMMA InstanceStale ==
  ASSUME NEW x \in Threads
  PROVE  /\ [x EXCEPT !.rig = Instance] \in Threads
         /\ [x EXCEPT !.rig = Instance].events = x.events
         /\ [x EXCEPT !.rig = Instance].rig.num = 0
<1>1. Instance.num = 0 BY DEF Instance
<1> QED BY <1>1, InstanceType DEF Threads

\* start likewise.
LEMMA StartReported ==
  ASSUME NEW x \in Threads, NEW num \in Nat, NEW linked \in BOOLEAN, NEW c \in Nat,
         0 < num, num <= c
  PROVE  ReportsOnce(x, Start(x, num, linked), c) /\ Start(x, num, linked).rig.num = num
<1> DEFINE i == [x EXCEPT !.rig = Instance]
           h == Shutdown(i, linked, TRUE)
           y == Startup(h)
           z == [y EXCEPT !.rig.num = num]
           u == Update(z, linked)
<1>1. i \in Threads /\ i.events = x.events /\ i.rig.num = 0 /\ i.rig.num <= c
  BY InstanceStale
<1>2. TRUE \in BOOLEAN OBVIOUS
<1>3. Start(x, num, linked) = u BY DEF Start
<1> HIDE DEF i
<1>4. h \in Threads /\ Says(i, h, linked, c) BY <1>1, <1>2, ShutdownType, ShutdownSays
<1> HIDE DEF h
<1>5. y \in Threads /\ Silent(h, y) BY <1>4, StartupType, StartupSilent
<1>6. Says(i, y, linked, c) BY <1>4, <1>5, SilentSays
<1> HIDE DEF y
<1>7. z \in Threads /\ z.events = y.events /\ z.rig.num = num
  BY <1>5 DEF Threads, Rigs
<1> HIDE DEF z
<1>8. ReportsOnce(z, u, c) /\ u.rig.num = num BY <1>7, UpdateSays, SaysReported
<1> HIDE DEF u
<1>9. ReportsOnce(y, u, c) BY <1>7, <1>8 DEF ReportsOnce
<1>10. i.rig.num # c BY <1>1
<1>11. ReportsOnce(i, u, c) BY <1>6, <1>9, <1>10, ReportedAfter
<1> QED BY <1>1, <1>3, <1>8, <1>11 DEF ReportsOnce

\* A call that throws reports the failure, and nothing the newest command's client sees.
LEMMA ThrownReported ==
  ASSUME NEW x \in Threads, NEW y \in Threads, NEW linked \in BOOLEAN,
         NEW drops \in BOOLEAN, NEW c \in Nat, x.rig.num < c, Says(x, y, linked, c)
  PROVE  /\ ReportsOnce(x, Offline(Update(y, linked), linked, drops), c)
         /\ Offline(Update(y, linked), linked, drops).rig.num = x.rig.num
<1> DEFINE u == Update(y, linked)
           z == Offline(u, linked, drops)
<1>1. x.rig.num \in Nat /\ y.rig.num = x.rig.num BY DEF Threads, Rigs, Says
<1>2. y.rig.num <= c BY <1>1
<1>3. u \in Threads /\ Says(y, u, linked, c) BY <1>2, UpdateKeeps, UpdateSays
<1>4. Says(x, u, linked, c) BY <1>3, StaleSays
<1> HIDE DEF u
<1>5. u.rig.num <= c BY <1>1, <1>3 DEF Says
<1>6. Says(u, z, linked, c) BY <1>3, <1>5, OfflineSays
<1> HIDE DEF z
<1>7. Says(x, z, linked, c) BY <1>4, <1>6, StaleSays
<1> QED BY <1>7, SaysReported DEF u, z
-----------------------------------------------------------------------------
(* The numbers of the commands.                                             *)

\* The commands still to be carried out are newer than n, the one carried out
\* last, and in the order in which they were given.
Ahead(c, n) ==
  /\ n <= c.num
  /\ \A i \in 1..Len(c.calls) :
       c.calls[i].op # "stop" => n < c.calls[i].num /\ c.calls[i].num <= c.num
  /\ \A i, j \in 1..Len(c.calls) :
       i < j /\ c.calls[i].op # "stop" /\ c.calls[j].op # "stop"
         => c.calls[i].num < c.calls[j].num

\* No number is ahead of the newest command's.
NumberInv == Ahead(conf, rig.num) /\ Bounded(events, conf.num)

LEMMA AheadSame ==
  ASSUME NEW c, NEW d, NEW n, d.calls = c.calls, d.num = c.num, Ahead(c, n)
  PROVE  Ahead(d, n)
BY DEF Ahead

\* A new command gets the next number, whether it is posted or not.
LEMMA PostAhead ==
  ASSUME NEW c \in Confs, NEW op \in {"start", "set"}, NEW n \in Nat, Ahead(c, n)
  PROVE  Ahead(Post(c, op), n) /\ Post(c, op).num > c.num
<1> DEFINE e == [op |-> op, s |-> c.cached, num |-> c.num + 1]
           p == Post(c, op)
<1>1. e.num = c.num + 1 /\ e \in Calls BY DEF Confs, Calls
<1>2. c.calls \in Seq(Calls) /\ c.num \in Nat BY DEF Confs
<1>3. p.num = c.num + 1 /\ p.calls = IF c.active THEN Append(c.calls, e) ELSE c.calls
  BY DEF Post, Confs
<1> HIDE DEF p, e
<1>4. \A i \in 1..Len(c.calls) : c.calls[i].num \in Nat
  <2>1. \A i \in 1..Len(c.calls) : c.calls[i] \in Calls BY <1>2
  <2> QED BY <2>1 DEF Calls
<1>5. CASE ~c.active BY <1>2, <1>3, <1>4, <1>5 DEF Ahead, p
<1>6. CASE c.active
  <2> DEFINE k == Len(c.calls)
  <2>1. /\ k \in Nat /\ Len(p.calls) = k + 1 /\ p.calls[k + 1] = e
        /\ \A i \in 1..k : p.calls[i] = c.calls[i]
    BY <1>1, <1>2, <1>3, <1>6
  <2>2. \A i \in 1..k + 1 : i = k + 1 \/ i \in 1..k BY <2>1
  <2>3. n <= c.num
        /\ \A i \in 1..k : c.calls[i].op # "stop"
                             => n < c.calls[i].num /\ c.calls[i].num <= c.num
    BY DEF Ahead
  <2>4. \A i \in 1..k + 1 : p.calls[i].op # "stop"
                              => n < p.calls[i].num /\ p.calls[i].num <= p.num
    BY <1>1, <1>2, <1>3, <1>4, <2>1, <2>2, <2>3
  <2>5. ASSUME NEW i \in 1..k + 1, NEW j \in 1..k + 1, i < j,
               p.calls[i].op # "stop", p.calls[j].op # "stop"
        PROVE  p.calls[i].num < p.calls[j].num
    <3>1. i \in 1..k BY <2>1, <2>5
    <3>2. CASE j = k + 1
      <4>1. p.calls[i] = c.calls[i] /\ c.calls[i].num \in Nat /\ c.calls[i].num <= c.num
        BY <1>4, <2>1, <2>3, <2>5, <3>1
      <4>2. p.calls[j].num = c.num + 1 BY <1>1, <2>1, <3>2
      <4> QED BY <1>2, <4>1, <4>2
    <3>3. CASE j \in 1..k BY <2>1, <2>5, <3>1, <3>3 DEF Ahead
    <3> QED BY <2>2, <3>2, <3>3
  <2> HIDE DEF k
  <2>6. n <= p.num BY <1>2, <1>3, <2>3
  <2> QED BY <1>2, <1>3, <2>1, <2>4, <2>5, <2>6 DEF Ahead, p
<1> QED BY <1>5, <1>6

\* A stop has no number.
LEMMA CloseRigAhead ==
  ASSUME NEW c \in Confs, NEW n \in Nat, Ahead(c, n)
  PROVE  CloseRig(c) \in Confs /\ Ahead(CloseRig(c), n) /\ CloseRig(c).num = c.num
<1> DEFINE e == [op |-> "stop", s |-> Unknown, num |-> 0]
           d == [c EXCEPT !.active = FALSE, !.calls = Append(@, e)]
<1>1. e \in Calls /\ e.op = "stop" BY UnknownType DEF Calls
<1>2. c.calls \in Seq(Calls) BY DEF Confs
<1> HIDE DEF e
<1>3. CASE ~c.active BY <1>3 DEF CloseRig
<1>4. CASE c.active
  <2> DEFINE k == Len(c.calls)
  <2>1. CloseRig(c) = d BY <1>4 DEF CloseRig, e
  <2>2. d.num = c.num /\ d.calls = Append(c.calls, e) /\ d \in Confs
    <3>1. Append(c.calls, e) \in Seq(Calls) BY <1>1, <1>2
    <3> QED BY <3>1 DEF Confs
  <2> HIDE DEF d
  <2>3. /\ k \in Nat /\ Len(d.calls) = k + 1 /\ d.calls[k + 1] = e
        /\ \A i \in 1..k : d.calls[i] = c.calls[i]
    BY <1>1, <1>2, <2>2
  <2>4. \A i \in 1..k + 1 : d.calls[i].op # "stop" => i \in 1..k BY <1>1, <2>3
  <2> QED BY <2>1, <2>2, <2>3, <2>4 DEF Ahead
<1> QED BY <1>3, <1>4

\* Opening, tuning and keying are commands.
LEMMA CommandsAhead ==
  ASSUME NEW c \in Confs, NEW n \in Nat, Ahead(c, n)
  PROVE  /\ OpenRig(c) \in Confs /\ Ahead(OpenRig(c), n)
         /\ IF c.active THEN OpenRig(c) = c ELSE OpenRig(c).num > c.num
         /\ \A f \in Frequencies \cup {0} : /\ Ahead(TransceiverFrequency(c, f), n)
                                            /\ TransceiverFrequency(c, f).num > c.num
         /\ \A on \in BOOLEAN : /\ Ahead(TransceiverPtt(c, on), n)
                                /\ TransceiverPtt(c, on).num > c.num
<1>1. ASSUME ~c.active
      PROVE  OpenRig(c) \in Confs /\ Ahead(OpenRig(c), n) /\ OpenRig(c).num > c.num
  <2> DEFINE d == [c EXCEPT !.active = TRUE, !.cached = Unknown]
  <2>1. d \in Confs /\ d.calls = c.calls /\ d.num = c.num BY UnknownType DEF Confs
  <2>2. OpenRig(c) = Post(d, "start") BY <1>1 DEF OpenRig
  <2> HIDE DEF d
  <2> QED BY <2>1, <2>2, AheadSame, PostType, PostAhead
<1>2. c.active => OpenRig(c) = c BY DEF OpenRig
<1>3. ASSUME NEW f \in Frequencies \cup {0}
      PROVE  Ahead(TransceiverFrequency(c, f), n) /\ TransceiverFrequency(c, f).num > c.num
  <2> DEFINE d == [c EXCEPT !.cached.online = TRUE, !.cached.freq = f]
  <2>1. d \in Confs /\ d.calls = c.calls /\ d.num = c.num
    BY DEF Confs, TransceiverState
  <2>2. TransceiverFrequency(c, f) = Post(d, "set") BY DEF TransceiverFrequency
  <2> HIDE DEF d
  <2> QED BY <2>1, <2>2, AheadSame, PostAhead
<1>4. ASSUME NEW on \in BOOLEAN
      PROVE  Ahead(TransceiverPtt(c, on), n) /\ TransceiverPtt(c, on).num > c.num
  <2> DEFINE d == [c EXCEPT !.cached.online = TRUE, !.cached.ptt = on]
  <2>1. d \in Confs /\ d.calls = c.calls /\ d.num = c.num
    BY DEF Confs, TransceiverState
  <2>2. TransceiverPtt(c, on) = Post(d, "set") BY DEF TransceiverPtt
  <2> HIDE DEF d
  <2> QED BY <2>1, <2>2, AheadSame, PostAhead
<1> QED BY <1>1, <1>2, <1>3, <1>4

\* Following the rig is none.
LEMMA FollowRigAhead ==
  ASSUME NEW c \in Confs, NEW s \in TransceiverState, NEW n \in Nat, Ahead(c, n)
  PROVE  Ahead(FollowRig(c, s), n) /\ FollowRig(c, s).num = c.num
<1> DEFINE d == [c EXCEPT !.cached.online = s.online, !.cached.freq = s.freq]
<1>1. d \in Confs /\ d.calls = c.calls /\ d.num = c.num BY DEF Confs, TransceiverState
<1>2. FollowRig(c, s) = IF s.online THEN d ELSE CloseRig(d) BY DEF FollowRig
<1> HIDE DEF d
<1>3. Ahead(d, n) BY <1>1, AheadSame
<1> QED BY <1>1, <1>2, <1>3, CloseRigAhead

\* Nothing posted is fresh any longer once there is another command.
LEMMA BoundedStale ==
  ASSUME NEW es \in Seq(Events), NEW n \in Nat, NEW m \in Nat, n < m, Bounded(es, n)
  PROVE  Bounded(es, m) /\ Fresh(es, m) = <<>>
<1>1. \A i \in 1..Len(es) : es[i].num \in Nat
  <2>1. \A i \in 1..Len(es) : es[i] \in Events OBVIOUS
  <2> QED BY <2>1 DEF Events
<1>2. \A i \in 1..Len(es) : es[i].num <= m /\ es[i].num # m BY <1>1 DEF Bounded
<1> QED BY <1>2, FreshNone DEF Bounded, IsFresh

LEMMA BoundedTail ==
  ASSUME NEW es \in Seq(Events), es # <<>>, NEW n, Bounded(es, n) PROVE Bounded(Tail(es), n)
<1>1. \A i \in 1..Len(Tail(es)) : i + 1 \in 1..Len(es) /\ Tail(es)[i] = es[i + 1] OBVIOUS
<1> QED BY <1>1 DEF Bounded

\* A call taken from the queue is the next in order.
LEMMA TakenAhead ==
  ASSUME RigInv, NumberInv, NEW op, Taken(op)
  PROVE  /\ conf'.num = conf.num /\ conf.num \in Nat
         /\ Head(conf.calls).num \in Nat /\ Head(conf.calls).s \in TransceiverState
         /\ Ahead(conf', rig.num) /\ Ahead(conf', 0)
         /\ op # "stop" => /\ Ahead(conf', Head(conf.calls).num)
                           /\ rig.num < Head(conf.calls).num
                           /\ Head(conf.calls).num <= conf.num
<1> DEFINE k == Len(conf.calls)
           h == Head(conf.calls)
<1>1. conf \in Confs /\ Here \in Threads BY RigInvMeaning
<1>2. rig.num \in Nat /\ conf.num \in Nat BY <1>1 DEF Here, Threads, Rigs, Confs
<1>3. conf.calls \in Seq(Calls) /\ conf.calls # <<>> BY <1>1 DEF Taken, Confs
<1>4. /\ k \in Nat \ {0} /\ h = conf.calls[1] /\ h \in Calls
      /\ Len(Tail(conf.calls)) = k - 1 /\ \A i \in 1..k - 1 : i \in Nat
      /\ \A i \in 1..k - 1 : i + 1 \in 1..k /\ Tail(conf.calls)[i] = conf.calls[i + 1]
  BY <1>3
<1>5. conf'.calls = Tail(conf.calls) /\ conf'.num = conf.num BY <1>1 DEF Taken, Confs
<1>6. h.op = op BY DEF Taken
<1>7. \A i \in 1..k : conf.calls[i].num \in Nat
  <2>1. \A i \in 1..k : conf.calls[i] \in Calls BY <1>3
  <2> QED BY <2>1 DEF Calls
<1>8. h.num \in Nat /\ h.s \in TransceiverState BY <1>4 DEF Calls
<1>9. Ahead(conf, rig.num) BY DEF NumberInv
<1> HIDE DEF h
<1>10. ASSUME NEW m \in Nat, m <= conf.num,
              \A i \in 1..k - 1 : conf.calls[i + 1].op # "stop" => m < conf.calls[i + 1].num
       PROVE  Ahead(conf', m)
  <2>1. ASSUME NEW i \in 1..k - 1, NEW j \in 1..k - 1, i < j,
               conf.calls[i + 1].op # "stop", conf.calls[j + 1].op # "stop"
        PROVE  conf.calls[i + 1].num < conf.calls[j + 1].num
    <3>1. i + 1 \in 1..k /\ j + 1 \in 1..k /\ i + 1 < j + 1 BY <1>4, <2>1
    <3> QED BY <1>9, <2>1, <3>1 DEF Ahead
  <2>2. \A i \in 1..k - 1 : conf.calls[i + 1].op # "stop" => conf.calls[i + 1].num <= conf.num
    BY <1>4, <1>9 DEF Ahead
  <2>3. Len(conf'.calls) = k - 1 /\ \A i \in 1..k - 1 : conf'.calls[i] = conf.calls[i + 1]
    BY <1>4, <1>5
  <2> HIDE DEF k
  <2>4. ASSUME NEW d, d.num = conf.num, Len(d.calls) = k - 1,
               \A i \in 1..k - 1 : d.calls[i] = conf.calls[i + 1]
        PROVE  Ahead(d, m)
    <3>1. m <= d.num BY <1>10, <2>4
    <3>2. ASSUME NEW i \in 1..k - 1, d.calls[i].op # "stop"
          PROVE  m < d.calls[i].num /\ d.calls[i].num <= d.num
      BY <1>10, <2>2, <2>4, <3>2
    <3>3. ASSUME NEW i \in 1..k - 1, NEW j \in 1..k - 1, i < j,
                 d.calls[i].op # "stop", d.calls[j].op # "stop"
          PROVE  d.calls[i].num < d.calls[j].num
      BY <2>1, <2>4, <3>3
    <3> QED BY <2>4, <3>1, <3>2, <3>3 DEF Ahead
  <2> QED BY <1>5, <2>3, <2>4
<1>11. /\ rig.num <= conf.num
       /\ \A i \in 1..k - 1 : conf.calls[i + 1].op # "stop" => rig.num < conf.calls[i + 1].num
  BY <1>4, <1>9 DEF Ahead
<1>12. Ahead(conf', rig.num) BY <1>2, <1>10, <1>11
<1>13. Ahead(conf', 0)
  <2>1. \A i \in 1..k - 1 : conf.calls[i + 1].op # "stop" => 0 < conf.calls[i + 1].num
    <3> SUFFICES ASSUME NEW i \in 1..k - 1, conf.calls[i + 1].op # "stop"
                 PROVE  0 < conf.calls[i + 1].num
      OBVIOUS
    <3>1. i + 1 \in 1..k BY <1>4
    <3>2. conf.calls[i + 1].num \in Nat /\ rig.num < conf.calls[i + 1].num
      BY <1>7, <1>11, <3>1
    <3> QED BY <1>2, <3>2
  <2> DEFINE z == 0
  <2>2. /\ z \in Nat /\ z <= conf.num
        /\ \A i \in 1..k - 1 : conf.calls[i + 1].op # "stop" => z < conf.calls[i + 1].num
    BY <1>2, <2>1
  <2> HIDE DEF z
  <2>3. Ahead(conf', z) BY <1>10, <2>2
  <2> QED BY <2>3 DEF z
<1>14. ASSUME op # "stop"
       PROVE  Ahead(conf', h.num) /\ rig.num < h.num /\ h.num <= conf.num
  <2>1. 1 \in 1..k BY <1>4
  <2>2. rig.num < h.num /\ h.num <= conf.num
    BY <1>4, <1>6, <1>9, <1>14, <2>1 DEF Ahead
  <2>3. ASSUME NEW i \in 1..k - 1, conf.calls[i + 1].op # "stop"
        PROVE  h.num < conf.calls[i + 1].num
    <3>1. i + 1 \in 1..k /\ 1 < i + 1 BY <1>4
    <3> QED BY <1>4, <1>6, <1>9, <1>14, <2>1, <2>3, <3>1 DEF Ahead
  <2> QED BY <1>8, <1>10, <2>2, <2>3
<1> QED BY <1>2, <1>5, <1>8, <1>12, <1>13, <1>14 DEF h
-----------------------------------------------------------------------------
(* Each step is one of RigReports.                                          *)

ReportStep == [Reports!Next]_<<Fresh(events, conf.num), view>>

LEMMA NumberInvNext ==
  ASSUME Ahead(conf', rig'.num), Bounded(events', conf'.num) PROVE NumberInv'
<1>1. Ahead(conf, rig.num)' BY DEF Ahead
<1>2. Bounded(events, conf.num)' BY DEF Bounded
<1> QED BY <1>1, <1>2 DEF NumberInv

LEMMA FreshPrime == Fresh(events, conf.num)' = Fresh(events', conf'.num)
BY DEF Fresh

\* A step of the rig's thread is a report, or the clients do not get to know of it.
LEMMA ThreadReports ==
  ASSUME NumberInv, NEW y, Becomes(y), ReportsOnce(Here, y, conf.num),
         conf'.num = conf.num, view' = view, Ahead(conf', y.rig.num)
  PROVE  NumberInv' /\ ReportStep
<1>1. rig' = y.rig /\ events' = y.events /\ Here.events = events BY DEF Becomes, Here
<1>2. Bounded(events', conf'.num) BY <1>1 DEF ReportsOnce, NumberInv
<1>3. \/ Fresh(events, conf.num)' = Fresh(events, conf.num)
      \/ \E s \in TransceiverState :
           Fresh(events, conf.num)' = Append(Fresh(events, conf.num), s)
  BY <1>1, FreshPrime DEF ReportsOnce
<1> QED BY <1>1, <1>2, <1>3, NumberInvNext DEF ReportStep, Reports!Next, Reports!Report

\* A slot of the GUI, or the radio: nothing for the newest command's client.
LEMMA UnseenReports ==
  ASSUME Ahead(conf', rig'.num), Bounded(events', conf'.num), view' = view,
         Fresh(events', conf'.num) = Fresh(events, conf.num)
  PROVE  NumberInv' /\ ReportStep
BY NumberInvNext, FreshPrime DEF ReportStep

\* What the invariants say of the rig's thread.
LEMMA HereNumbers ==
  ASSUME RigInv, NumberInv
  PROVE  /\ conf \in Confs /\ conf.num \in Nat /\ Here \in Threads
         /\ Here.rig.num = rig.num /\ rig.num \in Nat /\ rig.num <= conf.num
         /\ Ahead(conf, rig.num) /\ Bounded(events, conf.num)
         /\ events \in Seq(Events) /\ Connected(conf) \in BOOLEAN
<1>1. conf \in Confs /\ Here \in Threads /\ Here.rig = rig /\ events \in Seq(Events)
  BY RigInvMeaning DEF Here
<1>2. rig.num \in Nat /\ conf.num \in Nat BY <1>1 DEF Threads, Rigs, Confs
<1> QED BY <1>1, <1>2, ConnectedType DEF NumberInv, Ahead

\* A slot of the GUI that may give commands: with another command nothing posted is
\* fresh any longer.
LEMMA CommandReports ==
  ASSUME RigInv, NumberInv, UNCHANGED <<rig, events, view>>, conf' \in Confs,
         Ahead(conf', rig.num), conf' = conf \/ conf'.num > conf.num
  PROVE  NumberInv' /\ ReportStep
<1>1. /\ events \in Seq(Events) /\ conf.num \in Nat /\ Bounded(events, conf.num)
      /\ conf'.num \in Nat
  BY HereNumbers DEF Confs
<1>2. CASE conf' = conf BY <1>1, <1>2, UnseenReports
<1>3. CASE conf'.num > conf.num
  <2>1. Bounded(events, conf'.num) /\ Fresh(events, conf'.num) = <<>>
    BY <1>1, <1>3, BoundedStale
  <2>2. Fresh(events, conf.num)' = <<>> BY <2>1, FreshPrime
  <2> QED BY <2>1, <2>2, NumberInvNext DEF ReportStep, Reports!Next, Reports!Command
<1> QED BY <1>2, <1>3

LEMMA StartReports ==
  ASSUME RigInv, NumberInv, StartRig \/ \E drops \in Drops : StartFails(drops)
  PROVE  NumberInv' /\ ReportStep
<1> DEFINE call == Head(conf.calls)
           linked == Connected(conf')
<1>1. Taken("start") BY DEF StartRig, StartFails
<1>2. /\ conf'.num = conf.num /\ call.num \in Nat /\ Ahead(conf', 0)
      /\ Ahead(conf', call.num) /\ rig.num < call.num /\ call.num <= conf.num
  BY <1>1, TakenAhead
<1>3. linked \in BOOLEAN BY <1>1, TakenType, ConnectedType
<1>4. Here \in Threads /\ conf.num \in Nat /\ rig.num \in Nat BY HereNumbers
<1>5. 0 < call.num /\ 0 < conf.num BY <1>2, <1>4
<1>6. CASE StartRig
  <2> DEFINE y == Start(Here, call.num, linked)
  <2>1. ReportsOnce(Here, y, conf.num) /\ y.rig.num = call.num
    BY <1>2, <1>3, <1>4, <1>5, StartReported
  <2>2. Becomes(y) /\ view' = view BY <1>6 DEF StartRig
  <2> HIDE DEF y
  <2> QED BY <1>2, <2>1, <2>2, ThreadReports
<1>7. ASSUME NEW drops \in Drops, StartFails(drops) PROVE NumberInv' /\ ReportStep
  <2> DEFINE i == [Here EXCEPT !.rig = Instance]
             y == Offline(Update(i, linked), linked, drops)
  <2>1. i \in Threads /\ i.events = Here.events /\ i.rig.num = 0
    BY <1>4, InstanceStale
  <2>2. Becomes(y) /\ view' = view BY <1>7 DEF StartFails
  <2> HIDE DEF i
  <2>3. drops \in BOOLEAN BY RadioAssumption DEF Drops
  <2>4. Says(i, i, linked, conf.num) /\ i.rig.num < conf.num
    BY <1>5, <2>1, SaysNothing DEF Silent
  <2>5. ReportsOnce(i, y, conf.num) /\ y.rig.num = 0
    BY <1>3, <1>4, <2>1, <2>3, <2>4, ThrownReported
  <2> HIDE DEF y
  <2>6. ReportsOnce(Here, y, conf.num) BY <2>1, <2>5 DEF ReportsOnce
  <2> QED BY <1>2, <2>2, <2>5, <2>6, ThreadReports
<1> QED BY <1>6, <1>7

LEMMA SetReports ==
  ASSUME RigInv, NumberInv, SetRig \/ \E drops \in Drops : SetFails(drops)
  PROVE  NumberInv' /\ ReportStep
<1> DEFINE call == Head(conf.calls)
           linked == Connected(conf')
<1>1. Taken("set") BY DEF SetRig, SetFails
<1>2. /\ conf'.num = conf.num /\ call.num \in Nat /\ Ahead(conf', rig.num)
      /\ Ahead(conf', call.num) /\ rig.num < call.num /\ call.num <= conf.num
      /\ call.s \in TransceiverState
  BY <1>1, TakenAhead
<1>3. linked \in BOOLEAN BY <1>1, TakenType, ConnectedType
<1>4. Here \in Threads /\ conf.num \in Nat /\ rig.num \in Nat /\ Here.rig.num = rig.num
  BY HereNumbers
<1>5. CASE SetRig
  <2> DEFINE y == Set(Here, call.s, call.num, linked)
  <2>1. ReportsOnce(Here, y, conf.num) /\ y.rig.num = call.num
    BY <1>2, <1>3, <1>4, SetReported
  <2>2. Becomes(y) /\ view' = view BY <1>5 DEF SetRig
  <2> HIDE DEF y
  <2> QED BY <1>2, <2>1, <2>2, ThreadReports
<1>6. ASSUME NEW drops \in Drops, SetFails(drops) PROVE NumberInv' /\ ReportStep
  <2>1. view' = view BY <1>6 DEF SetFails
  <2>2. PICK x \in Steps(Here, call.s, linked).thrown :
          Becomes(Offline(Update(x, linked), linked, drops))
    BY <1>6 DEF SetFails
  <2> DEFINE y == Offline(Update(x, linked), linked, drops)
  <2>3. drops \in BOOLEAN BY RadioAssumption DEF Drops
  <2>4. Here.rig.num < conf.num /\ Here.rig.num <= conf.num BY <1>2, <1>4
  <2>5. x \in Threads /\ Says(Here, x, linked, conf.num)
    BY <1>2, <1>3, <1>4, <2>4, StepsType, StepsSays
  <2>6. ReportsOnce(Here, y, conf.num) /\ y.rig.num = rig.num
    BY <1>3, <1>4, <2>3, <2>4, <2>5, ThrownReported
  <2>7. Becomes(y) BY <2>2
  <2> HIDE DEF y
  <2> QED BY <1>2, <2>1, <2>6, <2>7, ThreadReports
<1> QED BY <1>5, <1>6

\* An instance that is told to stop is not heard any longer.
LEMMA StopReports ==
  ASSUME RigInv, NumberInv, NEW drops \in Drops, StopRig(drops)
  PROVE  NumberInv' /\ ReportStep
<1> DEFINE y == Shutdown(Here, FALSE, drops)
<1>1. Taken("stop") /\ Becomes(y) /\ view' = view BY DEF StopRig
<1>2. conf'.num = conf.num /\ Ahead(conf', rig.num) BY <1>1, TakenAhead
<1>3. drops \in BOOLEAN /\ FALSE \in BOOLEAN BY RadioAssumption DEF Drops
<1>4. /\ Here \in Threads /\ conf.num \in Nat /\ rig.num <= conf.num
      /\ Here.rig.num = rig.num
  BY HereNumbers
<1>5. Says(Here, y, FALSE, conf.num) BY <1>3, <1>4, ShutdownSays
<1> HIDE DEF y
<1>6. ReportsOnce(Here, y, conf.num) /\ y.rig.num = rig.num BY <1>4, <1>5, SaysReported
<1> QED BY <1>1, <1>2, <1>6, ThreadReports

LEMMA PollReports ==
  ASSUME RigInv, NumberInv, PollTimer \/ \E drops \in Drops : PollFails(drops)
  PROVE  NumberInv' /\ ReportStep
<1> DEFINE linked == Connected(conf)
<1>1. /\ Here \in Threads /\ conf.num \in Nat /\ Here.rig.num = rig.num
      /\ Here.rig.num <= conf.num /\ Ahead(conf, rig.num) /\ linked \in BOOLEAN
  BY HereNumbers
<1>2. conf' = conf /\ view' = view BY DEF PollTimer, PollFails
<1>3. ASSUME NEW y, Becomes(y), Says(Here, y, linked, conf.num)
      PROVE  NumberInv' /\ ReportStep
  <2>1. ReportsOnce(Here, y, conf.num) /\ y.rig.num = rig.num
    BY <1>1, <1>3, SaysReported
  <2> QED BY <1>1, <1>2, <1>3, <2>1, ThreadReports
<1>4. CASE PollTimer
  <2>1. Becomes(Sync(Here, linked)) BY <1>4 DEF PollTimer
  <2> QED BY <1>1, <1>3, <2>1, SyncSays
<1>5. ASSUME NEW drops \in Drops, PollFails(drops) PROVE NumberInv' /\ ReportStep
  <2>1. drops \in BOOLEAN BY RadioAssumption DEF Drops
  <2>2. PICK x \in {Here, PollFrequency(Here)} : Becomes(Offline(x, linked, drops))
    BY <1>5 DEF PollFails
  <2>3. x \in Threads /\ Silent(Here, x) BY <1>1, <2>2, PollType, PollSilent DEF Silent
  <2>4. x.rig.num <= conf.num BY <1>1, <2>3 DEF Silent
  <2>5. Says(x, Offline(x, linked, drops), linked, conf.num)
    BY <1>1, <2>1, <2>3, <2>4, OfflineSays
  <2>6. Says(Here, Offline(x, linked, drops), linked, conf.num)
    BY <2>3, <2>5, SilentSays
  <2> QED BY <1>3, <2>2, <2>6
<1> QED BY <1>4, <1>5

\* The client sees the first fresh report, and no other.
LEMMA GuiReports == ASSUME RigInv, NumberInv, Gui PROVE NumberInv' /\ ReportStep
<1>1. /\ conf \in Confs /\ conf.num \in Nat /\ rig.num \in Nat /\ Ahead(conf, rig.num)
      /\ events \in Seq(Events) /\ Bounded(events, conf.num)
  BY HereNumbers
<1>2. events # <<>> /\ events' = Tail(events) /\ rig' = rig
  BY DEF Gui, HandleUpdate, HandleFailure
<1> DEFINE e == Head(events)
<1>3. e \in Events BY <1>1, <1>2
<1>4. e.s \in TransceiverState BY <1>3 DEF Events
<1>5. Bounded(events', conf.num) BY <1>1, <1>2, BoundedTail
<1>6. CASE HandleUpdate
  <2>1. conf' = FollowRig(conf, e.s) BY <1>6 DEF HandleUpdate
  <2>2. Ahead(conf', rig'.num) /\ conf'.num = conf.num
    BY <1>1, <1>2, <1>4, <2>1, FollowRigAhead
  <2>3. CASE IsFresh(e, conf.num)
    <3>1. view' = e.s BY <1>6, <2>3 DEF HandleUpdate, IsFresh
    <3>2. /\ Fresh(events, conf.num) # <<>> /\ Head(Fresh(events, conf.num)) = e.s
          /\ Tail(Fresh(events, conf.num)) = Fresh(Tail(events), conf.num)
      BY <1>1, <1>2, <2>3, FreshTail
    <3>3. Fresh(events, conf.num)' = Tail(Fresh(events, conf.num))
      BY <1>2, <2>2, <3>2, FreshPrime
    <3>4. Reports!See BY <3>1, <3>2, <3>3 DEF Reports!See
    <3> QED BY <1>5, <2>2, <3>4, NumberInvNext DEF ReportStep, Reports!Next
  <2>4. CASE ~IsFresh(e, conf.num)
    <3>1. view' = view BY <1>6, <2>4 DEF HandleUpdate, IsFresh
    <3>2. Fresh(events, conf.num) = Fresh(Tail(events), conf.num)
      BY <1>1, <1>2, <2>4, FreshTail
    <3> QED BY <1>2, <1>5, <2>2, <3>1, <3>2, UnseenReports
  <2> QED BY <2>3, <2>4
<1>7. CASE HandleFailure
  <2>1. conf' = CloseRig(conf) /\ view' = view BY <1>7 DEF HandleFailure
  <2>2. Ahead(conf', rig'.num) /\ conf'.num = conf.num
    BY <1>1, <1>2, <2>1, CloseRigAhead
  <2>3. ~IsFresh(e, conf.num) BY <1>7 DEF HandleFailure, IsFresh
  <2>4. Fresh(events, conf.num) = Fresh(Tail(events), conf.num)
    BY <1>1, <1>2, <2>3, FreshTail
  <2> QED BY <1>2, <1>5, <2>1, <2>2, <2>4, UnseenReports
<1> QED BY <1>6, <1>7 DEF Gui

\* Every call of a client but the last is a command.
LEMMA ClientReports == ASSUME RigInv, NumberInv, Client PROVE NumberInv' /\ ReportStep
<1>1. conf \in Confs /\ conf.num \in Nat /\ rig.num \in Nat /\ Ahead(conf, rig.num)
  BY HereNumbers
<1>2. RigInv' BY ClientKeepsInv
<1>3. conf' \in Confs BY <1>2 DEF RigInv, TypeOK, Confs, Calls
<1>4. ASSUME NEW c, ClientCall(c), Ahead(c, rig.num), c = conf \/ c.num > conf.num
      PROVE  NumberInv' /\ ReportStep
  BY <1>3, <1>4, CommandReports DEF ClientCall
<1>5. ASSUME NEW f \in Frequencies, Tune(f) PROVE NumberInv' /\ ReportStep
  <2> DEFINE d == OpenRig(conf)
             c == TransceiverFrequency(d, f)
  <2>1. d \in Confs /\ Ahead(d, rig.num) /\ (d = conf \/ d.num > conf.num)
    BY <1>1, CommandsAhead
  <2>2. ClientCall(c) BY <1>5 DEF Tune
  <2> HIDE DEF d
  <2>3. Ahead(c, rig.num) /\ c.num > d.num BY <1>1, <2>1, CommandsAhead
  <2>4. c \in Confs BY <1>3, <2>2 DEF ClientCall
  <2>5. c.num \in Nat /\ d.num \in Nat BY <2>1, <2>4 DEF Confs
  <2> HIDE DEF c
  <2>6. c.num > conf.num BY <1>1, <2>1, <2>3, <2>5
  <2> QED BY <1>4, <2>2, <2>3, <2>6
<1>6. ASSUME NEW on \in BOOLEAN, Key(on) PROVE NumberInv' /\ ReportStep
  BY <1>1, <1>4, <1>6, CommandsAhead DEF Key
<1>7. CASE Reopen BY <1>1, <1>4, <1>7, CommandsAhead DEF Reopen
<1>8. CASE Settings
  <2> DEFINE d == CloseRig(conf)
  <2>1. d \in Confs /\ Ahead(d, rig.num) /\ d.num = conf.num BY <1>1, CloseRigAhead
  <2>2. conf.active /\ ClientCall(OpenRig(d)) BY <1>8 DEF Settings
  <2>3. ~d.active BY <1>1, <2>2 DEF CloseRig, Confs
  <2> HIDE DEF d
  <2>4. Ahead(OpenRig(d), rig.num) /\ OpenRig(d).num > conf.num
    BY <1>1, <2>1, <2>3, CommandsAhead
  <2> QED BY <1>4, <2>2, <2>4
<1>9. CASE Leave
  <2>1. conf' = CloseRig(conf) /\ UNCHANGED <<events, rig, view>>
    BY <1>9 DEF Leave, ClientCall
  <2>2. Ahead(conf', rig.num) /\ conf'.num = conf.num BY <1>1, <2>1, CloseRigAhead
  <2> QED BY <2>1, <2>2, HereNumbers, UnseenReports
<1> QED BY <1>5, <1>6, <1>7, <1>8, <1>9 DEF Client

LEMMA NextReports ==
  RigInv /\ NumberInv /\ [Next]_rigVars => NumberInv' /\ ReportStep
<1> SUFFICES ASSUME RigInv, NumberInv, [Next]_rigVars PROVE NumberInv' /\ ReportStep
  OBVIOUS
<1>1. CASE TakeCall BY <1>1, StartReports, SetReports, StopReports DEF TakeCall
<1>2. CASE PollTimer BY <1>2, PollReports
<1>3. CASE DriverThrows BY <1>3, StartReports, SetReports, PollReports DEF DriverThrows
<1>4. CASE UNCHANGED <<conf, rig, events, view>>
  BY <1>4, UnseenReports DEF NumberInv
<1>5. CASE Settle \/ \E f \in Frequencies : TurnDial(f)
  BY <1>4, <1>5 DEF Settle, TurnDial
<1>6. CASE Gui BY <1>6, GuiReports
<1>7. CASE Client BY <1>7, ClientReports
<1>8. CASE UNCHANGED rigVars BY <1>4, <1>8 DEF rigVars
<1> QED BY <1>1, <1>2, <1>3, <1>5, <1>6, <1>7, <1>8 DEF Next

\* No command, nothing posted, and the clients have not heard of the rig.
LEMMA InitReports == Init => NumberInv /\ Reports!Init
<1> SUFFICES ASSUME Init PROVE NumberInv /\ Reports!Init OBVIOUS
<1>1. /\ conf.num = 0 /\ Len(conf.calls) = 0 /\ rig.num = 0
      /\ events = <<>> /\ events \in Seq(Events) /\ Len(events) = 0 /\ view = Unknown
  BY DEF Init, RigInit, Instance
<1>2. NumberInv BY <1>1 DEF NumberInv, Ahead, Bounded
<1>3. \A i \in 1..Len(events) : ~IsFresh(events[i], conf.num) BY <1>1
<1>4. Fresh(events, conf.num) = <<>>
  <2>1. events \in Seq(Events) BY <1>1
  <2> QED BY <1>3, <2>1, FreshNone
<1> QED BY <1>1, <1>2, <1>4, UnknownType DEF Reports!Init

\* After a command its client sees the states the rig reports with that command
\* carried out, all of them, one after another and in order, and none from before it,
\* whatever the polls, failures, restarts of the instance and later commands between.
THEOREM ReportsStayInOrder == Spec => ReportsInOrder
<1>1. RigInv /\ NumberInv /\ [Next]_rigVars => NumberInv' /\ ReportStep BY NextReports
<1>2. Init => NumberInv /\ Reports!Init BY InitReports
<1>3. Spec => []NumberInv BY <1>1, <1>2, RigInvariance, PTL DEF Spec
<1>4. Spec => [][Reports!Next]_<<Fresh(events, conf.num), view>>
  BY <1>1, <1>3, RigInvariance, PTL DEF Spec, ReportStep
<1> QED BY <1>2, <1>4, PTL DEF Spec, ReportsInOrder, Reports!Spec
-----------------------------------------------------------------------------
(* What the clients have seen.  The state reported last is the last of the  *)
(* fresh ones still on their way, or the view if there is none.             *)

LastSeen(fs, v) == IF fs = <<>> THEN v ELSE fs[Len(fs)]

\* An instance that is connected read that it is.
Up(x) == Online(x) => x.rig.actual.online

\* The newest command of an active rig is the last in the queue, or carried out.
Numbered(c, x) ==
  c.active => /\ c.calls = <<>> /\ Online(x) => x.rig.num = c.num
              /\ c.calls # <<>> => c.calls[Len(c.calls)].num = c.num

\* Once it is, what was reported last is what the clients see last.
Told(c, x, v) ==
  Connected(c) /\ Online(x) /\ x.rig.num = c.num
    => x.rig.last.online /\ LastSeen(Fresh(x.events, c.num), v) = x.rig.last

SeenInv == Up(Here) /\ Numbered(conf, Here) /\ Told(conf, Here, view)

\* A forced update with the newest number is the last the clients see.
LEMMA UpdateTells ==
  ASSUME NEW x \in Threads, NEW linked \in BOOLEAN, NEW v, x.rig.actual.online,
         NEW c, linked = Connected(c), Connected(c) \in BOOLEAN
  PROVE  LET u == Update(x, linked)
         IN /\ u.rig.num = x.rig.num /\ u.rig.last = x.rig.actual
            /\ u.rig.actual = x.rig.actual /\ Told(c, u, v)
<1> DEFINE e == [op |-> "update", s |-> x.rig.actual, num |-> x.rig.num]
           y == Emit(x, linked, e)
           u == Update(x, linked)
<1>1. e \in Events BY DEF Threads, Rigs, Events
<1>2. y \in Threads /\ y.rig = x.rig BY <1>1, EmitKeeps
<1>3. u = [y EXCEPT !.rig.last = x.rig.actual] BY DEF Update
<1>4. x.events \in Seq(Events) /\ (linked => y.events = Append(x.events, e))
  BY DEF Emit, Threads
<1> HIDE DEF y, u
<1>5. /\ u.events = y.events /\ u.rig.num = x.rig.num /\ u.rig.last = x.rig.actual
      /\ u.rig.actual = x.rig.actual
  BY <1>2, <1>3 DEF Threads, Rigs
<1>6. ASSUME linked, x.rig.num = c.num
      PROVE  LastSeen(Fresh(u.events, c.num), v) = u.rig.last
  <2> DEFINE fs == Fresh(x.events, c.num)
             a == x.rig.actual
  <2>1. IsFresh(e, c.num) /\ e.s = a BY <1>6 DEF IsFresh
  <2> HIDE DEF e
  <2>2. u.events = Append(x.events, e) BY <1>4, <1>5, <1>6
  <2>3. Fresh(Append(x.events, e), c.num) = Append(fs, e.s)
    BY <1>1, <1>4, <2>1, FreshAppend
  <2>4. fs \in Seq(TransceiverState) BY <1>4, FreshType
  <2> HIDE DEF fs, a
  <2>5. Append(fs, a) # <<>> /\ Append(fs, a)[Len(Append(fs, a))] = a BY <2>4
  <2> QED BY <1>5, <2>1, <2>2, <2>3, <2>5 DEF LastSeen, a
<1> QED BY <1>5, <1>6 DEF Told, u

\* Nobody is told anything while the rig is offline or not connected.
LEMMA UntoldTold ==
  ASSUME NEW c, NEW x, NEW v, ~Connected(c) \/ ~Online(x)
  PROVE  Told(c, x, v)
BY DEF Told

LEMMA ExpectActual ==
  ASSUME NEW r \in Rigs, NEW s \in TransceiverState PROVE Expect(r, s).actual = r.actual
BY DEF Expect, Rigs

\* Keying, tuning and polling do not touch the connection; startup makes it.
LEMMA DriverUp ==
  ASSUME NEW x \in Threads
  PROVE  /\ \A on \in BOOLEAN : DoPtt(x, on).rig.actual.online = x.rig.actual.online
         /\ \A f \in Frequencies : DoFrequency(x, f).rig.actual.online = x.rig.actual.online
         /\ Poll(x).rig.actual.online = x.rig.actual.online
         /\ Poll(x).rig.last = x.rig.last /\ Poll(x).rig.num = x.rig.num
         /\ Startup(x).rig.actual.online
<1>1. ASSUME NEW on \in BOOLEAN PROVE DoPtt(x, on).rig.actual.online = x.rig.actual.online
  <2> DEFINE y == RadioPtt(x, on)
             a == [y.rig EXCEPT !.actual.ptt = on]
             n == [y.rig.next EXCEPT !.ptt = on]
  <2>1. y \in Threads /\ y.rig = x.rig BY RadioPttType
  <2>2. DoPtt(x, on) = [y EXCEPT !.rig = Expect(a, n)] BY <2>1 DEF DoPtt, Threads
  <2> HIDE DEF y
  <2>3. a \in Rigs /\ n \in TransceiverState /\ a.actual.online = y.rig.actual.online
    BY <2>1 DEF Threads, Rigs, TransceiverState
  <2> HIDE DEF a, n
  <2> QED BY <2>1, <2>2, <2>3, ExpectActual DEF Threads
<1>2. ASSUME NEW f \in Frequencies
      PROVE  DoFrequency(x, f).rig.actual.online = x.rig.actual.online
  <2> DEFINE y == RadioFrequency(x, f)
             a == [y.rig EXCEPT !.actual.freq = f, !.requested.freq = f]
             n == [y.rig.next EXCEPT !.freq = f]
  <2>1. y \in Threads /\ y.rig = x.rig BY RadioFrequencyType
  <2>2. DoFrequency(x, f) = [y EXCEPT !.rig = Expect(a, n)]
    BY <2>1 DEF DoFrequency, Threads
  <2> HIDE DEF y
  <2>3. a \in Rigs /\ n \in TransceiverState /\ a.actual.online = y.rig.actual.online
    BY <2>1 DEF Threads, Rigs, TransceiverState
  <2> HIDE DEF a, n
  <2> QED BY <2>1, <2>2, <2>3, ExpectActual DEF Threads
<1>3. /\ Poll(x).rig.actual.online = x.rig.actual.online
      /\ Poll(x).rig.last = x.rig.last /\ Poll(x).rig.num = x.rig.num
  <2> DEFINE y == PollFrequency(x)
  <2>1. y \in Threads BY PollType
  <2>2. /\ y.rig.actual.online = x.rig.actual.online
        /\ y.rig.last = x.rig.last /\ y.rig.num = x.rig.num
    BY DEF PollFrequency, Threads, Rigs, TransceiverState
  <2>3. Poll(x) = [y EXCEPT !.rig.actual.ptt = x.radio.shown.ptt] BY DEF Poll
  <2> HIDE DEF y
  <2> QED BY <2>1, <2>2, <2>3 DEF Threads, Rigs, TransceiverState
<1>4. Startup(x).rig.actual.online
  <2> DEFINE y == Poll(x)
             a == [y.rig EXCEPT !.actual.online = TRUE, !.requested.online = TRUE]
             n == [y.rig.next EXCEPT !.online = TRUE]
  <2>1. y \in Threads BY PollType
  <2>2. Startup(x) = [y EXCEPT !.rig = Expect(a, n)] BY <2>1 DEF Startup, Threads
  <2> HIDE DEF y
  <2>3. a \in Rigs /\ n \in TransceiverState /\ a.actual.online
    BY <2>1 DEF Threads, Rigs, TransceiverState
  <2> HIDE DEF a, n
  <2> QED BY <2>1, <2>2, <2>3, ExpectActual DEF Threads
<1> QED BY <1>1, <1>2, <1>3, <1>4

\* set ends with a rig that is connected and read so.
LEMMA StepsUp ==
  ASSUME NEW x \in Threads, NEW s \in TransceiverState, NEW linked \in BOOLEAN, Up(x)
  PROVE  Steps(x, s, linked).done.rig.actual.online
<1> DEFINE h   == Shutdown(x, linked, TRUE)
           a   == IF x.rig.requested.online THEN x ELSE Startup(h)
           off == ~s.ptt /\ a.rig.requested.ptt
           on  == s.ptt /\ ~a.rig.requested.ptt
           b   == IF off THEN DoPtt(a, FALSE) ELSE a
           qsy == s.freq # 0 /\ (s.freq # b.rig.requested.freq \/ off)
           d   == IF qsy THEN DoFrequency(b, s.freq) ELSE b
           done == IF on THEN DoPtt(d, TRUE) ELSE d
<1>0. TRUE \in BOOLEAN /\ FALSE \in BOOLEAN OBVIOUS
<1>1. Steps(x, s, linked).done = done BY DEF Steps
<1>2. h \in Threads BY <1>0, ShutdownType
<1> HIDE DEF h
<1>3. a \in Threads /\ a.rig.actual.online
  BY <1>2, StartupType, DriverUp DEF Up, Online
<1> HIDE DEF a
<1>4. b \in Threads /\ b.rig.actual.online BY <1>0, <1>3, DoPttType, DriverUp
<1> HIDE DEF b, off
<1>5. qsy => s.freq \in Frequencies BY DEF TransceiverState
<1>6. d \in Threads /\ d.rig.actual.online BY <1>4, <1>5, DoFrequencyType, DriverUp
<1> HIDE DEF d, qsy, on
<1>7. done.rig.actual.online BY <1>0, <1>6, DriverUp
<1> HIDE DEF done
<1> QED BY <1>1, <1>7

\* Whatever fails, the instance is offline then.
LEMMA OfflineEnds ==
  ASSUME NEW x \in Threads, NEW linked \in BOOLEAN, NEW drops \in BOOLEAN
  PROVE  ~Online(Offline(x, linked, drops))
<1> DEFINE e == [op |-> "failure", s |-> Unknown, num |-> 0]
           y == Emit(x, linked, e)
<1>1. e \in Events BY UnknownType DEF Events
<1>2. y \in Threads BY <1>1, EmitKeeps
<1>3. Offline(x, linked, drops) = Shutdown(y, linked, drops) BY DEF Offline
<1> HIDE DEF y
<1> QED BY <1>2, <1>3, ShutdownType

LEMMA StartTells ==
  ASSUME NEW x \in Threads, NEW num \in Nat, NEW c, Connected(c) \in BOOLEAN, NEW v
  PROVE  LET y == Start(x, num, Connected(c))
         IN Up(y) /\ y.rig.num = num /\ Told(c, y, v) /\ y.rig.last = y.rig.actual
<1> DEFINE linked == Connected(c)
           i == [x EXCEPT !.rig = Instance]
           h == Shutdown(i, linked, TRUE)
           y == Startup(h)
           z == [y EXCEPT !.rig.num = num]
<1>1. i \in Threads BY InstanceType DEF Threads
<1>2. TRUE \in BOOLEAN OBVIOUS
<1>3. Start(x, num, linked) = Update(z, linked) BY DEF Start
<1> HIDE DEF i
<1>4. h \in Threads BY <1>1, <1>2, ShutdownType
<1> HIDE DEF h
<1>5. y \in Threads /\ y.rig.actual.online BY <1>4, StartupType, DriverUp
<1> HIDE DEF y
<1>6. z \in Threads /\ z.rig.num = num /\ z.rig.actual.online
  BY <1>5 DEF Threads, Rigs
<1> HIDE DEF z
<1> QED BY <1>3, <1>6, UpdateTells DEF Up

LEMMA SetTells ==
  ASSUME NEW x \in Threads, NEW s \in TransceiverState, NEW num \in Nat, Up(x),
         NEW c, Connected(c) \in BOOLEAN, NEW v
  PROVE  LET y == Set(x, s, num, Connected(c))
         IN Up(y) /\ y.rig.num = num /\ Told(c, y, v) /\ y.rig.last = y.rig.actual
<1> DEFINE linked == Connected(c)
           y == Steps(x, s, linked).done
           z == [y EXCEPT !.rig.requested.ptt = y.rig.actual.ptt, !.rig.num = num]
<1>1. y \in Threads /\ y.rig.actual.online BY StepsType, StepsUp
<1>2. Set(x, s, num, linked) = Update(z, linked) BY DEF Set
<1> HIDE DEF y
<1>3. z \in Threads /\ z.rig.num = num /\ z.rig.actual.online
  BY <1>1 DEF Threads, Rigs, TransceiverState
<1> HIDE DEF z
<1> QED BY <1>2, <1>3, UpdateTells DEF Up

\* A poll tells what it read, or nothing changes.
LEMMA SyncTells ==
  ASSUME NEW x \in Threads, NEW c, Connected(c) \in BOOLEAN, NEW v,
         Online(x), Up(x), Told(c, x, v)
  PROVE  LET y == Sync(x, Connected(c))
         IN /\ Up(y) /\ y.rig.num = x.rig.num /\ Told(c, y, v)
            /\ y.rig.last \in {x.rig.last, y.rig.actual}
<1> DEFINE linked == Connected(c)
           p == Poll(x)
           z == [p EXCEPT !.rig.retries = 0, !.rig.next = p.rig.actual,
                          !.rig.signalled = p.rig.actual]
           w == [p EXCEPT !.rig.retries = IF @ > 0 THEN @ - 1 ELSE 0]
<1>1. /\ p \in Threads /\ Silent(x, p) /\ p.rig.actual.online = x.rig.actual.online
      /\ p.rig.last = x.rig.last /\ Online(p)
  BY PollType, PollSilent, DriverUp
<1>2. Sync(x, linked) \in {Update(z, linked), w} BY DEF Sync
<1> HIDE DEF p
<1>3. 0 \in 0..Polls BY RadioAssumption
<1>4. z \in Threads /\ Silent(p, z) /\ z.rig.actual.online = p.rig.actual.online
  BY <1>1, <1>3 DEF Threads, Rigs, Silent
<1>5. /\ Silent(p, w) /\ w.rig.actual.online = p.rig.actual.online
      /\ w.rig.last = p.rig.last /\ Online(w) = Online(p)
  BY <1>1 DEF Threads, Rigs, Silent, Online
<1> HIDE DEF z, w
<1>6. x.rig.actual.online BY DEF Up
<1>7. CASE Sync(x, linked) = Update(z, linked)
  <2>1. z.rig.num = x.rig.num /\ z.rig.actual.online BY <1>1, <1>4, <1>6 DEF Silent
  <2> QED BY <1>4, <1>7, <2>1, UpdateTells DEF Up
<1>8. CASE Sync(x, linked) = w
  <2>1. /\ w.events = x.events /\ w.rig.num = x.rig.num /\ w.rig.last = x.rig.last
        /\ w.rig.actual.online
    BY <1>1, <1>5, <1>6 DEF Silent
  <2>2. Told(c, w, v) BY <2>1 DEF Told
  <2> QED BY <1>8, <2>1, <2>2 DEF Up
<1> QED BY <1>2, <1>7, <1>8

\* What has to be shown of the next state.
LEMMA SeenInvNext ==
  ASSUME NEW y, rig' = y.rig, events' = y.events,
         Up(y), Numbered(conf', y), Told(conf', y, view')
  PROVE  SeenInv'
<1>1. Up(Here)' BY DEF Up, Online, Here
<1>2. Numbered(conf, Here)' BY DEF Numbered, Online, Here
<1>3. Fresh(Here.events, conf.num)' = Fresh(y.events, conf'.num) BY DEF Fresh, Here
<1>4. Connected(conf)' = Connected(conf') /\ Online(Here)' = Online(y)
  BY DEF Connected, Online, Here
<1>5. Told(conf, Here, view)' BY <1>3, <1>4 DEF Told, LastSeen, Here
<1> QED BY <1>1, <1>2, <1>5 DEF SeenInv

\* What the invariant says of the state before.
LEMMA SeenMeaning ==
  ASSUME SeenInv
  PROVE  Up(Here) /\ Numbered(conf, Here) /\ Told(conf, Here, view)
         /\ Here.rig = rig /\ Here.events = events
BY DEF SeenInv, Here

\* A call taken is the newest command of an active rig, or that is still the last.
LEMMA TakenNumbered ==
  ASSUME RigInv, SeenInv, NEW op, Taken(op), NEW y, Online(y) => y.rig.num = Head(conf.calls).num
  PROVE  Numbered(conf', y)
<1> DEFINE n == Len(conf.calls)
<1>1. conf \in Confs BY RigInvMeaning
<1>2. conf.calls \in Seq(Calls) /\ conf.calls # <<>> BY <1>1 DEF Taken, Confs
<1>3. conf'.calls = Tail(conf.calls) /\ conf'.active = conf.active /\ conf'.num = conf.num
  BY <1>1 DEF Taken, Confs
<1>4. conf.active => conf.calls[n].num = conf.num BY <1>2 DEF SeenInv, Numbered
<1>5. /\ n \in Nat /\ n > 0 /\ Len(conf'.calls) = n - 1 /\ Head(conf.calls) = conf.calls[1]
      /\ \A i \in 1..n - 1 : conf'.calls[i] = conf.calls[i + 1]
      /\ conf'.calls \in Seq(Calls)
  BY <1>2, <1>3
<1>6. conf'.calls = <<>> <=> n = 1
  <2>1. conf'.calls = <<>> <=> Len(conf'.calls) = 0 BY <1>5, EmptySeq
  <2> QED BY <1>5, <2>1
<1>7. ASSUME n # 1 PROVE conf'.calls[Len(conf'.calls)] = conf.calls[n]
  <2> HIDE DEF n
  <2>1. n - 1 \in 1..n - 1 /\ (n - 1) + 1 = n BY <1>5, <1>7
  <2> QED BY <1>5, <2>1
<1> HIDE DEF n
<1> QED BY <1>3, <1>4, <1>5, <1>6, <1>7 DEF Numbered

LEMMA StartKeepsSeen ==
  ASSUME RigInv, SeenInv, StartRig \/ \E drops \in Drops : StartFails(drops) PROVE SeenInv'
<1> DEFINE linked == Connected(conf')
           call == Head(conf.calls)
<1>1. Here \in Threads BY RigInvMeaning
<1>2. Taken("start") BY DEF StartRig, StartFails
<1>3. conf' \in Confs /\ call.num \in Nat BY <1>2, TakenType DEF Calls
<1>4. linked \in BOOLEAN BY <1>3, ConnectedType
<1>5. CASE StartRig
  <2> DEFINE y == Start(Here, call.num, linked)
  <2>1. Becomes(y) /\ view' = view BY <1>5 DEF StartRig
  <2>2. Up(y) /\ y.rig.num = call.num /\ Told(conf', y, view)
    BY <1>1, <1>3, <1>4, StartTells
  <2> HIDE DEF y
  <2>3. Numbered(conf', y) BY <1>2, <2>2, TakenNumbered
  <2> QED BY <2>1, <2>2, <2>3, SeenInvNext DEF Becomes
<1>6. ASSUME NEW drops \in Drops, StartFails(drops) PROVE SeenInv'
  <2> DEFINE i == [Here EXCEPT !.rig = Instance]
             u == Update(i, linked)
             y == Offline(u, linked, drops)
  <2>1. drops \in BOOLEAN BY RadioAssumption DEF Drops
  <2>2. i \in Threads BY <1>1, InstanceType DEF Threads
  <2>3. Becomes(y) BY <1>6 DEF StartFails
  <2> HIDE DEF i
  <2>4. u \in Threads BY <1>4, <2>2, UpdateKeeps
  <2> HIDE DEF u
  <2>5. ~Online(y) BY <1>4, <2>1, <2>4, OfflineEnds
  <2> HIDE DEF y
  <2>6. Numbered(conf', y) BY <1>2, <2>5, TakenNumbered
  <2> QED BY <2>3, <2>5, <2>6, UntoldTold, SeenInvNext DEF Becomes, Up
<1> QED BY <1>5, <1>6

LEMMA SetKeepsSeen ==
  ASSUME RigInv, SeenInv, SetRig \/ \E drops \in Drops : SetFails(drops) PROVE SeenInv'
<1> DEFINE linked == Connected(conf')
           call == Head(conf.calls)
<1>1. Here \in Threads /\ Up(Here) BY RigInvMeaning, SeenMeaning
<1>2. Taken("set") BY DEF SetRig, SetFails
<1>3. conf' \in Confs /\ call.num \in Nat /\ call.s \in TransceiverState
  BY <1>2, TakenType DEF Calls
<1>4. linked \in BOOLEAN BY <1>3, ConnectedType
<1>5. CASE SetRig
  <2> DEFINE y == Set(Here, call.s, call.num, linked)
  <2>1. Becomes(y) /\ view' = view BY <1>5 DEF SetRig
  <2>2. Up(y) /\ y.rig.num = call.num /\ Told(conf', y, view)
    BY <1>1, <1>3, <1>4, SetTells
  <2> HIDE DEF y
  <2>3. Numbered(conf', y) BY <1>2, <2>2, TakenNumbered
  <2> QED BY <2>1, <2>2, <2>3, SeenInvNext DEF Becomes
<1>6. ASSUME NEW drops \in Drops, SetFails(drops) PROVE SeenInv'
  <2>1. drops \in BOOLEAN BY RadioAssumption DEF Drops
  <2>2. PICK x \in Steps(Here, call.s, linked).thrown :
          Becomes(Offline(Update(x, linked), linked, drops))
    BY <1>6 DEF SetFails
  <2> DEFINE u == Update(x, linked)
             y == Offline(u, linked, drops)
  <2>3. x \in Threads BY <1>1, <1>3, <1>4, StepsType
  <2>4. u \in Threads BY <1>4, <2>3, UpdateKeeps
  <2>5. Becomes(y) BY <2>2
  <2> HIDE DEF u
  <2>6. ~Online(y) BY <1>4, <2>1, <2>4, OfflineEnds
  <2> HIDE DEF y
  <2>7. Numbered(conf', y) BY <1>2, <2>6, TakenNumbered
  <2> QED BY <2>5, <2>6, <2>7, UntoldTold, SeenInvNext DEF Becomes, Up
<1> QED BY <1>5, <1>6

LEMMA StopKeepsSeen ==
  ASSUME RigInv, SeenInv, NEW drops \in Drops, StopRig(drops) PROVE SeenInv'
<1> DEFINE y == Shutdown(Here, FALSE, drops)
<1>1. Here \in Threads BY RigInvMeaning
<1>2. Taken("stop") /\ Becomes(y) BY DEF StopRig
<1>3. drops \in BOOLEAN /\ FALSE \in BOOLEAN BY RadioAssumption DEF Drops
<1>4. ~Online(y) BY <1>1, <1>3, ShutdownType
<1> HIDE DEF y
<1>5. Numbered(conf', y) BY <1>2, <1>4, TakenNumbered
<1> QED BY <1>2, <1>4, <1>5, UntoldTold, SeenInvNext DEF Becomes, Up

LEMMA PollKeepsSeen ==
  ASSUME RigInv, SeenInv, PollTimer \/ \E drops \in Drops : PollFails(drops) PROVE SeenInv'
<1> DEFINE linked == Connected(conf)
<1>1. Here \in Threads /\ conf \in Confs BY RigInvMeaning
<1>2. linked \in BOOLEAN BY <1>1, ConnectedType
<1>3. /\ Up(Here) /\ Numbered(conf, Here) /\ Told(conf, Here, view) /\ Here.rig = rig
  BY SeenMeaning
<1>4. CASE PollTimer
  <2> DEFINE y == Sync(Here, linked)
  <2>1. Becomes(y) /\ conf' = conf /\ view' = view /\ Online(Here)
    BY <1>3, <1>4 DEF PollTimer, Online
  <2>2. Online(y) = Online(Here) BY <1>1, <1>2, SyncType
  <2>3. Up(y) /\ y.rig.num = Here.rig.num /\ Told(conf, y, view)
    BY <1>1, <1>2, <1>3, <2>1, SyncTells
  <2> HIDE DEF y
  <2>4. Numbered(conf, y) BY <1>3, <2>2, <2>3 DEF Numbered
  <2> QED BY <2>1, <2>3, <2>4, SeenInvNext DEF Becomes
<1>5. ASSUME NEW drops \in Drops, PollFails(drops) PROVE SeenInv'
  <2>1. drops \in BOOLEAN BY RadioAssumption DEF Drops
  <2>2. PICK x \in {Here, PollFrequency(Here)} : Becomes(Offline(x, linked, drops))
    BY <1>5 DEF PollFails
  <2> DEFINE y == Offline(x, linked, drops)
  <2>3. x \in Threads BY <1>1, PollType
  <2>4. Becomes(y) /\ conf' = conf BY <1>5, <2>2 DEF PollFails
  <2>5. ~Online(y) BY <1>2, <2>1, <2>3, OfflineEnds
  <2> HIDE DEF y
  <2>6. Numbered(conf, y) BY <1>3, <2>5 DEF Numbered
  <2> QED BY <2>4, <2>5, <2>6, UntoldTold, SeenInvNext DEF Becomes, Up
<1> QED BY <1>4, <1>5

\* The radio, and the slots of the GUI: the instance stays as it is.
LEMMA SlotKeepsSeen ==
  ASSUME SeenInv, rig' = rig, Numbered(conf', Here),
         Told(conf', [Here EXCEPT !.events = events'], view')
  PROVE  SeenInv'
<1> DEFINE y == [Here EXCEPT !.events = events']
<1>1. y.rig = rig /\ y.events = events' /\ Here.rig = rig BY DEF Here
<1> HIDE DEF y
<1>2. Up(y) /\ Numbered(conf', y) BY <1>1, SeenMeaning DEF Up, Numbered, Online
<1> QED BY <1>1, <1>2, SeenInvNext DEF y

\* Seeing the first of what is on its way does not change the last.
LEMMA LastSeenTail ==
  ASSUME NEW S, NEW fs \in Seq(S), fs # <<>>, NEW v
  PROVE  LastSeen(Tail(fs), Head(fs)) = LastSeen(fs, v)
<1> DEFINE gs == Tail(fs)
           n == Len(fs)
<1>1. /\ n \in Nat /\ n > 0 /\ gs \in Seq(S) /\ Len(gs) = n - 1 /\ Head(fs) = fs[1]
      /\ \A i \in 1..n - 1 : gs[i] = fs[i + 1]
  OBVIOUS
<1>2. gs = <<>> <=> n = 1
  <2>1. gs = <<>> <=> Len(gs) = 0 BY <1>1, EmptySeq
  <2> HIDE DEF gs, n
  <2> QED BY <1>1, <2>1
<1>3. CASE n = 1 BY <1>1, <1>2, <1>3 DEF LastSeen
<1>4. CASE n # 1
  <2>1. n - 1 \in 1..n - 1 /\ (n - 1) + 1 = n
    <3> HIDE DEF n
    <3> QED BY <1>1, <1>4
  <2>2. gs[Len(gs)] = fs[n] BY <1>1, <2>1
  <2> QED BY <1>2, <1>4, <2>2 DEF LastSeen
<1> QED BY <1>3, <1>4

\* Updates and failures.
LEMMA GuiKeepsSeen == ASSUME RigInv, SeenInv, Gui PROVE SeenInv'
<1>1. conf \in Confs /\ events \in Seq(Events) /\ Here \in Threads BY RigInvMeaning
<1>2. events # <<>> /\ rig' = rig /\ events' = Tail(events)
  BY DEF Gui, HandleUpdate, HandleFailure
<1> DEFINE e == Head(events)
           y == [Here EXCEPT !.events = events']
           fs == Fresh(events, conf.num)
<1>3. e \in Events BY <1>1, <1>2
<1>4. e.s \in TransceiverState BY <1>3 DEF Events
<1>5. Numbered(conf, Here) /\ Told(conf, Here, view) /\ Here.events = events
  BY SeenMeaning
<1>6. y.rig = Here.rig /\ y.events = events' BY DEF Here
<1> HIDE DEF y
<1>7. CASE HandleUpdate
  <2> DEFINE d == [conf EXCEPT !.cached.online = e.s.online, !.cached.freq = e.s.freq]
  <2>1. d \in Confs /\ d.calls = conf.calls /\ d.active = conf.active /\ d.num = conf.num
    BY <1>1, <1>4 DEF Confs, TransceiverState
  <2>2. conf' = IF e.s.online THEN d ELSE CloseRig(d)
    BY <1>7 DEF HandleUpdate, FollowRig
  <2> HIDE DEF d
  <2>3. CASE e.s.online
    <3>1. Numbered(conf', Here) BY <1>5, <2>1, <2>2, <2>3 DEF Numbered
    <3>2. Connected(conf') = Connected(conf) /\ conf'.num = conf.num
      BY <2>1, <2>2, <2>3 DEF Connected
    <3>3. LastSeen(Fresh(events', conf.num), view') = LastSeen(fs, view)
      <4>1. fs \in Seq(TransceiverState) BY <1>1, FreshType
      <4>2. CASE IsFresh(e, conf.num)
        <5>1. view' = e.s BY <1>7, <4>2 DEF HandleUpdate, IsFresh
        <5>2. fs # <<>> /\ Head(fs) = e.s /\ Tail(fs) = Fresh(Tail(events), conf.num)
          BY <1>1, <1>2, <4>2, FreshTail
        <5> HIDE DEF fs, e
        <5>3. LastSeen(Tail(fs), Head(fs)) = LastSeen(fs, view)
          BY <4>1, <5>2, LastSeenTail
        <5> QED BY <1>2, <5>1, <5>2, <5>3
      <4>3. CASE ~IsFresh(e, conf.num)
        <5>1. view' = view BY <1>7, <4>3 DEF HandleUpdate, IsFresh
        <5>2. fs = Fresh(Tail(events), conf.num) BY <1>1, <1>2, <4>3, FreshTail
        <5> QED BY <1>2, <5>1, <5>2
      <4> QED BY <4>2, <4>3
    <3>4. Told(conf', y, view')
      BY <1>5, <1>6, <3>2, <3>3 DEF Told, Online
    <3> QED BY <1>2, <3>1, <3>4, SlotKeepsSeen DEF y
  <2>4. CASE ~e.s.online
    <3>1. ~conf'.active BY <2>1, <2>2, <2>4 DEF CloseRig, Confs
    <3>2. Numbered(conf', Here) /\ Told(conf', y, view')
      BY <3>1 DEF Numbered, Told, Connected
    <3> QED BY <1>2, <3>2, SlotKeepsSeen DEF y
  <2> QED BY <2>3, <2>4
<1>8. CASE HandleFailure
  <2>1. ~conf'.active BY <1>1, <1>8 DEF HandleFailure, CloseRig, Confs
  <2>2. Numbered(conf', Here) /\ Told(conf', y, view')
    BY <2>1 DEF Numbered, Told, Connected
  <2> QED BY <1>2, <2>2, SlotKeepsSeen DEF y
<1> QED BY <1>7, <1>8 DEF Gui

\* A command of an active rig is the last in the queue.
LEMMA PostNumbered ==
  ASSUME NEW c \in Confs, NEW op \in {"start", "set"}, NEW x
  PROVE  Numbered(Post(c, op), x)
<1> DEFINE e == [op |-> op, s |-> c.cached, num |-> c.num + 1]
           p == Post(c, op)
<1>1. /\ p.active = c.active /\ p.num = c.num + 1
      /\ c.active => p.calls = Append(c.calls, e)
  BY DEF Post, Confs
<1>2. c.calls \in Seq(Calls) /\ e \in Calls /\ e.num = c.num + 1 BY DEF Confs, Calls
<1> HIDE DEF e, p
<1>3. Append(c.calls, e) # <<>> /\ Append(c.calls, e)[Len(Append(c.calls, e))] = e
  BY <1>2
<1> QED BY <1>1, <1>2, <1>3 DEF Numbered, p

LEMMA CommandsNumbered ==
  ASSUME NEW c \in Confs, NEW x
  PROVE  /\ Numbered(c, x) => Numbered(OpenRig(c), x)
         /\ \A f \in Frequencies \cup {0} : Numbered(TransceiverFrequency(c, f), x)
         /\ \A on \in BOOLEAN : Numbered(TransceiverPtt(c, on), x)
<1>1. ASSUME ~c.active PROVE Numbered(OpenRig(c), x)
  <2> DEFINE d == [c EXCEPT !.active = TRUE, !.cached = Unknown]
  <2>1. d \in Confs BY UnknownType DEF Confs
  <2>2. OpenRig(c) = Post(d, "start") BY <1>1 DEF OpenRig
  <2> HIDE DEF d
  <2> QED BY <2>1, <2>2, PostNumbered
<1>2. c.active => OpenRig(c) = c BY DEF OpenRig
<1>3. ASSUME NEW f \in Frequencies \cup {0}
      PROVE  Numbered(TransceiverFrequency(c, f), x)
  <2> DEFINE d == [c EXCEPT !.cached.online = TRUE, !.cached.freq = f]
  <2>1. d \in Confs BY DEF Confs, TransceiverState
  <2>2. TransceiverFrequency(c, f) = Post(d, "set") BY DEF TransceiverFrequency
  <2> HIDE DEF d
  <2> QED BY <2>1, <2>2, PostNumbered
<1>4. ASSUME NEW on \in BOOLEAN PROVE Numbered(TransceiverPtt(c, on), x)
  <2> DEFINE d == [c EXCEPT !.cached.online = TRUE, !.cached.ptt = on]
  <2>1. d \in Confs BY DEF Confs, TransceiverState
  <2>2. TransceiverPtt(c, on) = Post(d, "set") BY DEF TransceiverPtt
  <2> HIDE DEF d
  <2> QED BY <2>1, <2>2, PostNumbered
<1> QED BY <1>1, <1>2, <1>3, <1>4

\* With a command that is not carried out yet nothing is told.
LEMMA CommandKeepsSeen ==
  ASSUME RigInv, NumberInv, SeenInv, UNCHANGED <<rig, events, view>>, Numbered(conf', Here),
         conf' = conf \/ conf'.num > conf.num \/ ~conf'.active, conf' \in Confs
  PROVE  SeenInv'
<1> DEFINE y == [Here EXCEPT !.events = events']
<1>1. Here.events = events /\ Here.rig = rig /\ Told(conf, Here, view) BY SeenMeaning
<1>2. y.rig = rig /\ y.events = events BY DEF Here
<1> HIDE DEF y
<1>3. CASE conf' = conf BY <1>1, <1>2, <1>3, SlotKeepsSeen DEF Told, Online, y
<1>4. CASE conf'.num > conf.num
  <2>1. rig.num \in Nat /\ conf.num \in Nat /\ rig.num <= conf.num BY HereNumbers
  <2>2. conf'.num \in Nat BY DEF Confs
  <2>3. y.rig.num # conf'.num BY <1>2, <1>4, <2>1, <2>2
  <2>4. Told(conf', y, view') BY <2>3 DEF Told
  <2> QED BY <2>4, SlotKeepsSeen DEF y
<1>5. CASE ~conf'.active
  <2>1. Told(conf', y, view') BY <1>5 DEF Told, Connected
  <2> QED BY <2>1, SlotKeepsSeen DEF y
<1> QED BY <1>3, <1>4, <1>5

LEMMA ClientKeepsSeen == ASSUME RigInv, NumberInv, SeenInv, Client PROVE SeenInv'
<1>1. conf \in Confs /\ conf.num \in Nat /\ rig.num \in Nat /\ Ahead(conf, rig.num)
  BY HereNumbers
<1>2. RigInv' BY ClientKeepsInv
<1>3. conf' \in Confs BY <1>2 DEF RigInv, TypeOK, Confs, Calls
<1>4. ASSUME NEW c, ClientCall(c), Numbered(c, Here),
             c = conf \/ c.num > conf.num \/ ~c.active
      PROVE  SeenInv'
  BY <1>3, <1>4, CommandKeepsSeen DEF ClientCall
<1>5. Numbered(conf, Here) BY SeenMeaning
<1>6. ASSUME NEW f \in Frequencies, Tune(f) PROVE SeenInv'
  <2> DEFINE d == OpenRig(conf)
             c == TransceiverFrequency(d, f)
  <2>1. d \in Confs /\ Ahead(d, rig.num) /\ (d = conf \/ d.num > conf.num)
    BY <1>1, CommandsAhead
  <2>2. ClientCall(c) BY <1>6 DEF Tune
  <2> HIDE DEF d
  <2>3. Numbered(c, Here) /\ c.num > d.num BY <1>1, <2>1, CommandsAhead, CommandsNumbered
  <2>4. c \in Confs BY <1>3, <2>2 DEF ClientCall
  <2>5. c.num \in Nat /\ d.num \in Nat BY <2>1, <2>4 DEF Confs
  <2> HIDE DEF c
  <2>6. c.num > conf.num BY <1>1, <2>1, <2>3, <2>5
  <2> QED BY <1>4, <2>2, <2>3, <2>6
<1>7. ASSUME NEW on \in BOOLEAN, Key(on) PROVE SeenInv'
  BY <1>1, <1>4, <1>7, CommandsAhead, CommandsNumbered DEF Key
<1>8. CASE Reopen
  <2>1. Numbered(OpenRig(conf), Here) /\ (OpenRig(conf) = conf \/ OpenRig(conf).num > conf.num)
    BY <1>1, <1>5, CommandsAhead, CommandsNumbered
  <2> QED BY <1>4, <1>8, <2>1 DEF Reopen
<1>9. CASE Settings
  <2> DEFINE d == CloseRig(conf)
  <2>1. d \in Confs /\ Ahead(d, rig.num) /\ d.num = conf.num BY <1>1, CloseRigAhead
  <2>2. conf.active /\ ClientCall(OpenRig(d)) BY <1>9 DEF Settings
  <2>3. ~d.active BY <1>1, <2>2 DEF CloseRig, Confs
  <2> HIDE DEF d
  <2>4. Numbered(d, Here) BY <2>3 DEF Numbered
  <2>5. Numbered(OpenRig(d), Here) /\ OpenRig(d).num > conf.num
    BY <1>1, <2>1, <2>3, <2>4, CommandsAhead, CommandsNumbered
  <2> QED BY <1>4, <2>2, <2>5
<1>10. CASE Leave
  <2>1. ~CloseRig(conf).active BY <1>1 DEF CloseRig, Confs
  <2>2. Numbered(CloseRig(conf), Here) BY <2>1 DEF Numbered
  <2> QED BY <1>4, <1>10, <2>1, <2>2 DEF Leave
<1> QED BY <1>6, <1>7, <1>8, <1>9, <1>10 DEF Client

LEMMA NextKeepsSeen == RigInv /\ NumberInv /\ SeenInv /\ [Next]_rigVars => SeenInv'
<1> SUFFICES ASSUME RigInv, NumberInv, SeenInv, [Next]_rigVars PROVE SeenInv' OBVIOUS
<1>1. CASE TakeCall BY <1>1, StartKeepsSeen, SetKeepsSeen, StopKeepsSeen DEF TakeCall
<1>2. CASE PollTimer BY <1>2, PollKeepsSeen
<1>3. CASE DriverThrows BY <1>3, StartKeepsSeen, SetKeepsSeen, PollKeepsSeen DEF DriverThrows
<1>4. CASE UNCHANGED <<conf, rig, events, view>>
  <2>1. Numbered(conf', Here) /\ conf' \in Confs
    BY <1>4, HereNumbers, SeenMeaning
  <2> QED BY <1>4, <2>1, CommandKeepsSeen
<1>5. CASE Settle \/ \E f \in Frequencies : TurnDial(f)
  BY <1>4, <1>5 DEF Settle, TurnDial
<1>6. CASE Gui BY <1>6, GuiKeepsSeen
<1>7. CASE Client BY <1>7, ClientKeepsSeen
<1>8. CASE UNCHANGED rigVars BY <1>4, <1>8 DEF rigVars
<1> QED BY <1>1, <1>2, <1>3, <1>5, <1>6, <1>7, <1>8 DEF Next

LEMMA InitSeenInv == Init => SeenInv
<1> SUFFICES ASSUME Init PROVE SeenInv OBVIOUS
<1>1. ~conf.active /\ ~Online(Here)
  BY DEF Init, RigInit, Online, Here, Instance, Unknown
<1> QED BY <1>1, UntoldTold DEF SeenInv, Up, Numbered

\* With the queues empty the view is the state reported last.
LEMMA QuietSeen == RigInv /\ SeenInv => UpdatesSeen
<1> SUFFICES ASSUME RigInv, SeenInv, Quiet PROVE view.online /\ view = rig.last
  BY DEF UpdatesSeen
<1>1. conf.active /\ conf.calls = <<>> /\ events = <<>> /\ rig.requested.online
  BY DEF Quiet
<1>2. Connected(conf) BY <1>1 DEF Connected
<1>3. Numbered(conf, Here) /\ Told(conf, Here, view) /\ Here.rig = rig /\ Here.events = events
  BY SeenMeaning
<1>4. rig.num = conf.num BY <1>1, <1>3 DEF Numbered, Online
<1>5. Fresh(events, conf.num) = <<>>
  <2>1. events \in Seq(Events) /\ Len(events) = 0 BY <1>1
  <2>2. \A i \in 1..Len(events) : ~IsFresh(events[i], conf.num) BY <2>1
  <2> QED BY <2>1, <2>2, FreshNone
<1> QED BY <1>1, <1>2, <1>3, <1>4, <1>5 DEF Told, LastSeen, Online

\* No update is lost or overtaken: every command carried out and nothing on its way,
\* the clients have seen what the instance reported last, for any radio, polls and
\* faults, and whichever updates were discarded for their numbers.
THEOREM NothingUnseen == Spec => []UpdatesSeen
<1>1. RigInv /\ NumberInv /\ [Next]_rigVars => NumberInv' /\ ReportStep BY NextReports
<1>2. Init => NumberInv BY InitReports
<1>3. Spec => []NumberInv BY <1>1, <1>2, RigInvariance, PTL DEF Spec
<1>4. Spec => []SeenInv BY <1>3, RigInvariance, InitSeenInv, NextKeepsSeen, PTL DEF Spec
<1> QED BY <1>4, RigInvariance, QuietSeen, PTL
-----------------------------------------------------------------------------
(* PTT as the clients see it, for a radio that shows it at once.            *)

\* Between two calls PTT was read as it is, and so reported.
Agrees(x) == Shown(x) /\ (Online(x) => Read(x) /\ x.rig.last.ptt = x.rig.actual.ptt)

LEMMA StartAgrees ==
  ASSUME ~LagPtt, NEW x \in Threads, NEW num \in Nat, NEW c, Connected(c) \in BOOLEAN, Shown(x)
  PROVE  Agrees(Start(x, num, Connected(c)))
<1> DEFINE linked == Connected(c)
           i == [x EXCEPT !.rig = Instance]
           h == Shutdown(i, linked, TRUE)
           y == Startup(h)
           z == [y EXCEPT !.rig.num = num]
           u == Start(x, num, linked)
<1>1. i \in Threads /\ i.radio = x.radio BY InstanceType DEF Threads
<1>2. TRUE \in BOOLEAN OBVIOUS
<1>3. u = Update(z, linked) BY DEF Start
<1>4. u.rig.last = u.rig.actual BY StartTells
<1> HIDE DEF i, u
<1>5. h \in Threads /\ Shown(h)
  <2>1. Shown(i) BY <1>1 DEF Shown
  <2> QED BY <1>1, <1>2, <2>1, ShutdownType, ShutdownReads
<1> HIDE DEF h
<1>6. y \in Threads /\ Shown(y) /\ Read(y) BY <1>5, StartupType, StartupReads DEF Shown
<1> HIDE DEF y
<1>7. z \in Threads /\ z.radio = y.radio /\ z.rig.actual = y.rig.actual
  BY <1>6 DEF Threads, Rigs
<1> HIDE DEF z
<1>8. u.radio = z.radio /\ u.rig.actual = z.rig.actual
  BY <1>3, <1>7, UpdateKeeps, UpdateReads
<1> QED BY <1>4, <1>6, <1>7, <1>8 DEF Agrees, Shown, Read, u

LEMMA SetAgrees ==
  ASSUME ~LagPtt, NEW x \in Threads, NEW s \in TransceiverState, NEW num \in Nat,
         NEW c, Connected(c) \in BOOLEAN, Up(x), Agrees(x)
  PROVE  Agrees(Set(x, s, num, Connected(c)))
<1> DEFINE linked == Connected(c)
           y == Steps(x, s, linked).done
           z == [y EXCEPT !.rig.requested.ptt = y.rig.actual.ptt, !.rig.num = num]
           u == Set(x, s, num, linked)
<1>1. y \in Threads /\ Shown(y) /\ Read(y) BY StepsType, StepsReads DEF Agrees
<1>2. u = Update(z, linked) BY DEF Set
<1>3. u.rig.last = u.rig.actual BY SetTells
<1> HIDE DEF y, u
<1>4. z \in Threads /\ z.radio = y.radio /\ z.rig.actual = y.rig.actual
  BY <1>1 DEF Threads, Rigs, TransceiverState
<1> HIDE DEF z
<1>5. u.radio = z.radio /\ u.rig.actual = z.rig.actual
  BY <1>2, <1>4, UpdateKeeps, UpdateReads
<1> QED BY <1>1, <1>3, <1>4, <1>5 DEF Agrees, Shown, Read, u

\* A poll that is not reported found PTT as it was.
LEMMA SyncAgrees ==
  ASSUME NEW x \in Threads, NEW linked \in BOOLEAN, Online(x), Agrees(x)
  PROVE  Agrees(Sync(x, linked))
<1> DEFINE p == Poll(x)
           z == [p EXCEPT !.rig.retries = 0, !.rig.next = p.rig.actual,
                          !.rig.signalled = p.rig.actual]
           w == [p EXCEPT !.rig.retries = IF @ > 0 THEN @ - 1 ELSE 0]
           u == Update(z, linked)
<1>1. /\ p \in Threads /\ p.radio = x.radio /\ p.rig.actual.ptt = x.radio.shown.ptt
      /\ p.rig.last = x.rig.last
  BY PollType, PollReads, DriverUp
<1>2. Sync(x, linked) \in {u, w} BY DEF Sync
<1> HIDE DEF p
<1>3. 0 \in 0..Polls BY RadioAssumption
<1>4. z \in Threads /\ z.radio = p.radio /\ z.rig.actual = p.rig.actual
  BY <1>1, <1>3 DEF Threads, Rigs
<1>5. w.radio = p.radio /\ w.rig.actual = p.rig.actual /\ w.rig.last = p.rig.last
  BY <1>1 DEF Threads, Rigs
<1> HIDE DEF w
<1>6. u.radio = z.radio /\ u.rig.actual = z.rig.actual /\ u.rig.last = z.rig.actual
  <2> DEFINE e == [op |-> "update", s |-> z.rig.actual, num |-> z.rig.num]
             y == Emit(z, linked, e)
  <2> HIDE DEF z
  <2>1. e \in Events BY <1>4 DEF Threads, Rigs, Events
  <2>2. y \in Threads /\ y.rig = z.rig /\ y.radio = z.radio BY <1>4, <2>1, EmitKeeps
  <2>3. u = [y EXCEPT !.rig.last = z.rig.actual] BY DEF Update
  <2> HIDE DEF y, u
  <2> QED BY <2>2, <2>3 DEF Threads, Rigs
<1> HIDE DEF z, u
<1> QED BY <1>1, <1>2, <1>4, <1>5, <1>6 DEF Agrees, Shown, Read

LEMMA AgreesNext ==
  ASSUME NEW y, rig' = y.rig, radio' = y.radio, Agrees(y) PROVE Agrees(Here)'
BY DEF Agrees, Shown, Read, Online, Here

LEMMA StartKeepsAgreed ==
  ASSUME ~LagPtt, RigInv, Agrees(Here), StartRig \/ \E drops \in Drops : StartFails(drops)
  PROVE  Agrees(Here)'
<1> DEFINE linked == Connected(conf')
           call == Head(conf.calls)
<1>1. Here \in Threads /\ Shown(Here) BY RigInvMeaning DEF Agrees
<1>2. Taken("start") BY DEF StartRig, StartFails
<1>3. conf' \in Confs /\ call.num \in Nat BY <1>2, TakenType DEF Calls
<1>4. linked \in BOOLEAN BY <1>3, ConnectedType
<1>5. CASE StartRig
  <2> DEFINE y == Start(Here, call.num, linked)
  <2>1. Becomes(y) BY <1>5 DEF StartRig
  <2>2. Agrees(y) BY <1>1, <1>3, <1>4, StartAgrees
  <2> HIDE DEF y
  <2> QED BY <2>1, <2>2, AgreesNext DEF Becomes
<1>6. ASSUME NEW drops \in Drops, StartFails(drops) PROVE Agrees(Here)'
  <2> DEFINE i == [Here EXCEPT !.rig = Instance]
             u == Update(i, linked)
             y == Offline(u, linked, drops)
  <2>1. drops \in BOOLEAN BY RadioAssumption DEF Drops
  <2>2. i \in Threads /\ i.radio = Here.radio BY <1>1, InstanceType DEF Threads
  <2>3. Becomes(y) BY <1>6 DEF StartFails
  <2> HIDE DEF i
  <2>4. u \in Threads /\ u.radio = Here.radio BY <1>4, <2>2, UpdateKeeps
  <2>5. Shown(u) BY <1>1, <2>4 DEF Shown
  <2> HIDE DEF u
  <2>6. Shown(y) /\ ~Online(y) BY <1>4, <2>1, <2>4, <2>5, OfflineFails
  <2> HIDE DEF y
  <2> QED BY <2>3, <2>6, AgreesNext DEF Becomes, Agrees
<1> QED BY <1>5, <1>6

LEMMA SetKeepsAgreed ==
  ASSUME ~LagPtt, RigInv, Up(Here), Agrees(Here),
         SetRig \/ \E drops \in Drops : SetFails(drops)
  PROVE  Agrees(Here)'
<1> DEFINE linked == Connected(conf')
           call == Head(conf.calls)
<1>1. Here \in Threads BY RigInvMeaning
<1>2. Taken("set") BY DEF SetRig, SetFails
<1>3. conf' \in Confs /\ call.num \in Nat /\ call.s \in TransceiverState
  BY <1>2, TakenType DEF Calls
<1>4. linked \in BOOLEAN BY <1>3, ConnectedType
<1>5. CASE SetRig
  <2> DEFINE y == Set(Here, call.s, call.num, linked)
  <2>1. Becomes(y) BY <1>5 DEF SetRig
  <2>2. Agrees(y) BY <1>1, <1>3, <1>4, SetAgrees
  <2> HIDE DEF y
  <2> QED BY <2>1, <2>2, AgreesNext DEF Becomes
<1>6. ASSUME NEW drops \in Drops, SetFails(drops) PROVE Agrees(Here)'
  <2>1. drops \in BOOLEAN BY RadioAssumption DEF Drops
  <2>2. PICK x \in Steps(Here, call.s, linked).thrown :
          Becomes(Offline(Update(x, linked), linked, drops))
    BY <1>6 DEF SetFails
  <2> DEFINE u == Update(x, linked)
             y == Offline(u, linked, drops)
  <2>3. x \in Threads /\ Shown(x)
    BY <1>1, <1>3, <1>4, StepsType, StepsReads DEF Agrees
  <2>4. u \in Threads /\ Shown(u) BY <1>4, <2>3, UpdateKeeps DEF Shown
  <2>5. Becomes(y) BY <2>2
  <2> HIDE DEF u
  <2>6. Shown(y) /\ ~Online(y) BY <1>4, <2>1, <2>4, OfflineFails
  <2> HIDE DEF y
  <2> QED BY <2>5, <2>6, AgreesNext DEF Becomes, Agrees
<1> QED BY <1>5, <1>6

LEMMA StopKeepsAgreed ==
  ASSUME ~LagPtt, RigInv, Agrees(Here), NEW drops \in Drops, StopRig(drops)
  PROVE  Agrees(Here)'
<1> DEFINE y == Shutdown(Here, FALSE, drops)
<1>1. Here \in Threads /\ Shown(Here) BY RigInvMeaning DEF Agrees
<1>2. Becomes(y) BY DEF StopRig
<1>3. drops \in BOOLEAN /\ FALSE \in BOOLEAN BY RadioAssumption DEF Drops
<1>4. Shown(y) /\ ~Online(y) BY <1>1, <1>3, ShutdownType, ShutdownReads
<1> HIDE DEF y
<1> QED BY <1>2, <1>4, AgreesNext DEF Becomes, Agrees

LEMMA PollKeepsAgreed ==
  ASSUME ~LagPtt, RigInv, Agrees(Here), PollTimer \/ \E drops \in Drops : PollFails(drops)
  PROVE  Agrees(Here)'
<1> DEFINE linked == Connected(conf)
<1>1. Here \in Threads /\ conf \in Confs /\ Shown(Here) /\ Here.rig = rig
  BY RigInvMeaning DEF Agrees, Here
<1>2. linked \in BOOLEAN BY <1>1, ConnectedType
<1>3. CASE PollTimer
  <2> DEFINE y == Sync(Here, linked)
  <2>1. Becomes(y) /\ Online(Here) BY <1>1, <1>3 DEF PollTimer, Online
  <2>2. Agrees(y) BY <1>1, <1>2, <2>1, SyncAgrees
  <2> HIDE DEF y
  <2> QED BY <2>1, <2>2, AgreesNext DEF Becomes
<1>4. ASSUME NEW drops \in Drops, PollFails(drops) PROVE Agrees(Here)'
  <2>1. drops \in BOOLEAN BY RadioAssumption DEF Drops
  <2>2. PICK x \in {Here, PollFrequency(Here)} : Becomes(Offline(x, linked, drops))
    BY <1>4 DEF PollFails
  <2> DEFINE y == Offline(x, linked, drops)
  <2>3. x \in Threads /\ Shown(x) BY <1>1, PollType DEF Shown
  <2>4. Becomes(y) BY <2>2
  <2>5. Shown(y) /\ ~Online(y) BY <1>2, <2>1, <2>3, OfflineFails
  <2> HIDE DEF y
  <2> QED BY <2>4, <2>5, AgreesNext DEF Becomes, Agrees
<1> QED BY <1>3, <1>4

LEMMA RadioKeepsAgreed ==
  ASSUME RigInv, Agrees(Here), Settle \/ \E f \in Frequencies : TurnDial(f)
  PROVE  Agrees(Here)'
<1> DEFINE y == [Here EXCEPT !.radio = radio']
<1>1. radio \in Radios BY RigInvMeaning DEF Here, Threads
<1>2. rig' = rig BY DEF Settle, TurnDial
<1>3. radio.shown.ptt = radio.ptt BY DEF Agrees, Shown, Here
<1>4. radio'.ptt = radio.ptt /\ radio'.shown.ptt = radio.shown.ptt
  <2>1. CASE Settle BY <1>1, <1>3, <2>1 DEF Settle, Radios, Shows
  <2>2. ASSUME NEW f \in Frequencies, TurnDial(f)
        PROVE  radio'.ptt = radio.ptt /\ radio'.shown.ptt = radio.shown.ptt
    BY <1>1, <2>2 DEF TurnDial, Radios, Shows
  <2> QED BY <2>1, <2>2
<1>5. y.rig = rig /\ y.radio = radio' /\ Here.rig = rig /\ Here.radio = radio BY DEF Here
<1> HIDE DEF y
<1>6. Agrees(y) BY <1>4, <1>5 DEF Agrees, Shown, Read, Online
<1> QED BY <1>2, <1>5, <1>6, AgreesNext

\* The GUI thread touches neither instance nor radio.
LEMMA SlotKeepsAgreed ==
  ASSUME Agrees(Here), UNCHANGED <<rig, radio>> PROVE Agrees(Here)'
BY AgreesNext DEF Here

LEMMA NextKeepsAgreed ==
  ASSUME ~LagPtt PROVE RigInv /\ SeenInv /\ Agrees(Here) /\ [Next]_rigVars => Agrees(Here)'
<1> SUFFICES ASSUME RigInv, SeenInv, Agrees(Here), [Next]_rigVars PROVE Agrees(Here)'
  OBVIOUS
<1>1. Up(Here) BY SeenMeaning
<1>2. CASE TakeCall
  BY <1>1, <1>2, StartKeepsAgreed, SetKeepsAgreed, StopKeepsAgreed DEF TakeCall
<1>3. CASE PollTimer BY <1>3, PollKeepsAgreed
<1>4. CASE DriverThrows
  BY <1>1, <1>4, StartKeepsAgreed, SetKeepsAgreed, PollKeepsAgreed DEF DriverThrows
<1>5. CASE Settle \/ \E f \in Frequencies : TurnDial(f) BY <1>5, RadioKeepsAgreed
<1>6. CASE Gui BY <1>6, SlotKeepsAgreed DEF Gui, HandleUpdate, HandleFailure
<1>7. CASE Client
  BY <1>7, SlotKeepsAgreed DEF Client, Tune, Key, Reopen, Settings, Leave, ClientCall
<1>8. CASE UNCHANGED rigVars BY <1>8, SlotKeepsAgreed DEF rigVars
<1> QED BY <1>2, <1>3, <1>4, <1>5, <1>6, <1>7, <1>8 DEF Next

LEMMA InitAgrees == Init => Agrees(Here)
<1> SUFFICES ASSUME Init PROVE Agrees(Here) OBVIOUS
<1>1. PICK f \in Frequencies :
        radio = [freq |-> f, ptt |-> FALSE, shown |-> [freq |-> f, ptt |-> FALSE]]
  BY DEF Init, RigInit
<1>2. ~Online(Here) BY DEF Init, RigInit, Here, Online, Instance, Unknown
<1>3. Shown(Here) BY <1>1 DEF Shown, Here
<1> QED BY <1>2, <1>3 DEF Agrees

LEMMA QuietAgrees == RigInv /\ SeenInv /\ Agrees(Here) => PttSeen
<1> SUFFICES ASSUME RigInv, SeenInv, Agrees(Here), Quiet PROVE view.ptt = radio.ptt
  BY DEF PttSeen
<1>1. view = rig.last BY QuietSeen DEF UpdatesSeen
<1>2. Online(Here) /\ Here.rig = rig /\ Here.radio = radio BY DEF Quiet, Online, Here
<1> QED BY <1>1, <1>2 DEF Agrees, Read

\* For a radio that shows PTT at once, every command carried out and nothing on its
\* way: the clients see PTT as the radio has it, also if PTT could not be dropped.
THEOREM PttSeenAsItIs == ASSUME ~LagPtt PROVE Spec => []PttSeen
<1>1. RigInv /\ NumberInv /\ [Next]_rigVars => NumberInv' /\ ReportStep BY NextReports
<1>2. Init => NumberInv BY InitReports
<1>3. Spec => []NumberInv BY <1>1, <1>2, RigInvariance, PTL DEF Spec
<1>4. Spec => []SeenInv BY <1>3, RigInvariance, InitSeenInv, NextKeepsSeen, PTL DEF Spec
<1>5. RigInv /\ SeenInv /\ Agrees(Here) /\ [Next]_rigVars => Agrees(Here)'
  BY NextKeepsAgreed
<1>6. Spec => []Agrees(Here) BY <1>4, <1>5, RigInvariance, InitAgrees, PTL DEF Spec
<1> QED BY <1>4, <1>6, RigInvariance, QuietAgrees, PTL
=============================================================================
