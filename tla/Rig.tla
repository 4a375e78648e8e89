--------------------------------- MODULE Rig ---------------------------------
(***************************************************************************)
(* Rig control: Configuration::impl on the GUI thread, and on a thread of  *)
(* its own the Transceiver instance it creates (TransceiverBase with       *)
(* PollingTransceiver, the Hamlib driver below it).  The threads only meet *)
(* in the queues of their posted calls: start, set and stop to the rig's   *)
(* thread, update and failure back to the GUI.  Commands are numbered, and *)
(* an update carries the number of the last command carried out before it. *)
(*                                                                         *)
(* Simplex operation (split mode off, so no Tx frequency), mode UNK.  A    *)
(* member function is an operator from the state of its thread before the  *)
(* call to the state after it.                                             *)
(***************************************************************************)
EXTENDS Naturals, Sequences

CONSTANTS
  Frequencies,   \* dial frequencies, positive
  Polls,         \* polls_to_stabilize
  LagFreq, LagPtt,  \* the radio shows a new frequency, a new PTT state late
  DropFails,     \* PTT may fail to drop while the connection is shut down
  MaxCommands,   \* bound: calls of Configuration by its client
  MaxTurns,      \* bound: turns of the radio's dial
  MaxFaults      \* bound: exceptions of the driver

ASSUME FrequencyAssumption == Frequencies \subseteq Nat \ {0} /\ Frequencies # {}
ASSUME RadioAssumption == Polls \in Nat /\ LagFreq \in BOOLEAN /\ LagPtt \in BOOLEAN
                            /\ DropFails \in BOOLEAN
ASSUME RigBoundAssumption ==
  MaxCommands \in Nat /\ MaxTurns \in Nat /\ MaxFaults \in Nat

VARIABLES
  conf,   \* Configuration::impl, with the calls it posted to the rig's thread
  rig,    \* the Transceiver instance
  events, \* what it posted to the GUI
  radio,  \* the hardware, and what it shows to a poll
  view,   \* the state last passed on to clients: MainWindow's m_rigState
  budget  \* bounds: commands, turns and faults still to come

rigVars == <<conf, rig, events, radio, view, budget>>

TransceiverState == [online : BOOLEAN, freq : Frequencies \cup {0}, ptt : BOOLEAN]
Unknown == [online |-> FALSE, freq |-> 0, ptt |-> FALSE]   \* default constructed

-----------------------------------------------------------------------------
(* Configuration::impl, on the GUI thread. *)

Post(c, op) ==
  [c EXCEPT !.num = @ + 1,
            !.calls = IF c.active
                        THEN Append(@, [op |-> op, s |-> c.cached, num |-> c.num + 1])
                        ELSE @]

CloseRig(c) ==
  IF ~c.active THEN c
  ELSE [c EXCEPT !.active = FALSE,
                 !.calls = Append(@, [op |-> "stop", s |-> Unknown, num |-> 0])]

\* open_rig for parameters that did not change.
OpenRig(c) ==
  IF c.active THEN c
  ELSE Post([c EXCEPT !.active = TRUE, !.cached = Unknown], "start")

TransceiverFrequency(c, f) ==
  Post([c EXCEPT !.cached.online = TRUE, !.cached.freq = f], "set")

TransceiverPtt(c, on) ==
  Post([c EXCEPT !.cached.online = TRUE, !.cached.ptt = on], "set")

\* The cache follows the rig before the number is looked at.
FollowRig(c, s) ==
  LET d == [c EXCEPT !.cached.online = s.online, !.cached.freq = s.freq]
  IN IF s.online THEN d ELSE CloseRig(d)

\* An instance is connected until it is told to stop: a call taken from the queue
\* belongs to the instance before the next stop.
Connected(c) == c.active /\ \A i \in DOMAIN c.calls : c.calls[i].op # "stop"
-----------------------------------------------------------------------------
(* TransceiverBase and PollingTransceiver, on the rig's thread: operators on *)
(* x, the instance, the radio and the posted events; linked says whether its signals *)
(* still reach the GUI.                                                      *)

Instance ==       \* a new instance, before start
  [requested |-> Unknown, actual |-> Unknown, last |-> Unknown,
   next |-> Unknown, signalled |-> Unknown, retries |-> 0, num |-> 0]

Emit(x, linked, e) ==
  IF linked THEN [x EXCEPT !.events = Append(@, e)] ELSE x

Update(x, linked) ==
  [Emit(x, linked, [op |-> "update", s |-> x.rig.actual, num |-> x.rig.num])
     EXCEPT !.rig.last = x.rig.actual]

\* do_pre_update: a change that is expected is awaited.
PreUpdate(r) == r.retries = 0 \/ r.actual = r.next

UpdateComplete(x, linked) ==
  IF PreUpdate(x.rig) /\ x.rig.actual # x.rig.last THEN Update(x, linked) ELSE x

Expect(r, s) == IF r.next = s THEN r ELSE [r EXCEPT !.next = s, !.retries = Polls]

\* What the radio does with a command; its answer may get lost after that.
RadioPtt(x, on) ==
  [x EXCEPT !.radio.ptt = on, !.radio.shown.ptt = IF LagPtt THEN @ ELSE on]
RadioFrequency(x, f) ==
  [x EXCEPT !.radio.freq = f, !.radio.shown.freq = IF LagFreq THEN @ ELSE f]

DoPtt(x, on) ==
  [RadioPtt(x, on) EXCEPT
     !.rig = Expect([@ EXCEPT !.actual.ptt = on], [@.next EXCEPT !.ptt = on])]

DoFrequency(x, f) ==
  [RadioFrequency(x, f) EXCEPT
     !.rig = Expect([@ EXCEPT !.actual.freq = f, !.requested.freq = f],
                    [@.next EXCEPT !.freq = f])]

PollFrequency(x) ==
  [x EXCEPT !.rig.actual.freq = x.radio.shown.freq,
            !.rig.requested.freq = x.radio.shown.freq]
Poll(x) == [PollFrequency(x) EXCEPT !.rig.actual.ptt = x.radio.shown.ptt]

\* Mutant.
ShutdownRequested(x, linked, drops) ==   \* PTT dropped only when recorded as on
  LET y == IF x.rig.requested.ptt /\ drops THEN DoPtt(x, FALSE) ELSE x
  IN UpdateComplete([y EXCEPT !.rig.actual.online = FALSE,
                              !.rig.requested.online = FALSE], linked)

Shutdown(x, linked, drops) ==
  LET y == IF x.rig.requested.online /\ drops THEN DoPtt(x, FALSE) ELSE x
  IN UpdateComplete([y EXCEPT !.rig.actual.online = FALSE,
                              !.rig.requested.online = FALSE], linked)

Startup(x) ==
  LET y == Poll(x)                  \* do_start ends with a poll
  IN [y EXCEPT !.rig = Expect([@ EXCEPT !.actual.online = TRUE, !.requested.online = TRUE],
                              [@.next EXCEPT !.online = TRUE])]

Offline(x, linked, drops) ==
  Shutdown(Emit(x, linked, [op |-> "failure", s |-> Unknown, num |-> 0]), linked, drops)

Start(x, num, linked) ==
  LET y == Startup(Shutdown([x EXCEPT !.rig = Instance], linked, TRUE))
  IN Update([y EXCEPT !.rig.num = num], linked)

\* The calls set makes, in their order, as far as they apply: the state after all
\* of them, and the states in which one of them may have thrown.
Steps(x, s, linked) ==
  LET a   == IF x.rig.requested.online THEN x ELSE Startup(Shutdown(x, linked, TRUE))
      off == ~s.ptt /\ a.rig.requested.ptt
      on  == s.ptt /\ ~a.rig.requested.ptt
      b   == IF off THEN DoPtt(a, FALSE) ELSE a
      qsy == s.freq # 0 /\ (s.freq # b.rig.requested.freq \/ off)
      d   == IF qsy THEN DoFrequency(b, s.freq) ELSE b
  IN [done   |-> IF on THEN DoPtt(d, TRUE) ELSE d,
      thrown |-> (IF x.rig.requested.online THEN {} ELSE {Shutdown(x, linked, TRUE)})
                   \cup (IF off THEN {a, RadioPtt(a, FALSE)} ELSE {})
                   \cup (IF qsy THEN {b, RadioFrequency(b, s.freq)} ELSE {})
                   \cup (IF on THEN {d, RadioPtt(d, TRUE)} ELSE {})]

\* Mutant.
SetNoRecord(x, s, num, linked) ==        \* requested_.ptt not recorded
  Update([Steps(x, s, linked).done EXCEPT !.rig.num = num], linked)

\* Mutant.
SetUnforced(x, s, num, linked) ==        \* may_update without force
  LET y == Steps(x, s, linked).done
  IN UpdateComplete([y EXCEPT !.rig.requested.ptt = y.rig.actual.ptt, !.rig.num = num], linked)

\* Mutant.
SetNumberLate(x, s, num, linked) ==      \* the number recorded after the update
  LET y == Steps(x, s, linked).done
  IN [Update([y EXCEPT !.rig.requested.ptt = y.rig.actual.ptt], linked) EXCEPT !.rig.num = num]

\* PTT as it is now counts as requested.
Set(x, s, num, linked) ==
  LET y == Steps(x, s, linked).done
  IN Update([y EXCEPT !.rig.requested.ptt = y.rig.actual.ptt, !.rig.num = num], linked)

\* Mutant.
SyncUnguarded(x, linked) ==        \* retries_ counted down without a look at it
  LET p == Poll(x)
      signal == IF p.rig.retries > 0
                  THEN p.rig.actual = p.rig.next \/ p.rig.retries = 1
                  ELSE p.rig.actual # p.rig.signalled
  IN IF signal THEN Update([p EXCEPT !.rig.retries = 0, !.rig.next = p.rig.actual,
                                     !.rig.signalled = p.rig.actual], linked)
     ELSE [p EXCEPT !.rig.retries = @ - 1]

\* Mutant.
SyncExpected(x, linked) ==         \* only what was expected is signalled
  LET p == Poll(x)
      signal == p.rig.retries > 0 /\ (p.rig.actual = p.rig.next \/ p.rig.retries = 1)
  IN IF signal THEN Update([p EXCEPT !.rig.retries = 0, !.rig.next = p.rig.actual,
                                     !.rig.signalled = p.rig.actual], linked)
     ELSE [p EXCEPT !.rig.retries = IF @ > 0 THEN @ - 1 ELSE 0]

\* A poll: what was expected arrived, or is not awaited any longer, or the radio
\* changed by itself.
Sync(x, linked) ==
  LET p == Poll(x)
      signal == IF p.rig.retries > 0
                  THEN p.rig.actual = p.rig.next \/ p.rig.retries = 1
                  ELSE p.rig.actual # p.rig.signalled
  IN IF signal THEN Update([p EXCEPT !.rig.retries = 0, !.rig.next = p.rig.actual,
                                     !.rig.signalled = p.rig.actual], linked)
     ELSE [p EXCEPT !.rig.retries = IF @ > 0 THEN @ - 1 ELSE 0]
-----------------------------------------------------------------------------
(* The rig's thread: one posted call after another, and the poll timer. *)

RigInit ==
  /\ conf = [active |-> FALSE, num |-> 0, cached |-> Unknown, calls |-> <<>>]
  /\ rig = Instance
  /\ events = <<>>
  /\ \E f \in Frequencies :
       radio = [freq |-> f, ptt |-> FALSE, shown |-> [freq |-> f, ptt |-> FALSE]]
  /\ view = Unknown

Here == [rig |-> rig, radio |-> radio, events |-> events]
Becomes(x) == rig' = x.rig /\ radio' = x.radio /\ events' = x.events

\* The next call of op, taken from the queue.
Taken(op) ==
  /\ conf.calls # <<>> /\ Head(conf.calls).op = op
  /\ conf' = [conf EXCEPT !.calls = Tail(@)]

Fault == budget.faults > 0 /\ budget' = [budget EXCEPT !.faults = @ - 1]

StartRig ==
  /\ Taken("start")
  /\ Becomes(Start(Here, Head(conf.calls).num, Connected(conf')))
  /\ UNCHANGED <<view, budget>>

StartFails(drops) ==
  /\ Taken("start") /\ Fault
  /\ LET linked == Connected(conf')
         x == [Here EXCEPT !.rig = Instance]
     IN Becomes(Offline(Update(x, linked), linked, drops))
  /\ UNCHANGED view

SetRig ==
  /\ Taken("set")
  /\ Becomes(Set(Here, Head(conf.calls).s, Head(conf.calls).num, Connected(conf')))
  /\ UNCHANGED <<view, budget>>

SetFails(drops) ==
  /\ Taken("set") /\ Fault
  /\ LET linked == Connected(conf')
     IN \E x \in Steps(Here, Head(conf.calls).s, linked).thrown :
          Becomes(Offline(Update(x, linked), linked, drops))
  /\ UNCHANGED view

StopRig(drops) ==
  /\ Taken("stop")
  /\ Becomes(Shutdown(Here, FALSE, drops))
  /\ UNCHANGED <<view, budget>>

PollTimer ==
  /\ rig.requested.online
  /\ Becomes(Sync(Here, Connected(conf)))
  /\ UNCHANGED <<conf, view, budget>>

PollFails(drops) ==
  /\ rig.requested.online /\ Fault
  /\ \E x \in {Here, PollFrequency(Here)} : Becomes(Offline(x, Connected(conf), drops))
  /\ UNCHANGED <<conf, view>>

Drops == {TRUE, ~DropFails}
TakeCall == StartRig \/ SetRig \/ \E drops \in Drops : StopRig(drops)
DriverThrows == \E drops \in Drops : StartFails(drops) \/ SetFails(drops) \/ PollFails(drops)

\* The radio shows what it was told.
Settle ==
  /\ radio' = [radio EXCEPT !.shown = [freq |-> radio.freq, ptt |-> radio.ptt]]
  /\ radio' # radio
  /\ UNCHANGED <<conf, rig, events, view, budget>>

TurnDial(f) ==
  /\ f # radio.freq /\ budget.turns > 0
  /\ budget' = [budget EXCEPT !.turns = @ - 1]
  /\ radio' = [radio EXCEPT !.freq = f, !.shown.freq = f]
  /\ UNCHANGED <<conf, rig, events, view>>
-----------------------------------------------------------------------------
(* The GUI thread: the events of the rig, and the client's commands. *)

\* Mutant.
HandleUpdateAny ==                       \* the number not looked at
  /\ events # <<>> /\ Head(events).op = "update"
  /\ conf' = FollowRig(conf, Head(events).s)
  /\ view' = Head(events).s
  /\ events' = Tail(events)
  /\ UNCHANGED <<rig, radio, budget>>

HandleUpdate ==
  /\ events # <<>> /\ Head(events).op = "update"
  /\ conf' = FollowRig(conf, Head(events).s)
  /\ view' = IF Head(events).num = conf.num THEN Head(events).s ELSE view
  /\ events' = Tail(events)
  /\ UNCHANGED <<rig, radio, budget>>

HandleFailure ==
  /\ events # <<>> /\ Head(events).op = "failure"
  /\ conf' = CloseRig(conf)
  /\ events' = Tail(events)
  /\ UNCHANGED <<rig, radio, view, budget>>

\* What a closed rig posted is handled before any other slot of the GUI.
Drained == conf.active \/ events = <<>>

ClientCall(c) ==
  /\ Drained /\ budget.commands > 0
  /\ budget' = [budget EXCEPT !.commands = @ - 1]
  /\ conf' = c
  /\ UNCHANGED <<rig, radio, events, view>>

Tune(f)  == ClientCall(TransceiverFrequency(OpenRig(conf), f))     \* setRig
Key(on)  == ClientCall(TransceiverPtt(conf, on))
Reopen   == ~conf.active /\ ClientCall(OpenRig(conf))
Settings == conf.active /\ ClientCall(OpenRig(CloseRig(conf)))     \* other parameters
Leave    == conf.active /\ ClientCall(CloseRig(conf))              \* closeEvent

Client == \/ \E f \in Frequencies : Tune(f)
          \/ \E on \in BOOLEAN : Key(on)
          \/ Reopen \/ Settings \/ Leave

Init == RigInit /\ budget = [commands |-> MaxCommands, turns |-> MaxTurns, faults |-> MaxFaults]
Gui  == HandleUpdate \/ HandleFailure
Next == \/ TakeCall \/ PollTimer \/ DriverThrows
        \/ Settle \/ Gui \/ Client
        \/ \E f \in Frequencies : TurnDial(f)

Spec == Init /\ [][Next]_rigVars

\* Both threads run and the radio gets round to showing its state.
FairSpec == /\ Spec
            /\ WF_rigVars(TakeCall) /\ WF_rigVars(PollTimer)
            /\ WF_rigVars(Gui) /\ WF_rigVars(Settle)
-----------------------------------------------------------------------------
(* Properties *)

TypeOK ==
  /\ conf \in [active : BOOLEAN, num : Nat, cached : TransceiverState,
               calls : Seq([op : {"start", "set", "stop"}, s : TransceiverState, num : Nat])]
  /\ rig \in [requested : TransceiverState, actual : TransceiverState,
              last : TransceiverState, next : TransceiverState,
              signalled : TransceiverState, retries : 0..Polls, num : Nat]
  /\ events \in Seq([op : {"update", "failure"}, s : TransceiverState, num : Nat])
  /\ radio \in [freq : Frequencies, ptt : BOOLEAN, shown : [freq : Frequencies, ptt : BOOLEAN]]
  /\ view \in TransceiverState
  /\ budget \in [commands : 0..MaxCommands, turns : 0..MaxTurns, faults : 0..MaxFaults]

\* The states reported by the updates with a number.
Fresh(es, num) ==
  LET upTo[i \in 0..Len(es)] ==
        IF i = 0 THEN <<>>
        ELSE IF es[i].op = "update" /\ es[i].num = num
               THEN Append(upTo[i - 1], es[i].s)
               ELSE upTo[i - 1]
  IN upTo[Len(es)]

\* The clients' view of the rig never goes back to what it was before their
\* newest command (Transceiver.hpp: the number avoids "ping-pong").
Reports == INSTANCE RigReports WITH
  reports <- Fresh(events, conf.num), States <- TransceiverState
ReportsInOrder == Reports!Spec

\* An instance that went offline, by a failure or because it was told to stop,
\* leaves the radio unkeyed.
PttReleased == ~rig.requested.online => ~radio.ptt

\* Once commands, faults and turns of the dial are over, a rig that is open is
\* online and its clients see it as it is.
ViewSettles ==
  <>[](conf.active => /\ rig.requested.online /\ view.online
                      /\ view.freq = radio.freq /\ view.ptt = radio.ptt)

Quiet == conf.active /\ conf.calls = <<>> /\ events = <<>> /\ rig.requested.online

\* No update gets lost or overtaken between the threads: every command carried out and
\* nothing on its way, the clients have seen what the instance reported last, whichever
\* updates were discarded for their numbers.
UpdatesSeen == Quiet => view.online /\ view = rig.last

\* And they see PTT as the radio has it: the sequencer starts the audio when it sees
\* PTT on.
PttSeen == Quiet => view.ptt = radio.ptt

\* Every command carried out, PTT is what was asked for last, whatever came
\* between: polls, other commands, a new instance.
PttApplied == Quiet => radio.ptt = conf.cached.ptt
=============================================================================
