# FT8-GO: a formal model of the program's control logic

FT8-GO is a WSJT-X derivative that runs FT8 contacts by itself: it answers
stations, queues those that call meanwhile, gives up on those that do not
answer, and logs.  These TLA+ modules model the parts of it that decide
*what happens next*.  Signal processing and layout are left out.  Paths are
relative to `src/`; `mainwindow.cpp` is `widgets/mainwindow.cpp`.

## 1. The system

| Component | State | Operations | Hard behaviour | What makes it correct |
|---|---|---|---|---|
| **QSO sequencer and call queue** (`mainwindow.cpp`, `logqso.cpp`, `decodedtext.cpp`) | mode (CQ, listen, manual), `m_auto`, `m_hisCall`, `m_callInProg`, `m_ntx`, `m_msgMap` (the queue), reports sent and received, fail counts, repeat count | decoded line, end of transmission, slot change, log timer and dialog, some fifteen operator commands | lines of one slot arrive one by one while an answer is already chosen; three paths end a contact; late, repeated or out-of-order messages | the members tell one story; nobody takes over a contact in which reports were exchanged; only completed contacts are logged; every call ends |
| **Rig control** (`Configuration.cpp`, `TransceiverBase.cpp`, `PollingTransceiver.cpp`) | cached state and command number on the GUI thread; requested, actual, last, expected state on the rig's thread | open, close, frequency, PTT; start, set, stop, poll; update, failure | two threads that meet in queues; exceptions in the middle of a command; a radio that shows changes late | commands are applied; reports come in order and never from before the newest command; PTT is released |
| **Transmit sequencer** (`guiUpdate`, `startTx2`, `stopTx`, `stopTx2`, `Modulator.cpp`) | `g_iptt`, `m_transmitting`, `m_tx_when_ready`, `ptt0Timer`, `ptt1Timer`, `logQSOTimer` | a 100 ms tick, PTT confirmation, timers, Stop Tx | single-shot timers that outlive the transmission that started them; a rig and an audio thread that lag behind; failures in mid-transmission | PTT comes down after every transmission, nothing is sent in the other periods, no audio once halted |
| **Decoder process** (`lib/jt9a.f90`, `decode`, `decodeDone`, `subProcessFailed`, `closeEvent`) | the marker files `.lock` and `.quit`, `m_decoderBusy`, where jt9 is | request, answer, start and end of jt9, failure | a handshake by files that jt9 looks at every 10 ms; files and processes that a crash leaves behind | a decode asked for ends; one at a time; a new jt9 is not stopped by an old marker |
| **Settings** (`MultiSettings.cpp`) and **start-up** (`main.cpp`) | the settings file, the current configuration, what the next main window is to find | select, clone, reset, rename, delete; close, reposition, start | a command takes effect over a restart of the main window, in three writes; `closeEvent` may refuse | a configuration changes only by a command about it |
| **Log files, worked-before index, exchange with LoTW** (`acceptQSO`, `uploadLotw`, `downloadLotw`, `WorkedBefore.cpp`) | `wsjtx_log.adi`, `lotw.adi` and its copy, the index, `m_logbookRead`, `dnLotw`, `upLotw` | log, upload, download, load the index, rescan | processes and a load that end at any time; contacts logged meanwhile; message boxes in the middle of a slot | no contact is lost; decodes are held back during an exchange, and not for ever |
| **UDP messages** (`MessageClient.cpp`, `MessageServer.cpp`) | negotiated schema, backlog, lookups under way, blocked addresses; clients known, their ports and when heard | heartbeat, status, close, commands, host lookup, expiry | loss, repetition, reordering; a name that changes while its lookup is under way; restarts | everything sent can be read; clients that are there are known, those gone forgotten; PSK Reporter is left alone |
| **LoTW users, PSK Reporter's queue, WSPRnet, WSPR scheduling, audio, lists, Cabrillo, drivers of other rig programs** | see section 6 | | | |

They interact in few places.  The decoder process prints lines that
`readFromStdout` takes one at a time.  `guiUpdate` looks at the clock and at what
the sequencer left (`m_auto`, `m_ntx`, `m_txFirst`), raises PTT through
`Configuration`, and `handle_transceiver_update` starts the audio when an update
says PTT is on.  The end of a transmission calls `stopTx`, which is the
sequencer again.  `acceptQSO` ends a contact in the log files, and while these are
exchanged with LoTW `m_logbookRead` keeps `readFromStdout` from handing lines to
the sequencer.  `closeEvent` ends the decoder process, refuses while an exchange
runs, and is how every command about the current configuration takes effect: `main`
then swaps the configurations and opens another main window with another jt9.
Everything but the rig, the audio devices, the asynchronous loads and the processes
runs on the GUI thread, so the interleavings of the sequencer are those of
its Qt slots: one slot is one action.

## 2. Modules

| Module | Role |
|---|---|
| `CallQueue` | the sequencer, one action per slot |
| `MCCallQueue` | the messages and commands of its runs |
| `CallQueueProofs` | type correctness, two invariants and six action properties |
| `Rig` | rig control: both threads, their queues and the radio |
| `RigReports` | the abstract specification `Rig` implements |
| `RigProofs` | type correctness, four invariants and the refinement of `RigReports` |
| `MCRig`, `RigClaims` | constants; a statement of a comment the code does not keep |
| `Transmit` | the transmit sequencer, composed with `Rig` (it `EXTENDS` it) |
| `TransmitProofs` | type correctness, three properties, `PttSeen` and the refinement, under the sequencer |
| `MCTransmit`, `TransmitClaims` | constants; a statement of the user guide the code does not keep |
| `Decoder` | jt9 and the half of `MainWindow` that drives it |
| `DecoderProofs` | its two invariants and an action property |
| `Settings` | `MultiSettings`, its file and the main loop |
| `Configurations` | the abstract specification `Settings` implements |
| `SettingsProofs` | the refinement, and its invariant |
| `Session` | `Decoder` and `Settings` composed over the loop of `main` |
| `SessionProofs` | the composition keeps what is proved of the parts |
| `LogFiles` | the log files, the index and the exchange with LoTW |
| `LogFilesProofs` | type correctness and its two invariants |
| `Messages` | UDP client and servers over an unreliable network |
| `MessagesProofs` | type correctness and its two invariants |

`CallQueue`, `LogFiles` and `Messages` stand alone; `Transmit` and `Session` are
compositions.  The proofs hold for all values of the constants that the named
`ASSUME`s allow.

### CallQueue

`st` is one record with the members of `MainWindow`; the record's definition says
which field is which member.  A member function called by a slot is an operator
from state to state (`SetCallInProg`, `ProcessMessage`, `TxWatchdog`, ...), so an
action composes every call its slot makes, in the order of the code: `EndTx` is
`stopTx`, `DecodeLine` is `readFromStdout` for one line, `SlotEnds` is
`decodeBusy(true)` with the clock, and so on.

* Time is counted in slots.  `st.phase` is what `guiUpdate` can still do in the
  current slot: `due` (a transmission begins at once), `early` (it can still
  begin late), `sent`, `cut` and `over`.  `st.tx = "late"` is a transmission
  that began, or whose message was replaced, too late to count
  (`m_txStartDt`), `"cut"` one that `guiUpdate` stops at its next tick.
* A message is its kind, the parity of its slot and its age in slots.  Kinds are
  what the code tells apart (`is_cq`, `is_report`, `is_73`, directed CQ, ...).
* `heldOn` observes the message sent last and how often in a row, since the contact
  began, was logged or the operator acted; nothing but `heldOn` reads it.  `left`
  counts the bounded lines and commands down.

Not modelled: confirmation of calls by the operator (`cbConfStart`), added
"other" calls (`cbAddOther`), the ignore list, contest exchanges, the Tx message
chosen by hand and UDP replies.  `HoldRepeat` stands for the constant 50 of
`stopTx`, kept small so that the runs reach it.  Ages do not wrap at midnight.

### Rig

`conf` is `Configuration::impl` with the calls it has posted; `rig`
the Transceiver instance; `events` what it posted back; `radio` the hardware with
what it *shows* to a poll, which may lag (`LagFreq`, `LagPtt`, action `Settle`);
`view` is `MainWindow::m_rigState`.  A posted call runs as one action of the rig's
thread.  `Steps` follows `TransceiverBase::set` call by call and also gives the
states in which one of the driver's calls may have thrown, before or after the
radio obeyed.  Signals of an instance that was told to stop no longer reach the
GUI (`Connected`), while those already posted are still handled (`Drained`: Qt
delivers them before any later event).  A failed instance can come back to life:
a command sent before the failure was handled starts it again.

Simplex operation only: Tx frequency, modes, offset and calibration are left
out.  The drivers are Hamlib's `do_ptt`, `do_frequency` and `poll`.  Polling is on
(an interval of 0 switches it off).

`RigReports` is what clients rely on: since their newest command the rig reported
some states, and the clients see exactly those, in order.  `Rig` implements it
with `reports` mapped to the updates in transit that carry the newest number.

### Transmit

The sequencer is the rig's client here: `Transmit` takes the rig's thread and the
members of `Configuration` from `Rig` as they are and puts `MainWindow` in the
place of `Client`.  `tx` holds the transmit members (`g_iptt`, `m_iptt0`,
`m_btxok`, `m_btxok0`, `m_transmitting`, `m_tx_when_ready`, `m_auto`,
`m_txFirst`, `m_monitoring`) and the two PTT timers.  `Tick` is the whole of
`guiUpdate`: it moves the clock and runs `Sequence`, `Begin` and `End` in the order
of the code, so that a transmission may be keyed, begun and ended within one tick.
`EndTimer` and `DelayTimer` are `stopTx2` and `startTx2`; `TxHandleUpdate` and
`TxHandleFailure` are the slots of `MainWindow` together with those of
`Configuration` that call them.  `audio` is the modulator on its own thread and
the calls posted to it (`endTransmitMessage`, `sendMessage`).  That
`startTx2` looks at the modulator before a posted call has reached it (`TODO - not
thread safe` in the code) is kept.

* The clock counts ticks of `guiUpdate`, scaled (`Period`, `TxEnd`,
  `LateStart`): `SlotAssumption` asks of it only that a gap between two
  transmissions is longer than the end delay, as 2 s against 0.2 s is.
* A timer fires between one tick before and the tick at which it is due; the tick
  waits for it.  A tick also waits while more than `MaxBacklog` calls or updates
  lie in the queues between the threads, which bounds how far the rig may be behind.
* Whether there is a message is open at every tick (`msg`): choosing it is
  `CallQueue`.
* FT8, no Tune, simplex; nobody turns the dial; the settings dialog stays closed;
  Monitor comes on with the rig, and `monitor_last_used` is off.

### Decoder

jt9 looks for two files in a directory: it waits (label 10) until `.lock` is gone,
decodes, prints `<DecodeFinished>` and waits (label 100) until `.lock` is back.
`MainWindow` removes the file to ask (`decode`), puts it back when it reads the answer
(`decodeDone`), and makes `.quit` to end jt9 (`closeEvent`).  `gui` holds the
members of `MainWindow`, `files` the markers, `jt` the place of every jt9 ever started
(one that a crash left behind still reads the markers of the next main window),
`pipe` the answers not read yet.  A step of jt9 is one look at a file or one decode.

* `DataSink`, at the end of a receive period, asks without looking at
  `m_decoderBusy`; the operator's requests (`DecodeAgain`) do look.
* `CloseEnds` is `waitForFinished(1000)` and what follows: jt9 has ended or is killed.
  That `waitForFinished` may deliver an answer, which puts `.lock` back, is kept.
* `Unseen` is the state of a request that came in the 10 ms at most in which jt9's answer
  was read and jt9 had not yet seen `.lock` come back (`InGap`); section 4.
* A crashed jt9 is reported once (`m_valid`); whether the close() that follows is
  refused is left open.

### Settings and Configurations

`ini` is the settings file: the current configuration at its root, the others in a
group each.  `ms` holds the members of `MultiSettings::impl` and where the main loop is:
`Boot` is the constructor and the first reposition (with `--config`); `save`, `load` and
`finish` are the steps of `reposition`, between two syncs each.  A command about the
current configuration (`Restarts`) only sets up what is to happen and calls close();
a command about another one (`MenuStep`) writes the file at once.  `live` is what the
main window would write; `updating` says that `closeEvent` would refuse.

`Configurations` is what an operator thinks of: names with values, one of them
current.  `Settings` implements it by the mapping `Seen`, which puts the file back
together at every step of `reposition`.  The values of one configuration are one datum;
what all configurations share (`set_common_value`) is left out.

### Session

`main` constructs a main window, runs it, and calls `MultiSettings::exit`.
`Session` joins the steps of `Decoder` and `Settings` that are one event: opening a
window, closing it (a click or a command of the menu), its end, and a crash of the
program.  All else interleaves.  The lock file of an instance is taken as granted.

### LogFiles

A file is the set of contacts in it.  `win` holds the members of `MainWindow` and the
index, `load` the load of the index (a future of another thread, with what it has read),
`proc` the script and tqsl with how they ended.  A message box in the middle of a slot
(`downloadLotwFinished`, `uploadLotwFinished`) runs an event loop, so those slots are two
actions each, with everything else possible between.  Pointers are `null`,
`live`, `told` (the box is open) or `stale` (deleted by `lotwError` and not null).
`acceptQSO` writes to `lotw.adi` what was logged, and to `wsjtx_log.adi` and the index
what `m_hisCall` says.  Left out: the backup copies of the log, the extra file of
POTA, lookups by band and mode.

### Messages

`client` is `MessageClient::impl`, `entry` the record of the one client that each
server keeps, `net` the datagrams.  A datagram has a port of the client, a type (what the
two sides tell apart) and the schema it is written with.  The network may keep what it
delivers and lose what is too much for it (`Put`), in any order.  `lookups` are the DNS
answers to come; they carry the name they answer, and the code compares it with
nothing.  `builds` is what each party was built with.  A send that is skipped as a
repetition (`last_message_`) is like one that is lost.  `ReporterFound` is the slot that
`PSK_Reporter` calls with its own DNS answer.  Left out: what the messages say, a
change of the port of the servers, several clients, multicast.

## 3. Runs

| Run | Question | Checked | Size |
|---|---|---|---|
| `Contacts` | contacts with interruptions, repeats and late sign-offs | `TypeOK QueueInPeriod RepeatLimit LoggedWhenExchanged NoHijack` | 620 000 states |
| `Operator` | commands of the operator at any point | `QsoConsistent SentReportsExpire QueueInPeriod StopStaysStopped QueuedUntilServed RepeatLimit` | 1 260 000 states |
| `Progress` | do the automatic modes come to rest in silence | `SilenceEndsCalls` under `FairSpec` | 100 s |
| `Rig` | faults, polls, changed settings, updates in transit | `TypeOK PttReleased PttApplied PttSeen ReportsInOrder` | 860 000 states |
| `RigSettles` | does the view catch up with the radio | `UpdatesSeen ViewSettles` under `FairSpec` | 230 000 states |
| `Transmit` | PTT and slots with Halt Tx, a failing rig and changes of the period | `TxTypeOK PttIsDropped KeyedForTransmission SendsInSlot` | 2 600 000 states |
| `Session` | decoders and configurations over several main windows | `SessionTypeOK OneDecodeAtATime StaysWhileOpen CurrentIsNoGroup DecodesEnd LostOnlyInGap SwapEnds ConfigurationsKept` under `SessionFairSpec` | 522 000 states |
| `LogFiles` | contacts, exchanges, loads and crashes | `LogTypeOK NothingLost HeldBack ComesBack` under `LogFairSpec` | 195 000 states |
| `Messages` | negotiation and expiry over a bad network | `MessagesTypeOK Readable ReporterSpared KnownAgain Forgotten` under `MessagesFairSpec` | 175 000 states |
| `PttClaim` | a rig claim | `PttFollows`, violated | seconds |
| `HaltClaim` | a transmit claim | `HaltSilences`, violated | seconds |
| `CloseClaim` | a claim of the log book | `RefusesOnlyWhileUpdating`, violated | seconds |

Bounds of the sequencer.  Two stations are enough for every rule that concerns
"the call in progress" and "another call"; a third would only lengthen the
queue.  Four lines carry a whole contact of one station
with interruptions by the other, and are decoded in any order, from any slot.
Limits of 2 and a hold of 3 put the first transmission, the last repeat and the
time-out within reach.  `Progress` has 3 and 4, so that a CQ heard again can start the count
anew in the middle; `MaxLines` is where its silence begins.
`MaxAge = 2` in `Operator` lets calls and reports expire in mid-contact; the other
runs switch expiry off (0), so that their ages cannot differ.  Commands
are bounded because every one may come at any moment: pairs in `Operator`,
one choice of mode in the others.

Bounds of the rig.  Three commands open a rig, key it, and leave one to change
the settings, tune or drop PTT at any moment; two frequencies tell an old one from
a new one; `Polls = 2` (the code has 3) keeps a poll that waits and one that gives
up.  `RigSettles` adds the turn of the dial and a driver that fails even
while PTT is dropped.

Bounds of the transmit sequencer.  Two keyings show a transmission after another,
with the timers of the first still running; four clicks enable, halt, change the
period and enable again; one failure of the rig may come in any of its calls.  A
period of 6 ticks, 3 of them for transmitting and 2 for a late start, has one tick
of each kind (late start allowed, too late, gap, other period).  Delays of one tick
already overlap every other event; `HaltClaim` has delays of 2 so that the
counterexample does not hang on the order of two events of one tick.

Bounds of `Session`.  Three main windows, because a marker left by the first must be
met by the second and may be met again by what the second leaves.  One fault is enough for
each kind of crash; a crash and a jt9 left behind already overlap a whole later window.  Three
names: the current one, another, and one that is free or the target of a copy.  Two
values tell a configuration from a copy of another.  `CrashInSwap` is
set so that what is claimed is what holds (section 4 says what does not).

Bounds of `LogFiles`.  Two contacts, one logged before and one while tqsl runs.
Three exchanges: one that fails, its repetition, and a download after it.  One rescan,
one crash.  `CloseClaim` needs two exchanges and one crash.

Bounds of `Messages`.  One server, because the servers share nothing but the client,
and the name may also be PSK Reporter's or empty; two starts of the client, so that what
the first said meets the second; two datagrams in the network overtake
each other.  The proofs of `Readable` and `ReporterSpared` have any number of
servers, starts, changes and datagrams.

`CHECK_DEADLOCK FALSE` is set for the runs of `MCRig` and `RigClaims`, where with the
commands used up and no poll running nothing more happens, and for those of `Session`,
`LogFiles` and `Messages`, where the program is closed for good once its starts are
used up, or waits with all its bounds used.

What is stated, and what would break it:

* `QsoConsistent`: `m_hisCall`, `m_callInProg` and `m_ntx` are written in different
  slots; a slot that clears one and forgets another breaks it.
* `NoHijack`: a decoded line never takes over a contact in which
  reports were exchanged.
* `LoggedWhenExchanged`: what a decode or the end of a transmission logs was
  exchanged both ways, once (with automatic logging; the log dialog shows the operator
  which call he logs).
* `RepeatLimit`: in CQ mode nobody is sent the same message in one contact as often as
  the limit says (or the hold, when held) without the contact being given up.  The
  count starts anew when a contact begins or is logged and when the operator acts.
  Listen mode has one more such event, a wanted CQ heard again (section 4).
* `QueueInPeriod`: no step brings a call into the queue, or leaves it there, that cannot be
  answered in our period; changes of the period by the operator or by an answered
  call included.  Two exceptions are named: `decodeInSequence` queued an earlier report
  of the station just decoded, or the line came before `guiUpdate` stopped a
  transmission that is to end early, within 100 ms.
* `QueuedUntilServed`: a queued call leaves the queue only by being
  answered, given up, logged, expiring or on command.
* `StopStaysStopped`: after Stop Tx nothing but a command of the operator enables Tx.
* `SentReportsExpire`: a report on file as sent always has the time at which it expires.
* `SilenceEndsCalls`: once the band falls silent a call in progress ends, whatever was heard
  before.  While lines go on coming it need not: a partner who sends something
  else each time is answered each time, and in listen mode a wanted CQ heard again starts the
  count anew (section 4).
* `PttReleased`: an instance that is offline left the radio unkeyed.
* `PttApplied`: with every command carried out, PTT is as asked (for a radio that
  answers polls about PTT at once; `PttClaim` shows what happens with one that lags).
* `ReportsInOrder`: the refinement of `RigReports`.
* `UpdatesSeen`: no update that matters is discarded: with every command carried out
  and nothing on its way, the clients have seen what the instance reported last.  The
  numbers may drop any update posted before a command is carried out; only the forced
  one at the end of `start` and `set` makes up for them.
* `PttSeen`: and they see PTT as the radio has it; the sequencer starts the audio on it.
* `PttIsDropped`: PTT is asked for only while a transmission is on or the end
  delay runs, whatever was halted, re-enabled or failed in between.
* `KeyedForTransmission`: the same of the radio itself, once it has carried out
  every command; this one needs the rig to apply PTT as well.
* `SendsInSlot`: after each tick, a station that sends is in its own part of the
  periods: a transmission ends on a falling edge that is seen only between two
  ticks, also if the operator changes the period in it.
* `ViewSettles`: an open rig ends up online and its clients see it as it is.

* `OneDecodeAtATime`: what jt9 works on and what it has answered are at most one decode,
  and `m_decoderBusy` says so, although `DataSink` does not look at it.
* `StaysWhileOpen`: the jt9 of an open window never quits, whatever `.quit` a crash left.
* `DecodesEnd`: `m_decoderBusy` does not stay set without a word to the operator, unless
  the request was `Unseen`.
* `LostOnlyInGap`: no other request becomes `Unseen`, although `DataSink` asks in any state of
  the handshake.
* `CurrentIsNoGroup`: the current configuration is not in the file twice.
* `ConfigurationsKept`: the refinement of `Configurations`.
* `SwapEnds`: a window that is closing is followed by another one or by the end.
* `NothingLost`: a contact is in `lotw.adi` until tqsl has taken it, whatever is logged
  while tqsl runs, and whatever crashes.
* `HeldBack`: while a process for LoTW runs, decodes and further exchanges are held back.
* `ComesBack`: they do not stay held back.
* `Readable`: every datagram in the network uses a schema that its receiver can read.
* `ReporterSpared`: once PSK Reporter's address is known it is not the server.
* `KnownAgain`: a client that stays is known to its server again and again.
* `Forgotten`: a client that is gone or has another server is forgotten.
* `PttFollows`, `HaltSilences`, `RefusesOnlyWhileUpdating`: see section 4.

Fairness.  `CallQueue`: the clock (`guiUpdate` timer and slots), the end of the
decoder's output and the log timer; nobody is obliged to call, click or close the
dialog.  `Rig`: the rig's thread takes its calls and its poll timer fires, the GUI
handles its events, and the radio eventually shows its state.  Each is an event
loop with posted events or a repeating timer.  Faults, turns of the dial and
commands are never fair.
`Decoder` and `Session`: Qt delivers what a process printed and that it ended, `waitForFinished`
has a time limit, the main loop goes on, and the newest jt9 gets processor time and ends
its decodes.  A jt9 left behind by a crash is not fair.  `LogFiles`: threads, scripts and
tqsl end, Qt delivers that they did, and the operator closes a message box that he caused;
he is not obliged to log, exchange or close.  `Messages`: the timers of both sides run
(weak), and of the heartbeats that are sent again and again some arrive (strong); nothing
else is assumed of the network, and nothing of the operator or of DNS.

## 4. Where the code departs from its texts

Three `violation` runs, each with a finding in `PROJECT.json` that quotes the text:

* `PttClaim`: with a radio that reports PTT late, a command during a transmission makes
  the later PTT-off a no-op.
* `HaltClaim`: a Halt Tx during the Tx delay is followed by the audio, with PTT already
  lowered.
* `CloseClaim`: after an error of a process for LoTW (`lotwError`) the pointer of the
  deleted process stays, the window refuses to close and no exchange can be started.

Behaviours met while modelling.  They are in the models unless it says otherwise.  Where a
text says something near, it is quoted; where none does, it is for the reader to judge.

Sequencer.

* A wanted CQ heard again while listening restarts the repeat limit (`mainwindow.cpp:6235`);
  the tool tip speaks of identical transmissions only (`mainwindow.ui:1294`).
* A locked period is flipped by an earlier report of the other period
  (`mainwindow.cpp:4441`); the tool tip says "no automatic changes" (`mainwindow.ui:1212`).
* Logging a late 73 of an earlier station ends the contact in progress
  (`mainwindow.cpp:1822`), although the decode itself is ignored "for QSO progress" (4380).
  `acceptQSO` enters `m_hisCall`, the current partner, in the index (7394).
* A call queued late in a CQ transmission is looked at only when the next contact ends;
  CQ mode goes on calling CQ meanwhile.

Rig and transmitter.

* An update in transit overwrites the cached frequency that the next command sends
  (`Configuration.cpp:2756`), so that the radio goes back to it; `Transceiver.hpp:122`
  speaks of avoiding "unwanted ping-pong".
* `ptt0Timer` is not stopped: enable Tx again within 200 ms of the end of a
  transmission, still in time for a late start, and it lowers the PTT of the new one,
  which goes on without.

Decoder.

* A decode asked for between jt9's answer being read and jt9's next look at `.lock`, at
  most 10 ms, does not start, although the removal of the file is to "Allow jt9 to start"
  (`mainwindow.cpp:3996`): jt9 never sees that the file was there, both wait for ever, and
  later requests of `DataSink` change nothing.  `DecodesEnd` without `~Unseen` fails; the
  trace is a decode, `DecodeDone`, and `DataSink` before `SeesLockBack`.  By `LostOnlyInGap`
  there is no other way to get there.
* A request of `DataSink` during a decode changes the samples under it, and that period's
  own decode is lost.
* `closeEvent` kills a jt9 that is not at label 10 within a second.
* If jt9 dies while a process for LoTW runs, close() is refused and not tried again; the
  window stays open without a decoder.

Settings.

* A crash between the syncs of `reposition` loses the values of a configuration:
  `ConfigurationsKept` fails with `CrashInSwap = TRUE`.
* Clone of the current configuration copies what was last written, not what is on the
  screen.
* `closeEvent` may refuse after `reposition` was set up; the model keeps this, and only the
  disabled menu (`mainwindow.cpp:1725`) excludes it.

Log files.

* The script replaces `wsjtx_log.adi` before it is known what came: with a wrong password it
  is a page of HTML although "Download failed" is shown, and after further attempts the
  backup copies with contacts are deleted (10526; the copies are not modelled).
* A contact logged while the index is loading is not in the new index; one logged during
  a download is not in the new `wsjtx_log.adi` either.  Both are in `lotw.adi`.
* A load that the Rescan button asked for sets `m_logbookRead` when it ends, in the middle of
  an exchange (the exception of `HeldBack`).
* With an empty `m_hisCall` nothing is written to `wsjtx_log.adi` (7394).

Messages.

* The client never goes back to a lower schema, so after a change to an older server its
  messages are not read: `Readable` needs `OneBuild`.
* A client known first from a message other than a heartbeat stays at schema 2 until it
  expires.
* A DNS answer for an earlier name replaces the newer server, even after the name was
  emptied (`MessageClient.cpp:103`).
* The backlog grows without bound after a lookup that failed or was blocked; the model keeps
  only which schemas it has.
* A client that crashed and was started again before it expired keeps its old port in the
  server's entry (`MessageServer.cpp:151`), so commands do not reach it.
* The expiry equals the interval of the heartbeats, so that one lost heartbeat, or a coarse timer,
  is enough to forget a client that is there.

## 5. Proofs

`CallQueueProofs` proves, for every number of stations, every setting and all
bounds, from the named `ASSUME`s of `CallQueue` only:

* `Invariance`: `Spec => []IInv`, with
  `IInv == TypeOK /\ QsoConsistent /\ SentReportsExpire`;
* `TypeCorrect`, `QsoStaysConsistent`, `NoReportWithoutTime`: the three parts;
* `StoppedUntilCommand`: `Spec => StopStaysStopped`;
* `ContactNotHijacked`: `Spec => NoHijack`;
* `AutoLogsExchanged`: `ASSUME AutoLog PROVE Spec => LoggedWhenExchanged`;
* `RepeatsLimited`: `Spec => RepeatLimit`;
* `QueueStaysInPeriod`: `Spec => QueueInPeriod`;
* `QueuedCallsServed`: `Spec => QueuedUntilServed`.

Neither `QsoConsistent` nor `SentReportsExpire` is inductive without types, and `QsoConsistent` needs
its own conjuncts about the message being sent.  A slot is a
composition of member functions, so the proof is one too: `Coherent` states
(well typed, consistent, reports with times) are kept by every member function
under its precondition, one lemma each.  Some
(`ProcessMessage`, `TxWatchdog`) cite the lemmas of the functions they call.
One lemma per slot composes these, and `NextKeepsIInv` has a step per action.

The others are about steps and follow the same path.  `Stopped` (manual mode, Enable
Tx off) is kept by every member function but `ProcessMessage`, and `DecodeKeepsStopped`
shows that a decode does not get there: in manual mode with Tx disabled only a 73 to us is
looked at, and a 73 ends the contact.  `Kept` says of a member function that it logs
nothing, starts no log timer and reads no decode; what is left are the few calls of `InitLogQSO`,
whose call is `m_hisCall` or the station of the line, both checked for two reports.
`ContactNotHijacked` needs `QsoConsistent`: were `m_hisCall` another station than
`m_callInProg`, a late 73 would be logged for the wrong one.  `AutoLog` is needed:
without it the log timer may find an automatic mode switched on, and logs `m_hisCall` unchecked
(TLC finds this with the constants of `Operator`).

`RepeatsLimited` needs an invariant of its own, `RunCounted`: in CQ mode the observer's count
is at most one more than `m_dupTxCount`, the program's own.  `stopTx` compares the latter
with the limit, so a message sent as often as the limit ends the contact, which resets
the observer.  That no other slot lowers `m_dupTxCount` in mid-contact is what has to be shown
(`SameRun`, one lemma per member function).

For the queue, relations between the state before and after a member function are
composed along each slot: `SameQueue`, `SamePeriod` (a call enters only in our period) and
`Drops` (what is dropped lies in a given set, unless the period changes), with
`DropsLogged` for what was logged.  `QueueStaysInPeriod` also needs the invariant
`TxInSlot`: a transmission that is not being stopped is in our slot, so a line
decoded meanwhile is not in it.  Its negation is the second exception of `QueueInPeriod`.

`RigProofs` proves, for every set of frequencies, number of polls, kind of radio and
all bounds, from the `ASSUME`s of `Rig`:

* `RigInvariance`: `Spec => []RigInv`, and `RigTypeCorrect`: `Spec => []TypeOK`;
* `OfflineUnkeyed`: `ASSUME ~DropFails PROVE Spec => []PttReleased`;
* `PttEndsAsAsked`: `ASSUME ~LagPtt, ~DropFails PROVE Spec => []PttApplied`;
* `ReportsStayInOrder`: `Spec => ReportsInOrder`, the refinement of `RigReports`;
* `NothingUnseen`: `Spec => []UpdatesSeen`;
* `PttSeenAsItIs`: `ASSUME ~LagPtt PROVE Spec => []PttSeen`.

`PttReleased` alone is not inductive: starting a new instance replaces `rig`
without touching the radio, so if the old one were still online and keyed, nobody
would unkey it.  `Handover` excludes that: in the queue of posted calls a start
follows exactly a stop, a start at the head finds an instance that is offline, and
with nothing queued a closed rig is offline.  The lemmas treat the
operators of the rig's thread one by one, then the queue (`HandoverAppend`,
`HandoverTail`), then the members of `Configuration::impl`; the actions compose them.

`PttApplied` speaks of empty queues only; `PttInv` says what holds on the way there.
`Mirrors`: between two calls the radio shows PTT as it is, and an instance that is online
has it as read and as requested.  `Latest`: a start asks for PTT off, and the newest call
of an active rig asks for what is cached.  `Applied`: an instance whose signals arrive is
online or about to be started, and once the queue is empty the radio is as cached; or else
a failure is on its way to the GUI, which will close the rig.  Both assumptions are needed:
a radio that shows PTT late is the violation run `PttClaim`, and one that stays keyed after
a stop or a failure is keyed when the next instance starts, which takes PTT to be off.

`ReportsStayInOrder` maps each step of rig control to a step of `RigReports` or a stutter.  The
mapping keeps of the posted updates the `Fresh` ones, those that carry the number of the newest
command.  The invariant is `NumberInv`: the numbers of the commands in the queue increase and
lie above the rig's and not above the newest, and no update carries a number above it.  So a
new command makes every update stale (`Command` of the abstract specification empties its
queue), a step of the rig's thread appends at most one fresh update (`ReportsOnce`), and the GUI
takes the first.  `Fresh` is a recursive function, and the library's facts
on recursion are out of this prover's reach; `FreshCollects` shows that its
equation has a solution, by hand, with an induction over sets of naturals (`EveryNat`).

`UpdatesSeen` needs `SeenInv`.  `Numbered`: the newest command of an active rig is the last
in the queue, or carried out.  `Up`: an instance that is online read that it is.  `Told`: from
then on what was reported last is the last of the `Fresh` updates, or the view if there
is none.  `Told` begins with the forced update of `start` and `set` (`UpdateTells`) and
is kept by each step that appends or removes an update.  It assumes nothing of the radio.
`PttSeen` adds `Agrees`: between two calls PTT was read and reported as it is.  Here `~LagPtt`
is needed, `~DropFails` is not: the clients are told of a PTT that stayed on.

`TransmitProofs` extends `RigProofs`, and proves for every length of period and
delays that `SlotAssumption` allows:

* `TxInvariance`: `TxSpec => []TxInv`, and `TxTypeCorrect`: `TxSpec => []TxTypeOK`;
* `PttAlwaysDropped`: `TxSpec => []PttIsDropped`;
* `SlotsKept`: `TxSpec => SendsInSlot`;
* `KeyedOnlyToTransmit`: `ASSUME ~LagPtt, ~DropFails PROVE TxSpec => []KeyedForTransmission`;
* `SequencerSeesReports`: `TxSpec => ReportsInOrder`;
* `SequencerSeesPtt`: `ASSUME ~LagPtt PROVE TxSpec => []PttSeen`.

`TxInv` takes `RigInv` over (the lemmas of the rig's thread are reused, those of its
clients are not) and adds `Edges`: between two ticks a station is keyed,
transmitting and seen as keyed by the next tick, or none of these, and a keyed one
had `m_btxok` at the last tick, so that its falling edge cannot be missed.  `SendsInSlot` follows from
the lemma of the tick, in which `Sequence`, `Begin` and `End` have a lemma each.
`KeyedForTransmission` combines `Dropped` with `PttInv`, which the slots of the sequencer
keep as any client of the rig does.  `SequencerSeesReports` reuses the lemmas of the rig's
thread in the same way: what the sequencer's slots post are commands (`Commanded`), and one
slot may post several, each of which makes what was fresh stale.  That they are numbered
also gives `SequencerSeesPtt`; neither of the two is checked in the run `Transmit`.

`DecoderProofs` proves `DecodesAlone` (`OneDecodeAtATime`) and
`NeverQuitsEarly` (`StaysWhileOpen`) from `DecoderInv`.  Neither is inductive: `Handshake`
says for each place of jt9 whether `.lock` is there, whether an answer is in the pipe and
whether `m_decoderBusy` is set, which is the protocol that the files make.  A jt9 that a
crash left behind cannot disturb it, because it only reads.  `OnlyTheGapLoses`
(`LostOnlyInGap`) follows step by step from the types: the lemma `LostInGap` is stated for
what an open window and the processes do, so that `Session` can use it
(`SessionLosesInGap`).

`SettingsProofs` proves `ConfigurationsStay` (`ASSUME ~CrashInSwap`, the refinement of
`Configurations`) and `CurrentOnce`.  `SwapInv` says what the file and the members are in
every step of `reposition`: the group of the new configuration is still there and equal to what is
loaded, the old one is saved before it is purged.  Then each action of `Settings` maps to one
of `Configurations` or to a stutter.

`SessionProofs` lifts both: a step of the composition is a step of `Settings` or leaves it
alone (`SessionHasSettings`), and keeps the handshake.

`LogFilesProofs` proves `ContactsKept` (`NothingLost`) and `ExchangesHoldBack` (`HeldBack`)
from `LogInv`.  `UploadInv` says that the copy is part of `lotw.adi` while tqsl is the
window's own, and taken once tqsl said so; equal sizes then mean equal files (a fact about
cardinalities).  `ReadInv` says that exchanges exclude each other and the loads that end them.

`MessagesProofs` proves `ReporterStaysSpared` from `PartsInv`, the parts of the state one
by one, and `EverythingReadable` (`ASSUME OneBuild`) from `AgreedInv`: every schema kept
or sent, by anyone, is one that all parties read.

Every invariant, action property and refinement of the passing runs has its theorem.  Only
model-checked are `SilenceEndsCalls`, `ViewSettles`, `DecodesEnd`, `SwapEnds`, `ComesBack`,
`KnownAgain` and `Forgotten`: liveness under fairness is beyond the prover.

## 6. Not modelled, and why

* In `CallQueue`: UDP replies, the confirmation of calls, added "other" calls, the ignore
  list, contest exchanges, Tx messages chosen by hand.  Each adds a way to choose a call;
  what becomes of a chosen call is modelled.  Message times do not wrap at 0000 UTC.
* In `Rig` and `Transmit`: split operation and its emulation, modes, offset and calibration
  (arithmetic on a frequency that is passed on), Tune, WSPR and Echo.
* Drivers of other rig programs (HRD, DX Lab Suite, OmniRig): protocols with programs whose
  behaviour the repository does not define.
* WSPR scheduling and band hopping, WSPRnet, LoTW users, the queue of PSK Reporter: separate
  small parts with one timer or one download each, whose failures lose spots and nothing else.
* In `Settings`: values that all configurations share; in `LogFiles` the backup copies, and a
  `lotw.adi` that cannot be opened, of which the operator is told (7411).
* Signal processing and audio: numerical code.  Its effect, lines in any order and decodes
  that end or crash, is in `CallQueue` and `Decoder`.
* Widgets, table models, Cabrillo and Fox logs: no behaviour over several steps.
