----------------------------- MODULE Messages -----------------------------
(***************************************************************************)
(* The UDP messages between the program (MessageClient) and the programs   *)
(* that listen to it (MessageServer).  Datagrams are lost, repeated and    *)
(* reordered.  A client announces itself by a Heartbeat, and the two agree *)
(* on a schema, the encoding of the rest; a server forgets a client that   *)
(* says Close or is silent.  The client looks the name of its server up in *)
(* DNS, keeps what it has to say until the answer, and refuses the address *)
(* of PSK Reporter.                                                        *)
(*                                                                         *)
(* One client, whose id the servers know it by; the port of the servers is *)
(* part of their name.  The contents of messages are left out, so any      *)
(* message may be one that the client leaves out as a repetition           *)
(* (last_message_).                                                        *)
(***************************************************************************)
EXTENDS Naturals, FiniteSets

CONSTANTS
  Servers,      \* addresses with a MessageServer
  Reporter,     \* the address of PSK Reporter
  OneBuild,     \* the servers are built with the same Qt
  MaxStarts,    \* bound: starts of the client
  MaxChanges,   \* bound: changes of the server name, and retries
  MaxFaults,    \* bound: datagrams repeated, crashes of the client, restarts of a server
  MaxInFlight   \* bound: datagrams in the network; more push others out

ASSUME MessagesAssumption ==
  /\ Reporter \notin Servers /\ "" \notin Servers \cup {Reporter}
  /\ "client" \notin Servers
  /\ OneBuild \in BOOLEAN
  /\ MaxStarts \in Nat /\ MaxChanges \in Nat /\ MaxFaults \in Nat /\ MaxInFlight \in Nat

VARIABLES
  builds,   \* the highest schema each party was built with (Builder::schema_number)
  client,   \* the members of MessageClient::impl, see Client
  lookups,  \* names whose DNS answer is still to come
  net,      \* datagrams in the network
  entry,    \* clients_ of each server, see Entry
  spent     \* how much of the bounds is used

messagesVars == <<builds, client, lookups, net, entry, spent>>

Schemas == {2, 3}
Names == Servers \cup {Reporter}
Ports == 1 .. MaxStarts   \* each start binds another one

Client ==
  [up : BOOLEAN,
   port : 0 .. MaxStarts,
   name : Names \cup {""},               \* server_string_
   server : Names \cup {""},             \* server_; "" is the null address
   blocked : BOOLEAN,                    \* blocked_addresses_ has Reporter
   schema : Schemas,
   pending : SUBSET Schemas]             \* the schemas used in pending_messages_

\* port: of the client.
Datagram == [to : Servers \cup {"client"}, port : Ports, schema : Schemas,
             type : {"Heartbeat", "Data", "Close", "Command"}]

\* aged: a tick has passed without a message.
Entry == [known : BOOLEAN, port : 0 .. MaxStarts, schema : Schemas, aged : BOOLEAN]
NoEntry == [known |-> FALSE, port |-> 0, schema |-> 2, aged |-> FALSE]

MessagesTypeOK ==
  /\ builds \in [Servers \cup {"client"} -> Schemas]
  /\ client \in Client
  /\ lookups \subseteq Names
  /\ net \subseteq Datagram
  /\ entry \in [Servers -> Entry]
  /\ spent \in [starts : 0 .. MaxStarts, changes : 0 .. MaxChanges, faults : 0 .. MaxFaults]

MessagesInit ==
  /\ builds \in [Servers \cup {"client"} -> Schemas]
  /\ OneBuild => \A s, t \in Servers : builds[s] = builds[t]
  /\ \E n \in Servers : client = [up |-> FALSE, port |-> 0, name |-> n, server |-> "",
                                blocked |-> FALSE, schema |-> 2, pending |-> {}]
  /\ lookups = {} /\ net = {}
  /\ entry = [s \in Servers |-> NoEntry]
  /\ spent = [starts |-> 0, changes |-> 0, faults |-> 0]

Fault == spent.faults < MaxFaults /\ spent' = [spent EXCEPT !.faults = @ + 1]

\* The network takes new; what is too much for it is lost.
Put(old, new) ==
  LET all == old \cup new
  IN IF Cardinality(all) <= MaxInFlight THEN net' = all
     ELSE \E kept \in SUBSET all : new \subseteq kept /\ Cardinality(kept) = MaxInFlight /\ net' = kept

\* A datagram is delivered; the network may keep a copy, rest has it or not.
Delivers(m, rest) == \/ rest = net \ {m} /\ UNCHANGED spent
                     \/ rest = net /\ Fault
-----------------------------------------------------------------------------
(* The client *)

\* What c writes reaches a server, if there is one at the address.
Written(c, type, schema) ==
  IF c.server \in Servers
    THEN {[to |-> c.server, port |-> c.port, type |-> type, schema |-> schema]} ELSE {}

\* The constructor: negotiation starts from 2.
StartClient ==
  /\ ~client.up /\ spent.starts < MaxStarts
  /\ spent' = [spent EXCEPT !.starts = @ + 1]
  /\ client' = [client EXCEPT !.up = TRUE, !.port = spent.starts + 1, !.server = "",
                              !.blocked = FALSE, !.schema = 2, !.pending = {}]
  /\ lookups' = {client.name} \ {""}
  /\ UNCHANGED <<builds, net, entry>>

\* set_server, of a changed setting or of Retry in the message box of an error.
SetServer(n) ==
  /\ client.up /\ spent.changes < MaxChanges
  /\ spent' = [spent EXCEPT !.changes = @ + 1]
  /\ client' = [client EXCEPT !.server = "", !.name = n]
  /\ lookups' = lookups \cup ({n} \ {""})
  /\ UNCHANGED <<builds, net, entry>>

Silenced(c) == [c EXCEPT !.pending = {}]

\* host_info_results with an error or the blocked address: the backlog is discarded.
\* With no address at all it stays.
LookupFails(n) ==
  /\ n \in lookups
  /\ lookups' = lookups \ {n}
  /\ client' \in {Silenced(client), client}
  /\ UNCHANGED <<builds, net, entry, spent>>

LookupAnswersUnchecked(n) ==
  /\ n \in lookups
  /\ lookups' = lookups \ {n}
  /\ LET c == [client EXCEPT !.server = n]
     IN client' = Silenced(c) /\ Put(net, Written(c, "Heartbeat", c.schema))
  /\ UNCHANGED <<builds, entry, spent>>

\* host_info_results with the address: a heartbeat, then the backlog.
LookupAnswers(n) ==
  /\ n \in lookups /\ ~(client.blocked /\ n = Reporter)
  /\ lookups' = lookups \ {n}
  /\ LET c == [client EXCEPT !.server = n]
     IN /\ client' = Silenced(c)
        /\ \E sent \in SUBSET c.pending :
             Put(net, Written(c, "Heartbeat", c.schema) \cup
                        UNION {Written(c, "Data", schema) : schema \in sent})
  /\ UNCHANGED <<builds, entry, spent>>

\* PSK_Reporter::dnsLookupResult: add_blocked_destination.
ReporterFound ==
  /\ client.up /\ ~client.blocked
  /\ client' = IF client.server = Reporter
                 THEN [Silenced(client) EXCEPT !.blocked = TRUE, !.server = ""]
                 ELSE [client EXCEPT !.blocked = TRUE]
  /\ UNCHANGED <<builds, lookups, net, entry, spent>>

\* Every NetworkMessage::pulse seconds.
HeartbeatUntilAgreed ==
  /\ client.up /\ client.server # "" /\ client.schema = 2
  /\ Put(net, Written(client, "Heartbeat", client.schema))
  /\ UNCHANGED <<builds, client, lookups, entry, spent>>

Heartbeat ==
  /\ client.up /\ client.server # ""
  /\ Put(net, Written(client, "Heartbeat", client.schema))
  /\ UNCHANGED <<builds, client, lookups, entry, spent>>

\* status_update, decode, qso_logged and the others, and send_message.
Say ==
  /\ client.up /\ client.name # ""
  /\ IF client.server = ""
       THEN client' = [client EXCEPT !.pending = @ \cup {client.schema}] /\ UNCHANGED net
       ELSE Put(net, Written(client, "Data", client.schema)) /\ UNCHANGED client
  /\ UNCHANGED <<builds, lookups, entry, spent>>

Stopped == [client EXCEPT !.up = FALSE, !.server = "", !.pending = {}]

\* closedown.
StopClient ==
  /\ client.up
  /\ Put(net, Written(client, "Close", client.schema))
  /\ client' = Stopped /\ lookups' = {}
  /\ UNCHANGED <<builds, entry, spent>>

CrashClient ==
  /\ client.up /\ Fault
  /\ client' = Stopped /\ lookups' = {}
  /\ UNCHANGED <<builds, net, entry>>

\* parse_message of the client; whichever server sent it.
ClientReceives(m) ==
  /\ client.up /\ m \in net /\ m.to = "client" /\ m.port = client.port
  /\ net' \in {net \ {m}, net} /\ Delivers(m, net')
  /\ client' = IF m.schema > builds["client"] THEN client    \* the Reader throws
               ELSE [client EXCEPT !.schema = IF m.schema > @ THEN m.schema ELSE @]
  /\ UNCHANGED <<builds, lookups, entry>>
-----------------------------------------------------------------------------
(* A server *)

OpenedBroken(s, m) ==
  IF entry[s].known THEN entry[s]
  ELSE [known |-> TRUE, port |-> m.port, aged |-> FALSE,
        schema |-> IF m.type # "Heartbeat" THEN 1
                   ELSE IF builds["client"] < builds[s] THEN builds["client"] ELSE builds[s]]

OpenedAsAsked(s, m) ==
  IF entry[s].known THEN entry[s]
  ELSE [known |-> TRUE, port |-> m.port, aged |-> FALSE,
        schema |-> IF m.type # "Heartbeat" THEN 2 ELSE builds["client"]]

\* The entry m finds, or the one it opens; only a heartbeat negotiates.
Opened(s, m) ==
  IF entry[s].known THEN entry[s]
  ELSE [known |-> TRUE, port |-> m.port, aged |-> FALSE,
        schema |-> IF m.type # "Heartbeat" THEN 2
                   ELSE IF builds["client"] < builds[s] THEN builds["client"] ELSE builds[s]]

\* The answer to a heartbeat that opens one.
Welcome(s, m) ==
  IF ~entry[s].known /\ m.type = "Heartbeat"
    THEN {[to |-> "client", port |-> m.port, type |-> "Heartbeat", schema |-> Opened(s, m).schema]}
    ELSE {}

\* parse_message of the server.
ServerReceives(s, m) ==
  /\ m \in net /\ m.to = s
  /\ \E rest \in {net \ {m}, net} :
       /\ Delivers(m, rest)
       /\ IF m.schema > builds[s] THEN net' = rest /\ UNCHANGED entry   \* the Reader throws
          ELSE /\ Put(rest, Welcome(s, m))
               /\ entry' = [entry EXCEPT ![s] =
                              IF m.type = "Close" THEN NoEntry
                              ELSE [Opened(s, m) EXCEPT !.aged = FALSE]]
  /\ UNCHANGED <<builds, client, lookups>>

\* reply, replay, halt_tx and the others.
Asks(s) ==
  /\ entry[s].known
  /\ Put(net, {[to |-> "client", port |-> entry[s].port, type |-> "Command", schema |-> entry[s].schema]})
  /\ UNCHANGED <<builds, client, lookups, entry, spent>>

TickNeverAgain(s) ==
  /\ entry[s].known /\ ~entry[s].aged
  /\ entry' = [entry EXCEPT ![s].aged = TRUE]
  /\ UNCHANGED <<builds, client, lookups, net, spent>>

\* tick: who was silent for longer than pulse seconds goes.  The timer has the same
\* period, but is a coarse one, so the first tick may be late enough.
Tick(s) ==
  /\ entry[s].known
  /\ \/ entry' = [entry EXCEPT ![s] = NoEntry]
     \/ ~entry[s].aged /\ entry' = [entry EXCEPT ![s].aged = TRUE]
  /\ UNCHANGED <<builds, client, lookups, net, spent>>

RestartServer(s) ==
  /\ Fault
  /\ entry' = [entry EXCEPT ![s] = NoEntry]
  /\ UNCHANGED <<builds, client, lookups, net>>
-----------------------------------------------------------------------------
MessagesNext ==
  \/ StartClient \/ ReporterFound \/ Heartbeat \/ Say \/ StopClient \/ CrashClient
  \/ \E n \in Names \cup {""} : SetServer(n)
  \/ \E n \in Names : LookupFails(n) \/ LookupAnswers(n)
  \/ \E m \in net : ClientReceives(m) \/ \E s \in Servers : ServerReceives(s, m)
  \/ \E s \in Servers : Asks(s) \/ Tick(s) \/ RestartServer(s)

MessagesSpec == MessagesInit /\ [][MessagesNext]_messagesVars

\* The timers run, and of the heartbeats that are sent again and again some arrive.
HeartbeatArrives(s) == \E m \in net : m.type = "Heartbeat" /\ ServerReceives(s, m)
MessagesFairSpec ==
  /\ MessagesSpec
  /\ WF_messagesVars(Heartbeat)
  /\ \A s \in Servers : WF_messagesVars(Tick(s)) /\ SF_messagesVars(HeartbeatArrives(s))
-----------------------------------------------------------------------------
(***************************************************************************)
(* Whatever was negotiated, lost or overtaken: every datagram on its way   *)
(* uses a schema that its receiver reads ("no higher than that number      *)
(* shall be used", NetworkMessage.hpp:95).  With servers of different      *)
(* builds it does not hold: the client never goes back to a lower schema.  *)
(***************************************************************************)
Readable == \A m \in net : m.schema <= builds[m.to]

(***************************************************************************)
(* Once PSK Reporter's address is known, it is never the server, however   *)
(* the two lookups and the operator's changes interleave (dnsLookupResult, *)
(* host_info_results).                                                     *)
(***************************************************************************)
ReporterSpared == client.blocked => client.server # Reporter

(***************************************************************************)
(* A client that stays is known to its server again and again, also after  *)
(* lost messages, an expiry, a late Close or a restart of the server.      *)
(***************************************************************************)
KnownAgain ==
  \A s \in Servers : client.up /\ client.server = s ~>
                       entry[s].known \/ ~(client.up /\ client.server = s)

(***************************************************************************)
(* A client that is gone, or has another server, is forgotten, also when   *)
(* its Close was lost or overtaken by what it said before (tick).          *)
(***************************************************************************)
Forgotten ==
  \A s \in Servers : entry[s].known ~> ~entry[s].known \/ (client.up /\ client.server = s)
=============================================================================
