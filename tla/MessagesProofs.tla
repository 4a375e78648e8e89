--------------------------- MODULE MessagesProofs ---------------------------
(***************************************************************************)
(* Proofs about Messages, for any servers and any number of starts,        *)
(* changes, faults and datagrams.                                          *)
(***************************************************************************)
EXTENDS Messages, TLAPS

(***************************************************************************)
(* Why everything can be read: no schema is ever in use, remembered or on  *)
(* its way but one that every party has.                                   *)
(***************************************************************************)
Agreed(schema) == schema <= builds["client"] /\ \A s \in Servers : schema <= builds[s]

AgreedInv ==
  /\ Agreed(client.schema) /\ \A k \in client.pending : Agreed(k)
  /\ \A m \in net : Agreed(m.schema)
  /\ \A s \in Servers : Agreed(entry[s].schema)

SameBuild == \A s, t \in Servers : builds[s] = builds[t]

\* Only a running client looks names up, and a server answers to a port it has seen.
PartsInv ==
  /\ MessagesTypeOK /\ ReporterSpared
  /\ client.up => client.port \in Ports
  /\ lookups # {} => client.up
  /\ \A s \in Servers : entry[s].known => entry[s].port \in Ports
-----------------------------------------------------------------------------
(***************************************************************************)
(* The network holds nothing that was not sent.                            *)
(***************************************************************************)
LEMMA PutFact ==
  ASSUME NEW old, NEW new, Put(old, new)
  PROVE  net' \subseteq old \cup new
  BY DEF Put

LEMMA SentTypes ==
  ASSUME NEW old \in SUBSET Datagram, NEW new \in SUBSET Datagram, Put(old, new)
  PROVE  net' \subseteq Datagram
  BY PutFact

(***************************************************************************)
(* What a client writes.                                                   *)
(***************************************************************************)
LEMMA WrittenFact ==
  ASSUME NEW c, c.port \in Ports, NEW type \in {"Heartbeat", "Data", "Close"}, NEW schema \in Schemas
  PROVE  /\ Written(c, type, schema) \subseteq Datagram
         /\ \A m \in Written(c, type, schema) : m.schema = schema
  BY DEF Written, Datagram

LEMMA Bounds ==
  /\ MaxStarts \in Nat /\ MaxChanges \in Nat /\ MaxFaults \in Nat
  /\ 0 \in 0 .. MaxStarts /\ 0 \in 0 .. MaxChanges /\ 0 \in 0 .. MaxFaults
  /\ \A k \in 0 .. MaxStarts : k < MaxStarts => k + 1 \in 0 .. MaxStarts /\ k + 1 \in Ports
  /\ \A k \in 0 .. MaxChanges : k < MaxChanges => k + 1 \in 0 .. MaxChanges
<1>1. MaxStarts \in Nat /\ MaxChanges \in Nat /\ MaxFaults \in Nat
  BY MessagesAssumption
<1> QED BY <1>1 DEF Ports

LEMMA FaultType ==
  ASSUME MessagesTypeOK, Fault \/ UNCHANGED spent
  PROVE  spent' \in [starts : 0 .. MaxStarts, changes : 0 .. MaxChanges, faults : 0 .. MaxFaults]
<1>1. spent \in [starts : 0 .. MaxStarts, changes : 0 .. MaxChanges, faults : 0 .. MaxFaults]
  BY DEF MessagesTypeOK
<1>2. CASE Fault
  BY <1>1, <1>2, Bounds DEF Fault
<1>3. CASE UNCHANGED spent
  BY <1>1, <1>3
<1> QED BY <1>2, <1>3

LEMMA PartsInit == MessagesInit => PartsInv
<1> SUFFICES ASSUME MessagesInit PROVE PartsInv
  OBVIOUS
<1>1. PICK n \in Servers : client = [up |-> FALSE, port |-> 0, name |-> n, server |-> "",
                                     blocked |-> FALSE, schema |-> 2, pending |-> {}]
  BY DEF MessagesInit
<1>2. client \in Client
  BY <1>1, Bounds DEF Client, Names, Schemas
<1>3. NoEntry \in Entry /\ entry = [s \in Servers |-> NoEntry]
  BY Bounds DEF MessagesInit, Entry, NoEntry, Schemas
<1>4. spent \in [starts : 0 .. MaxStarts, changes : 0 .. MaxChanges, faults : 0 .. MaxFaults]
  <2>1. spent = [starts |-> 0, changes |-> 0, faults |-> 0]
    BY DEF MessagesInit
  <2> QED BY <2>1, Bounds
<1>5. ~client.up /\ ~client.blocked /\ lookups = {} /\ net = {} /\ ~NoEntry.known
  BY <1>1 DEF MessagesInit, NoEntry
<1>6. builds \in [Servers \cup {"client"} -> Schemas]
  BY DEF MessagesInit
<1> QED BY <1>2, <1>3, <1>4, <1>5, <1>6 DEF PartsInv, MessagesTypeOK, ReporterSpared

(***************************************************************************)
(* Steps of the client that send nothing.                                  *)
(***************************************************************************)
LEMMA ClientKeeps ==
  ASSUME PartsInv,
         \/ StartClient \/ ReporterFound \/ CrashClient
         \/ \E n \in Names \cup {""} : SetServer(n)
         \/ \E n \in Names : LookupFails(n)
         \/ \E m \in net : ClientReceives(m)
  PROVE  PartsInv'
<1> USE MessagesAssumption DEF PartsInv, MessagesTypeOK, Client, ReporterSpared, Schemas, Names
<1>1. CASE StartClient
  <2>1. /\ client' \in Client /\ client'.up /\ client'.port \in Ports /\ ~client'.blocked
    BY <1>1, Bounds DEF StartClient, Ports
  <2>2. spent' \in [starts : 0 .. MaxStarts, changes : 0 .. MaxChanges, faults : 0 .. MaxFaults]
    BY <1>1, Bounds DEF StartClient
  <2>3. lookups' \subseteq Names /\ UNCHANGED <<builds, net, entry>>
    BY <1>1 DEF StartClient
  <2> QED BY <2>1, <2>2, <2>3
<1>2. CASE ReporterFound
  BY <1>2 DEF ReporterFound, Silenced
<1>3. CASE CrashClient
  BY <1>3, FaultType DEF CrashClient, Stopped
<1>4. ASSUME NEW n \in Names \cup {""}, SetServer(n) PROVE PartsInv'
  <2>1. /\ client' \in Client /\ client'.server = "" /\ client'.blocked = client.blocked
        /\ client'.up /\ client.up /\ client'.port = client.port
    BY <1>4 DEF SetServer
  <2>2. spent' \in [starts : 0 .. MaxStarts, changes : 0 .. MaxChanges, faults : 0 .. MaxFaults]
    BY <1>4, Bounds DEF SetServer
  <2>3. lookups' \subseteq Names /\ UNCHANGED <<builds, net, entry>>
    BY <1>4 DEF SetServer
  <2> QED BY <2>1, <2>2, <2>3
<1>5. ASSUME NEW n \in Names, LookupFails(n) PROVE PartsInv'
  BY <1>5 DEF LookupFails, Silenced
<1>6. ASSUME NEW m \in net, ClientReceives(m) PROVE PartsInv'
  <2>1. /\ net' \in {net \ {m}, net} /\ UNCHANGED <<builds, lookups, entry>>
        /\ client' \in {client, [client EXCEPT !.schema = m.schema]}
    BY <1>6 DEF ClientReceives
  <2>2. spent' \in [starts : 0 .. MaxStarts, changes : 0 .. MaxChanges, faults : 0 .. MaxFaults]
    BY <1>6, FaultType DEF ClientReceives, Delivers
  <2>3. m.schema \in Schemas
    BY DEF Datagram
  <2>4. /\ client' \in Client /\ client'.blocked = client.blocked /\ client'.server = client.server
        /\ client'.up = client.up /\ client'.port = client.port
    BY <2>1, <2>3
  <2> QED BY <2>1, <2>2, <2>4
<1> QED BY <1>1, <1>2, <1>3, <1>4, <1>5, <1>6

(***************************************************************************)
(* Steps of the client that send.                                          *)
(***************************************************************************)
LEMMA SendersKeep ==
  ASSUME PartsInv,
         Heartbeat \/ Say \/ StopClient \/ \E n \in Names : LookupAnswers(n)
  PROVE  PartsInv'
<1> USE MessagesAssumption DEF PartsInv, MessagesTypeOK, ReporterSpared
<1>0. client.schema \in Schemas /\ client.pending \subseteq Schemas /\ client \in Client
  BY DEF Client
<1>1. CASE Heartbeat
  <2>1. net' \subseteq Datagram
    BY <1>0, <1>1, SentTypes, WrittenFact DEF Heartbeat
  <2> QED BY <1>1, <2>1 DEF Heartbeat
<1>2. CASE Say
  <2>1. net' \subseteq Datagram
    BY <1>0, <1>2, SentTypes, WrittenFact DEF Say
  <2>2. CASE UNCHANGED client
    BY <1>2, <2>1, <2>2 DEF Say
  <2>3. CASE client' = [client EXCEPT !.pending = @ \cup {client.schema}]
    <3>1. /\ client' \in Client /\ client'.blocked = client.blocked /\ client'.server = client.server
          /\ client'.up = client.up /\ client'.port = client.port
      BY <1>0, <2>3 DEF Client
    <3> QED BY <1>2, <2>1, <3>1 DEF Say
  <2> QED BY <1>2, <2>2, <2>3 DEF Say
<1>3. CASE StopClient
  <2>1. net' \subseteq Datagram
    BY <1>0, <1>3, SentTypes, WrittenFact DEF StopClient
  <2>2. client' \in Client /\ client'.server = "" /\ ~client'.up
    BY <1>0, <1>3 DEF StopClient, Stopped, Client
  <2>3. Reporter # "" /\ lookups' = {} /\ UNCHANGED <<builds, entry, spent>>
    BY <1>3 DEF StopClient
  <2> QED BY <2>1, <2>2, <2>3
<1>4. ASSUME NEW n \in Names, LookupAnswers(n) PROVE PartsInv'
  <2> DEFINE c == [client EXCEPT !.server = n]
  <2>1. /\ client' = Silenced(c) /\ client.up /\ ~(client.blocked /\ n = Reporter)
        /\ lookups' = lookups \ {n} /\ UNCHANGED <<builds, entry, spent>>
    BY <1>4 DEF LookupAnswers
  <2>2. /\ client' \in Client /\ client'.blocked = client.blocked /\ client'.server = n
        /\ client'.up = client.up /\ client'.port = client.port
    BY <1>0, <2>1 DEF Client, Silenced
  <2>3. c.port \in Ports /\ c.schema \in Schemas /\ c.pending \subseteq Schemas
    BY <1>0, <2>1 DEF Client
  <2>4. PICK sent \in SUBSET c.pending :
          Put(net, Written(c, "Heartbeat", c.schema) \cup
                     UNION {Written(c, "Data", schema) : schema \in sent})
    BY <1>4 DEF LookupAnswers
  <2> HIDE DEF c
  <2>5. Written(c, "Heartbeat", c.schema) \subseteq Datagram
    BY <2>3, WrittenFact
  <2>6. \A schema \in sent : Written(c, "Data", schema) \subseteq Datagram
    BY <2>3, WrittenFact
  <2>7. net' \subseteq Datagram
    <3>1. UNION {Written(c, "Data", schema) : schema \in sent} \subseteq Datagram
      <4>1. ASSUME NEW m \in UNION {Written(c, "Data", schema) : schema \in sent} PROVE m \in Datagram
        <5>1. PICK schema \in sent : m \in Written(c, "Data", schema)
          OBVIOUS
        <5> QED BY <2>6, <5>1
      <4> QED BY <4>1
    <3> QED BY <2>4, <2>5, <3>1, SentTypes
  <2> QED BY <2>1, <2>2, <2>7
<1> QED BY <1>1, <1>2, <1>3, <1>4

(***************************************************************************)
(* Steps of a server.  First what an entry is after a message.             *)
(***************************************************************************)
LEMMA OpenedFact ==
  ASSUME PartsInv, NEW s \in Servers, NEW m \in net
  PROVE  /\ Opened(s, m) \in Entry /\ Opened(s, m).known /\ Opened(s, m).port \in Ports
         /\ Welcome(s, m) \subseteq Datagram
<1> USE DEF PartsInv, MessagesTypeOK
<1>1. m.port \in Ports /\ entry[s] \in Entry /\ (entry[s].known => entry[s].port \in Ports)
  BY DEF Datagram
<1>2. builds["client"] \in Schemas /\ builds[s] \in Schemas
  OBVIOUS
<1>3. Ports \subseteq 0 .. MaxStarts
  BY Bounds DEF Ports
<1>4. Opened(s, m) \in Entry /\ Opened(s, m).known /\ Opened(s, m).port \in Ports
  <2>1. CASE entry[s].known
    BY <1>1, <2>1 DEF Opened
  <2>2. CASE ~entry[s].known
    BY <1>1, <1>2, <1>3, <2>2 DEF Opened, Entry, Schemas
  <2> QED BY <2>1, <2>2
<1>5. Welcome(s, m) \subseteq Datagram
  <2>1. Opened(s, m).schema \in Schemas
    BY <1>4 DEF Entry
  <2> QED BY <1>1, <2>1 DEF Welcome, Datagram
<1> QED BY <1>4, <1>5

LEMMA ServersKeep ==
  ASSUME PartsInv,
         \/ \E m \in net : \E s \in Servers : ServerReceives(s, m)
         \/ \E s \in Servers : Asks(s) \/ Tick(s) \/ RestartServer(s)
  PROVE  PartsInv'
<1> USE DEF PartsInv, MessagesTypeOK, ReporterSpared
<1>0. NoEntry \in Entry /\ ~NoEntry.known
  BY Bounds DEF Entry, NoEntry, Schemas
<1>1. ASSUME NEW s \in Servers, NEW m \in net, ServerReceives(s, m) PROVE PartsInv'
  <2>1. PICK rest \in {net \ {m}, net} :
          /\ Delivers(m, rest)
          /\ IF m.schema > builds[s] THEN net' = rest /\ UNCHANGED entry
             ELSE /\ Put(rest, Welcome(s, m))
                  /\ entry' = [entry EXCEPT ![s] =
                                 IF m.type = "Close" THEN NoEntry
                                 ELSE [Opened(s, m) EXCEPT !.aged = FALSE]]
    BY <1>1 DEF ServerReceives
  <2>2. UNCHANGED <<builds, client, lookups>>
    BY <1>1 DEF ServerReceives
  <2>3. spent' \in [starts : 0 .. MaxStarts, changes : 0 .. MaxChanges, faults : 0 .. MaxFaults]
    BY <2>1, FaultType DEF Delivers
  <2>4. rest \subseteq Datagram /\ Welcome(s, m) \subseteq Datagram
    BY OpenedFact
  <2>5. CASE m.schema > builds[s]
    BY <2>1, <2>2, <2>3, <2>4, <2>5
  <2>6. CASE ~(m.schema > builds[s])
    <3>1. net' \subseteq Datagram
      BY <2>1, <2>4, <2>6, SentTypes
    <3> DEFINE e == IF m.type = "Close" THEN NoEntry ELSE [Opened(s, m) EXCEPT !.aged = FALSE]
    <3>2. e \in Entry /\ (e.known => e.port \in Ports)
      BY <1>0, OpenedFact DEF Entry
    <3>3. entry' = [entry EXCEPT ![s] = e]
      BY <2>1, <2>6
    <3> HIDE DEF e
    <3> QED BY <2>2, <2>3, <3>1, <3>2, <3>3
  <2> QED BY <2>5, <2>6
<1>2. ASSUME NEW s \in Servers, Asks(s) PROVE PartsInv'
  <2> DEFINE ask == [to |-> "client", port |-> entry[s].port, type |-> "Command", schema |-> entry[s].schema]
  <2>1. /\ Put(net, {ask}) /\ entry[s].known
        /\ UNCHANGED <<builds, client, lookups, entry, spent>>
    BY <1>2 DEF Asks
  <2>2. ask \in Datagram
    <3>1. entry[s].port \in Ports /\ entry[s].schema \in Schemas
      BY <2>1 DEF Entry
    <3> QED BY <3>1 DEF Datagram
  <2>3. net' \subseteq Datagram
    <3> HIDE DEF ask
    <3> QED BY <2>1, <2>2, SentTypes
  <2> QED BY <2>1, <2>3
<1>3. ASSUME NEW s \in Servers, Tick(s) PROVE PartsInv'
  <2>1. entry' = [entry EXCEPT ![s] = NoEntry] \/ entry' = [entry EXCEPT ![s].aged = TRUE]
    BY <1>3 DEF Tick
  <2>2. UNCHANGED <<builds, client, lookups, net, spent>>
    BY <1>3 DEF Tick
  <2>3. CASE entry' = [entry EXCEPT ![s] = NoEntry]
    BY <1>0, <2>2, <2>3
  <2>4. CASE entry' = [entry EXCEPT ![s].aged = TRUE]
    <3> DEFINE e == [entry[s] EXCEPT !.aged = TRUE]
    <3>1. e \in Entry /\ (e.known => e.port \in Ports)
      BY DEF Entry
    <3>2. entry' = [entry EXCEPT ![s] = e]
      BY <2>4
    <3> HIDE DEF e
    <3> QED BY <2>2, <3>1, <3>2
  <2> QED BY <2>1, <2>3, <2>4
<1>4. ASSUME NEW s \in Servers, RestartServer(s) PROVE PartsInv'
  BY <1>0, <1>4, FaultType DEF RestartServer
<1> QED BY <1>1, <1>2, <1>3, <1>4

(***************************************************************************)
(* Every state of the messages, of any instance.                           *)
(***************************************************************************)
THEOREM PartsInvariance == MessagesSpec => []PartsInv
<1>1. PartsInv /\ [MessagesNext]_messagesVars => PartsInv'
  <2> SUFFICES ASSUME PartsInv, [MessagesNext]_messagesVars PROVE PartsInv'
    OBVIOUS
  <2>1. CASE MessagesNext
    <3>1. CASE \/ StartClient \/ ReporterFound \/ CrashClient
               \/ \E n \in Names \cup {""} : SetServer(n)
               \/ \E n \in Names : LookupFails(n)
               \/ \E m \in net : ClientReceives(m)
      BY <3>1, ClientKeeps
    <3>2. CASE Heartbeat \/ Say \/ StopClient \/ \E n \in Names : LookupAnswers(n)
      BY <3>2, SendersKeep
    <3>3. CASE \/ \E m \in net : \E s \in Servers : ServerReceives(s, m)
               \/ \E s \in Servers : Asks(s) \/ Tick(s) \/ RestartServer(s)
      BY <3>3, ServersKeep
    <3> QED BY <2>1, <3>1, <3>2, <3>3 DEF MessagesNext
  <2>2. CASE UNCHANGED messagesVars
    BY <2>2 DEF messagesVars, PartsInv, MessagesTypeOK, ReporterSpared
  <2> QED BY <2>1, <2>2
<1> QED BY <1>1, PartsInit, PTL DEF MessagesSpec

(***************************************************************************)
(* The parties and the datagrams stay what their types say, whatever is    *)
(* lost, repeated or restarted.                                            *)
(***************************************************************************)
THEOREM MessagesTypeCorrect == MessagesSpec => []MessagesTypeOK
<1>1. PartsInv => MessagesTypeOK
  BY DEF PartsInv
<1> QED BY <1>1, PartsInvariance, PTL

(***************************************************************************)
(* PSK Reporter, once its address is known, is never the server, however   *)
(* the lookups interleave with the changes of the server (MessageClient's  *)
(* host_info_results and add_blocked_destination).                         *)
(***************************************************************************)
THEOREM ReporterStaysSpared == MessagesSpec => []ReporterSpared
<1>1. PartsInv => ReporterSpared
  BY DEF PartsInv
<1> QED BY <1>1, PartsInvariance, PTL
-----------------------------------------------------------------------------
(***************************************************************************)
(* The schema every party has, and what is negotiated between equals.      *)
(***************************************************************************)
LEMMA TwoAgreed == PartsInv => Agreed(2)
<1> SUFFICES ASSUME PartsInv PROVE Agreed(2)
  OBVIOUS
<1>1. \A p \in Servers \cup {"client"} : builds[p] \in {2, 3}
  BY DEF PartsInv, MessagesTypeOK, Schemas
<1>2. \A p \in Servers \cup {"client"} : 2 <= builds[p]
  BY <1>1
<1> QED BY <1>2 DEF Agreed

LEMMA OpenedAgreed ==
  ASSUME PartsInv, AgreedInv, SameBuild, NEW s \in Servers, NEW m \in net
  PROVE  /\ Agreed(Opened(s, m).schema)
         /\ \A w \in Welcome(s, m) : Agreed(w.schema)
<1>1. Agreed(entry[s].schema) /\ Agreed(2)
  BY TwoAgreed DEF AgreedInv
<1>2. builds["client"] \in {2, 3} /\ \A t \in Servers : builds[t] \in {2, 3}
  BY DEF PartsInv, MessagesTypeOK, Schemas
<1>3. \A t \in Servers : builds[t] = builds[s]
  BY DEF SameBuild
<1>4. Agreed(IF builds["client"] < builds[s] THEN builds["client"] ELSE builds[s])
  BY <1>2, <1>3 DEF Agreed
<1>5. Agreed(Opened(s, m).schema)
  BY <1>1, <1>4 DEF Opened
<1> QED BY <1>5 DEF Welcome

LEMMA AgreedInit ==
  ASSUME OneBuild
  PROVE  MessagesInit => AgreedInv /\ SameBuild
<1> SUFFICES ASSUME MessagesInit PROVE AgreedInv /\ SameBuild
  OBVIOUS
<1>1. Agreed(2)
  BY PartsInit, TwoAgreed
<1>2. client.schema = 2 /\ client.pending = {} /\ net = {}
  <2>1. PICK n \in Servers : client = [up |-> FALSE, port |-> 0, name |-> n, server |-> "",
                                       blocked |-> FALSE, schema |-> 2, pending |-> {}]
    BY DEF MessagesInit
  <2> QED BY <2>1 DEF MessagesInit
<1>3. \A s \in Servers : entry[s].schema = 2
  BY DEF MessagesInit, NoEntry
<1> QED BY <1>1, <1>2, <1>3 DEF AgreedInv, SameBuild, MessagesInit

(***************************************************************************)
(* A step keeps it.                                                        *)
(***************************************************************************)
LEMMA ClientsAgree ==
  ASSUME PartsInv, AgreedInv,
         \/ StartClient \/ ReporterFound \/ CrashClient \/ Heartbeat \/ Say \/ StopClient
         \/ \E n \in Names \cup {""} : SetServer(n)
         \/ \E n \in Names : LookupFails(n) \/ LookupAnswers(n)
         \/ \E m \in net : ClientReceives(m)
  PROVE  AgreedInv'
<1> DEFINE Kept == UNCHANGED <<builds, entry>>
           Quiet == net' \subseteq net
           Fits == Agreed(client'.schema) /\ \A k \in client'.pending : Agreed(k)
           Says == \A m \in net' : Agreed(m.schema)
<1>0. client \in Client /\ client.schema \in Schemas /\ client.pending \subseteq Schemas
  BY DEF PartsInv, MessagesTypeOK, Client
<1>a. /\ Agreed(2) /\ Agreed(client.schema) /\ \A k \in client.pending : Agreed(k)
      /\ \A m \in net : Agreed(m.schema)
  BY TwoAgreed DEF AgreedInv
<1>b. Kept /\ Fits /\ Says => AgreedInv'
  BY DEF AgreedInv, Agreed
<1>c. client.up => client.port \in Ports
  BY DEF PartsInv
<1>1. CASE StartClient
  <2>1. Kept /\ Fits /\ Quiet
    BY <1>0, <1>1, <1>a DEF StartClient, Client
  <2> QED BY <1>a, <1>b, <2>1
<1>2. CASE ReporterFound
  <2>1. Kept /\ Fits /\ Quiet
    BY <1>0, <1>2, <1>a DEF ReporterFound, Silenced, Client
  <2> QED BY <1>a, <1>b, <2>1
<1>3. CASE CrashClient
  <2>1. Kept /\ Fits /\ Quiet
    BY <1>0, <1>3, <1>a DEF CrashClient, Stopped, Client
  <2> QED BY <1>a, <1>b, <2>1
<1>4. CASE Heartbeat
  <2>1. Kept /\ UNCHANGED client
    BY <1>4 DEF Heartbeat
  <2>2. net' \subseteq net \cup Written(client, "Heartbeat", client.schema)
    BY <1>4, PutFact DEF Heartbeat
  <2>3. \A m \in Written(client, "Heartbeat", client.schema) : m.schema = client.schema
    BY <1>0, <1>4, <1>c, WrittenFact DEF Heartbeat
  <2> QED BY <1>a, <1>b, <2>1, <2>2, <2>3
<1>5. CASE Say
  <2>1. CASE client' = [client EXCEPT !.pending = @ \cup {client.schema}] /\ UNCHANGED net
    <3>1. Kept /\ Fits
      BY <1>0, <1>5, <1>a, <2>1 DEF Say, Client
    <3> QED BY <1>a, <1>b, <2>1, <3>1
  <2>2. CASE Put(net, Written(client, "Data", client.schema)) /\ UNCHANGED client
    <3>1. Kept
      BY <1>5 DEF Say
    <3>2. net' \subseteq net \cup Written(client, "Data", client.schema)
      BY <2>2, PutFact
    <3>3. \A m \in Written(client, "Data", client.schema) : m.schema = client.schema
      BY <1>0, <1>5, <1>c, WrittenFact DEF Say
    <3> QED BY <1>a, <1>b, <2>2, <3>1, <3>2, <3>3
  <2> QED BY <1>5, <2>1, <2>2 DEF Say
<1>6. CASE StopClient
  <2>1. Kept /\ Fits
    BY <1>0, <1>6, <1>a DEF StopClient, Stopped, Client
  <2>2. net' \subseteq net \cup Written(client, "Close", client.schema)
    BY <1>6, PutFact DEF StopClient
  <2>3. \A m \in Written(client, "Close", client.schema) : m.schema = client.schema
    BY <1>0, <1>6, <1>c, WrittenFact DEF StopClient
  <2> QED BY <1>a, <1>b, <2>1, <2>2, <2>3
<1>7. ASSUME NEW n \in Names \cup {""}, SetServer(n) PROVE AgreedInv'
  <2>1. Kept /\ Fits /\ Quiet
    BY <1>0, <1>7, <1>a DEF SetServer, Client
  <2> QED BY <1>a, <1>b, <2>1
<1>8. ASSUME NEW n \in Names, LookupFails(n) PROVE AgreedInv'
  <2>1. Kept /\ Fits /\ Quiet
    BY <1>0, <1>8, <1>a DEF LookupFails, Silenced, Client
  <2> QED BY <1>a, <1>b, <2>1
<1>9. ASSUME NEW n \in Names, LookupAnswers(n) PROVE AgreedInv'
  <2> DEFINE c == [client EXCEPT !.server = n]
  <2>1. client' = Silenced(c) /\ client.up /\ UNCHANGED <<builds, entry>>
    BY <1>9 DEF LookupAnswers, PartsInv
  <2>2. PICK sent \in SUBSET c.pending :
          Put(net, Written(c, "Heartbeat", c.schema) \cup
                     UNION {Written(c, "Data", schema) : schema \in sent})
    BY <1>9 DEF LookupAnswers
  <2>3. /\ c.port \in Ports /\ c.schema = client.schema /\ c.pending = client.pending
        /\ client'.schema = client.schema /\ client'.pending = {}
    BY <1>0, <1>c, <2>1 DEF Client, Silenced
  <2> HIDE DEF c
  <2>4. \A m \in Written(c, "Heartbeat", c.schema) : Agreed(m.schema)
    <3>1. c.schema \in Schemas /\ Agreed(c.schema)
      BY <1>0, <1>a, <2>3
    <3>2. \A m \in Written(c, "Heartbeat", c.schema) : m.schema = c.schema
      BY <2>3, <3>1, WrittenFact
    <3> QED BY <3>1, <3>2
  <2>5. \A schema \in sent : \A m \in Written(c, "Data", schema) : Agreed(m.schema)
    <3>1. ASSUME NEW schema \in sent, NEW m \in Written(c, "Data", schema) PROVE Agreed(m.schema)
      <4>1. schema \in Schemas /\ Agreed(schema)
        BY <1>0, <1>a, <2>3
      <4>2. m.schema = schema
        BY <2>3, <4>1, WrittenFact
      <4> QED BY <4>1, <4>2
    <3> QED BY <3>1
  <2>6. net' \subseteq net \cup (Written(c, "Heartbeat", c.schema) \cup
                     UNION {Written(c, "Data", schema) : schema \in sent})
    BY <2>2, PutFact
  <2>7. Says
    <3>1. ASSUME NEW m \in net' PROVE Agreed(m.schema)
      <4>1. m \in net \/ m \in Written(c, "Heartbeat", c.schema)
               \/ \E schema \in sent : m \in Written(c, "Data", schema)
        BY <2>6
      <4> QED BY <1>a, <2>4, <2>5, <4>1
    <3> QED BY <3>1
  <2> QED BY <1>a, <1>b, <2>1, <2>3, <2>7
<1>10. ASSUME NEW m \in net, ClientReceives(m) PROVE AgreedInv'
  <2>1. Kept /\ Quiet
    BY <1>10 DEF ClientReceives
  <2>2. client' \in {client, [client EXCEPT !.schema = m.schema]}
    <3>1. CASE m.schema > client.schema
      BY <1>10, <3>1 DEF ClientReceives
    <3>2. CASE ~(m.schema > client.schema)
      BY <1>0, <1>10, <3>2 DEF ClientReceives, Client
    <3> QED BY <3>1, <3>2
  <2>3. client'.pending = client.pending /\ client'.schema \in {client.schema, m.schema}
    BY <1>0, <2>2 DEF Client
  <2> QED BY <1>a, <1>b, <2>1, <2>3
<1> QED BY <1>1, <1>2, <1>3, <1>4, <1>5, <1>6, <1>7, <1>8, <1>9, <1>10

LEMMA ServersAgree ==
  ASSUME PartsInv, AgreedInv, SameBuild,
         \/ \E m \in net : \E s \in Servers : ServerReceives(s, m)
         \/ \E s \in Servers : Asks(s) \/ Tick(s) \/ RestartServer(s)
  PROVE  AgreedInv'
<1> DEFINE Says == \A m \in net' : Agreed(m.schema)
           Knows == \A s \in Servers : Agreed(entry'[s].schema)
<1>a. /\ \A m \in net : Agreed(m.schema)
      /\ \A s \in Servers : Agreed(entry[s].schema)
      /\ Agreed(NoEntry.schema)
  BY TwoAgreed DEF AgreedInv, NoEntry
<1>b. UNCHANGED <<builds, client>> /\ Says /\ Knows => AgreedInv'
  BY DEF AgreedInv, Agreed
<1>c. entry \in [Servers -> Entry]
  BY DEF PartsInv, MessagesTypeOK
<1>1. ASSUME NEW s \in Servers, NEW m \in net, ServerReceives(s, m) PROVE AgreedInv'
  <2> DEFINE e == IF m.type = "Close" THEN NoEntry ELSE [Opened(s, m) EXCEPT !.aged = FALSE]
  <2>1. PICK rest \in {net \ {m}, net} :
          IF m.schema > builds[s] THEN net' = rest /\ UNCHANGED entry
          ELSE Put(rest, Welcome(s, m)) /\ entry' = [entry EXCEPT ![s] = e]
    BY <1>1 DEF ServerReceives
  <2>2. UNCHANGED <<builds, client>>
    BY <1>1 DEF ServerReceives
  <2>3. Agreed(e.schema)
    BY <1>a, OpenedAgreed, OpenedFact DEF Entry
  <2> HIDE DEF e
  <2>4. CASE m.schema > builds[s]
    BY <1>a, <1>b, <2>1, <2>2, <2>4
  <2>5. CASE ~(m.schema > builds[s])
    <3>1. net' \subseteq net \cup Welcome(s, m)
      BY <2>1, <2>5, PutFact
    <3>2. Says
      BY <1>a, <3>1, OpenedAgreed
    <3>3. Knows
      BY <1>a, <1>c, <2>1, <2>3, <2>5
    <3> QED BY <1>b, <2>2, <3>2, <3>3
  <2> QED BY <2>4, <2>5
<1>2. ASSUME NEW s \in Servers, Asks(s) PROVE AgreedInv'
  <2> DEFINE ask == [to |-> "client", port |-> entry[s].port, type |-> "Command", schema |-> entry[s].schema]
  <2>1. Put(net, {ask}) /\ UNCHANGED <<builds, client, entry>>
    BY <1>2 DEF Asks
  <2>2. Agreed(ask.schema)
    BY <1>a
  <2> HIDE DEF ask
  <2>3. net' \subseteq net \cup {ask}
    BY <2>1, PutFact
  <2> QED BY <1>a, <1>b, <2>1, <2>2, <2>3
<1>3. ASSUME NEW s \in Servers, Tick(s) PROVE AgreedInv'
  <2>1. UNCHANGED <<builds, client, net>>
    BY <1>3 DEF Tick
  <2>2. Knows
    BY <1>3, <1>a, <1>c DEF Tick, Entry
  <2> QED BY <1>a, <1>b, <2>1, <2>2
<1>4. ASSUME NEW s \in Servers, RestartServer(s) PROVE AgreedInv'
  <2>1. UNCHANGED <<builds, client, net>>
    BY <1>4 DEF RestartServer
  <2>2. Knows
    BY <1>4, <1>a, <1>c DEF RestartServer
  <2> QED BY <1>a, <1>b, <2>1, <2>2
<1> QED BY <1>1, <1>2, <1>3, <1>4

LEMMA BuildsStay == MessagesNext => UNCHANGED builds
  BY DEF MessagesNext, StartClient, ReporterFound, Heartbeat, Say, StopClient, CrashClient, SetServer,
         LookupFails, LookupAnswers, ClientReceives, ServerReceives, Asks, Tick, RestartServer

(***************************************************************************)
(* With servers of one build, whatever is negotiated, lost, repeated or    *)
(* overtaken, no datagram uses a schema that its receiver cannot read.     *)
(***************************************************************************)
THEOREM EverythingReadable ==
  ASSUME OneBuild
  PROVE  MessagesSpec => []Readable
<1> DEFINE Inv == AgreedInv /\ SameBuild
<1>1. MessagesInit => Inv
  BY AgreedInit
<1>2. PartsInv /\ Inv /\ [MessagesNext]_messagesVars => Inv'
  <2> SUFFICES ASSUME PartsInv, Inv, [MessagesNext]_messagesVars PROVE Inv'
    OBVIOUS
  <2>1. CASE MessagesNext
    <3>1. SameBuild'
      BY <2>1, BuildsStay DEF SameBuild
    <3>2. CASE \/ StartClient \/ ReporterFound \/ CrashClient \/ Heartbeat \/ Say \/ StopClient
               \/ \E n \in Names \cup {""} : SetServer(n)
               \/ \E n \in Names : LookupFails(n) \/ LookupAnswers(n)
               \/ \E m \in net : ClientReceives(m)
      BY <3>1, <3>2, ClientsAgree
    <3>3. CASE \/ \E m \in net : \E s \in Servers : ServerReceives(s, m)
               \/ \E s \in Servers : Asks(s) \/ Tick(s) \/ RestartServer(s)
      BY <3>1, <3>3, ServersAgree
    <3> QED BY <2>1, <3>2, <3>3 DEF MessagesNext
  <2>2. CASE UNCHANGED messagesVars
    BY <2>2 DEF messagesVars, AgreedInv, Agreed, SameBuild
  <2> QED BY <2>1, <2>2
<1>3. PartsInv /\ Inv => Readable
  <2> SUFFICES ASSUME PartsInv, Inv, NEW m \in net PROVE m.schema <= builds[m.to]
    BY DEF Readable
  <2>1. m.to \in Servers \cup {"client"}
    BY DEF PartsInv, MessagesTypeOK, Datagram
  <2> QED BY <2>1 DEF AgreedInv, Agreed
<1> HIDE DEF Inv
<1> QED BY <1>1, <1>2, <1>3, PartsInvariance, PTL DEF MessagesSpec
=============================================================================
