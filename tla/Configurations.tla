-------------------------- MODULE Configurations --------------------------
(***************************************************************************)
(* What MultiSettings promises: every configuration has a name and values, *)
(* one of them is current, and a configuration changes only by a command   *)
(* about it, or while it is current.                                       *)
(***************************************************************************)
CONSTANTS Names, Values, Defaults   \* Defaults: the values of an empty configuration

VARIABLES
  config,   \* the values of each configuration, by name
  current   \* the one the main window uses

configVars == <<config, current>>

Put(n, v) == config' = [m \in DOMAIN config \cup {n} |-> IF m = n THEN v ELSE config[m]]
Drop(n) == config' = [m \in DOMAIN config \ {n} |-> config[m]]

ConfigInit ==
  /\ current \in Names
  /\ \E v \in Values : config = [n \in {current} |-> v]

\* The main window saves what the operator changed.
Save(v) == Put(current, v) /\ UNCHANGED current

SwitchTo(n) == n \in DOMAIN config /\ current' = n /\ UNCHANGED config

Clone(n, copy) ==
  /\ n \in DOMAIN config /\ copy \notin DOMAIN config
  /\ Put(copy, config[n]) /\ UNCHANGED current

CloneInto(n, source) ==
  /\ {n, source} \subseteq DOMAIN config
  /\ Put(n, config[source]) /\ UNCHANGED current

Reset(n) == n \in DOMAIN config /\ Put(n, Defaults) /\ UNCHANGED current

Rename(n, new) ==
  /\ n \in DOMAIN config /\ new \notin DOMAIN config
  /\ config' = [m \in (DOMAIN config \ {n}) \cup {new} |->
                  IF m = new THEN config[n] ELSE config[m]]
  /\ current' = IF n = current THEN new ELSE current

Delete(n) ==
  /\ n \in DOMAIN config /\ n # current
  /\ Drop(n) /\ UNCHANGED current

ConfigNext ==
  \/ \E v \in Values : Save(v)
  \/ \E n \in Names : SwitchTo(n) \/ Reset(n) \/ Delete(n)
  \/ \E n, m \in Names : Clone(n, m) \/ CloneInto(n, m) \/ Rename(n, m)

ConfigSpec == ConfigInit /\ [][ConfigNext]_configVars
=============================================================================
