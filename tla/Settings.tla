------------------------------ MODULE Settings ------------------------------
(***************************************************************************)
(* MultiSettings: configurations kept in one settings file.  The values of *)
(* the current one lie at the root of the file, those of the others in a   *)
(* group each.  A command about the current configuration closes the main  *)
(* window; the main loop then calls exit(), which repositions the file and *)
(* says whether another main window is wanted.  The values of one          *)
(* configuration are one datum.                                            *)
(***************************************************************************)
CONSTANTS
  Names, Values,
  Defaults,     \* the values of a configuration without any setting
  CrashInSwap   \* the program may crash while it repositions the file

ASSUME SettingsAssumption == Defaults \in Values /\ CrashInSwap \in BOOLEAN

VARIABLES
  ini,   \* the settings file, see Ini
  ms,    \* the members of MultiSettings::impl, see Multi
  live,  \* the settings of the main window, as the operator left them
  updating  \* dnLotw or upLotw is not null: closeEvent refuses

settingsVars == <<ini, ms, live, updating>>

Groups == UNION {[D -> Values] : D \in SUBSET Names}

\* name: CurrentName; cur: the values at the root; alt: the groups, by name
Ini == [name : Names, cur : Values, alt : Groups]

\* at: where the main loop is.  save, load and finish are the steps of reposition, each
\* ended by a sync.
Multi == [at : {"off", "ready", "window", "closing", "save", "load", "finish"},
          current : Names,                                    \* current_
          type : {"unchanged", "replace", "save_and_replace"}, \* reposition_type_
          new : Values,                                       \* new_settings_
          again : BOOLEAN]                                    \* ~exit_flag_

SettingsTypeOK == /\ ini \in Ini /\ ms \in Multi
                  /\ live \in Values /\ updating \in BOOLEAN

SettingsInit ==
  /\ \E n \in Names : /\ ini = [name |-> n, cur |-> Defaults, alt |-> [m \in {} |-> Defaults]]
                      /\ ms = [at |-> "off", current |-> n, type |-> "unchanged",
                               new |-> Defaults, again |-> FALSE]
  /\ live = Defaults /\ updating = FALSE

With(alt, n, v) == [m \in DOMAIN alt \cup {n} |-> IF m = n THEN v ELSE alt[m]]
Without(alt, n) == [m \in DOMAIN alt \ {n} |-> alt[m]]

\* get_settings for one of the names in the menu.
ValuesOf(n) == IF n = ini.name THEN ini.cur ELSE ini.alt[n]
Menu == DOMAIN ini.alt \cup {ini.name}
-----------------------------------------------------------------------------
(* The main loop *)

RepositionUnsaved(m) ==
  [m EXCEPT !.at = IF m.type # "unchanged" THEN "load" ELSE IF m.again THEN "ready" ELSE "off",
            !.again = m.again /\ m.type # "unchanged"]

\* reposition goes through all its steps, through the last two, or has nothing to do.
Reposition(m) ==
  [m EXCEPT !.at = CASE m.type = "save_and_replace" -> "save"
                     [] m.type = "replace" -> "load"
                     [] OTHER -> IF m.again THEN "ready" ELSE "off",
            !.again = m.again /\ m.type # "unchanged"]

\* The program starts; --config may name another configuration.
Boot ==
  /\ ms.at = "off"
  /\ \/ ms' = [at |-> "ready", current |-> ini.name, type |-> "unchanged",
               new |-> Defaults, again |-> FALSE]
     \/ \E n \in DOMAIN ini.alt \ {ini.name} :
          ms' = Reposition([at |-> "off", current |-> n, type |-> "save_and_replace",
                            new |-> ini.alt[n], again |-> TRUE])
  /\ UNCHANGED <<ini, live, updating>>

\* A main window is constructed and reads its settings.
OpenWindow ==
  /\ ms.at = "ready"
  /\ ms' = [ms EXCEPT !.at = "window"]
  /\ live' = ini.cur /\ updating' = FALSE
  /\ UNCHANGED ini

\* closeEvent, where it does not refuse.
CloseWindow ==
  /\ ms.at = "window" /\ ~updating
  /\ ms' = [ms EXCEPT !.at = "closing"]
  /\ UNCHANGED <<ini, live, updating>>

\* writeSettings has run, the window is gone, and the main loop calls exit().
WindowClosed ==
  /\ ms.at = "closing"
  /\ ini' = [ini EXCEPT !.cur = live]
  /\ ms' = Reposition(ms)
  /\ UNCHANGED <<live, updating>>

\* The current values become a group of their own, under the name in the file.
SaveCurrent ==
  /\ ms.at = "save"
  /\ ini' = [ini EXCEPT !.alt = With(@, ini.name, ini.cur)]
  /\ ms' = [ms EXCEPT !.at = "load"]
  /\ UNCHANGED <<live, updating>>

\* The root is purged and takes the new values.
LoadNew ==
  /\ ms.at = "load"
  /\ ini' = [ini EXCEPT !.cur = ms.new]
  /\ ms' = [ms EXCEPT !.at = "finish"]
  /\ UNCHANGED <<live, updating>>

FinishUnpurged ==
  /\ ms.at = "finish"
  /\ ini' = [ini EXCEPT !.name = ms.current]
  /\ ms' = [ms EXCEPT !.at = IF ms.again THEN "ready" ELSE "off", !.type = "unchanged",
                      !.new = Defaults, !.again = FALSE]
  /\ UNCHANGED <<live, updating>>

\* The group of what is now current goes, and the name is switched.
FinishSwap ==
  /\ ms.at = "finish"
  /\ ini' = [ini EXCEPT !.alt = Without(@, ms.current), !.name = ms.current]
  /\ ms' = [ms EXCEPT !.at = IF ms.again THEN "ready" ELSE "off", !.type = "unchanged",
                      !.new = Defaults, !.again = FALSE]
  /\ UNCHANGED <<live, updating>>

\* A crash loses what the window has not written.
SettingsCrash ==
  /\ ms.at # "off"
  /\ ms.at \in {"load", "finish"} => CrashInSwap
  /\ ms' = [ms EXCEPT !.at = "off"]
  /\ UNCHANGED <<ini, live, updating>>
-----------------------------------------------------------------------------
(* The menu of configurations, enabled while nothing is updating *)

MenuEnabled == ms.at = "window" /\ ~updating

\* An exchange with LoTW begins or ends.
Exchange ==
  /\ ms.at = "window"
  /\ updating' = ~updating
  /\ UNCHANGED <<ini, ms, live>>

ChangeSettings ==
  /\ ms.at = "window"
  /\ live' \in Values
  /\ UNCHANGED <<ini, ms, updating>>

\* A change of the current configuration: set up the restart, and close if closeEvent lets.
Restart(n, type, values) ==
  /\ ms' = [at |-> IF updating THEN "window" ELSE "closing", current |-> n, type |-> type,
            new |-> values, again |-> TRUE]
  /\ UNCHANGED <<ini, live, updating>>

\* A change of the file alone.
Write(alt) ==
  /\ ini' = [ini EXCEPT !.alt = alt]
  /\ UNCHANGED <<ms, live, updating>>

SelectConfiguration(n) ==
  /\ MenuEnabled /\ n \in DOMAIN ini.alt /\ n # ms.current
  /\ Restart(n, "save_and_replace", ini.alt[n])

CloneConfiguration(n, copy) ==
  /\ MenuEnabled /\ n \in Menu /\ copy \notin Menu
  /\ Write(With(ini.alt, copy, ValuesOf(n)))

CloneIntoCurrent(source) ==
  /\ MenuEnabled /\ source \in Menu \ {ms.current}
  /\ Restart(ms.current, "replace", ValuesOf(source))

CloneIntoOther(n, source) ==
  /\ MenuEnabled /\ n \in Menu \ {ms.current} /\ source \in Menu \ {n}
  /\ Write(With(ini.alt, n, ValuesOf(source)))

ResetCurrent ==
  /\ MenuEnabled
  /\ Restart(ms.current, "replace", Defaults)

ResetOther(n) ==
  /\ MenuEnabled /\ n \in Menu \ {ms.current}
  /\ Write(With(ini.alt, n, Defaults))

RenameCurrent(new) ==
  /\ MenuEnabled /\ new \notin Menu
  /\ ini' = [ini EXCEPT !.name = new]
  /\ ms' = [ms EXCEPT !.current = new]
  /\ UNCHANGED <<live, updating>>

RenameOther(n, new) ==
  /\ MenuEnabled /\ n \in Menu \ {ms.current} /\ new \notin Menu
  /\ Write(With(Without(ini.alt, n), new, ini.alt[n]))

DeleteConfiguration(n) ==
  /\ MenuEnabled /\ n \in Menu \ {ms.current}
  /\ Write(Without(ini.alt, n))
-----------------------------------------------------------------------------
\* Commands that close the window, and those that do not.
Restarts == \/ ResetCurrent
            \/ \E n \in Names : SelectConfiguration(n) \/ CloneIntoCurrent(n)

MenuStep == \/ ChangeSettings \/ Exchange
            \/ \E n \in Names : ResetOther(n) \/ DeleteConfiguration(n) \/ RenameCurrent(n)
            \/ \E n, m \in Names : \/ CloneConfiguration(n, m)
                                   \/ CloneIntoOther(n, m)
                                   \/ RenameOther(n, m)

LoopStep == Boot \/ SaveCurrent \/ LoadNew \/ FinishSwap

SettingsNext == \/ OpenWindow \/ CloseWindow \/ Restarts \/ WindowClosed
                \/ MenuStep \/ LoopStep \/ SettingsCrash

SettingsSpec == SettingsInit /\ [][SettingsNext]_settingsVars
-----------------------------------------------------------------------------
(***************************************************************************)
(* The current configuration is not in the file a second time as a group:  *)
(* its menu entry would then be taken for the current one, and the group   *)
(* overwritten at the next switch (create_sub_menu, reposition).           *)
(***************************************************************************)
CurrentIsNoGroup == ms.at \in {"off", "ready", "window", "closing"} =>
                      ini.name \notin DOMAIN ini.alt

(***************************************************************************)
(* No configuration gains or loses values but by a command about it: the   *)
(* steps of reposition, seen from outside, change nothing but which one is *)
(* current.  A crash in the middle of them breaks it (CrashInSwap).        *)
(***************************************************************************)
Seen == IF ms.at = "finish" /\ ms.type = "save_and_replace" THEN ini.alt
        ELSE With(ini.alt, ini.name, ini.cur)

Abstract == INSTANCE Configurations WITH config <- Seen, current <- ini.name
ConfigurationsKept == Abstract!ConfigSpec
=============================================================================
