--------------------------- MODULE SettingsProofs ---------------------------
(***************************************************************************)
(* Proofs about Settings, for any names and values, while the program does *)
(* not crash between the last steps of reposition.                         *)
(***************************************************************************)
EXTENDS Settings, TLAPS

Swapping == ms.at \in {"closing", "save", "load", "finish"}
Switching == Swapping /\ ms.type = "save_and_replace"

(***************************************************************************)
(* Why the steps of reposition lose nothing: from the command to the end   *)
(* of the swap the group of the configuration to come stays as it was when *)
(* its values were read, and before the root is purged its values are in a *)
(* group as well.                                                          *)
(***************************************************************************)
SwapInv ==
  /\ ms.at \in {"ready", "window"} => ms.type = "unchanged" /\ ms.current = ini.name
  /\ ms.at = "save" => ms.type = "save_and_replace"
  /\ ms.at \in {"load", "finish"} => ms.type # "unchanged"
  /\ Swapping /\ ~Switching => ms.current = ini.name
  /\ Switching => /\ ms.current \in DOMAIN ini.alt /\ ms.current # ini.name
                  /\ ini.alt[ms.current] = ms.new
  /\ IF ms.at \in {"load", "finish"} /\ Switching
       THEN ini.name \in DOMAIN ini.alt ELSE ini.name \notin DOMAIN ini.alt
  /\ ms.at = "load" /\ Switching => ini.alt[ini.name] = ini.cur
  /\ ms.at = "finish" /\ Switching => ini.cur = ms.new

SettingsInv == SettingsTypeOK /\ SwapInv
-----------------------------------------------------------------------------
(***************************************************************************)
(* What it is to be the groups of a settings file.                         *)
(***************************************************************************)
LEMMA GroupsFact ==
  ASSUME NEW f
  PROVE  f \in Groups <=> /\ DOMAIN f \subseteq Names
                          /\ f = [m \in DOMAIN f |-> f[m]]
                          /\ \A m \in DOMAIN f : f[m] \in Values
<1>1. ASSUME f \in Groups
      PROVE  /\ DOMAIN f \subseteq Names /\ f = [m \in DOMAIN f |-> f[m]]
             /\ \A m \in DOMAIN f : f[m] \in Values
  <2>1. PICK D \in SUBSET Names : f \in [D -> Values]
    BY <1>1 DEF Groups
  <2> QED BY <2>1
<1>2. ASSUME DOMAIN f \subseteq Names, f = [m \in DOMAIN f |-> f[m]],
             \A m \in DOMAIN f : f[m] \in Values
      PROVE  f \in Groups
  <2>1. f \in [DOMAIN f -> Values]
    BY <1>2
  <2> QED BY <1>2, <2>1 DEF Groups
<1> QED BY <1>1, <1>2

(***************************************************************************)
(* A group is written, or removed.                                         *)
(***************************************************************************)
LEMMA WithType ==
  ASSUME NEW f \in Groups, NEW n \in Names, NEW v \in Values
  PROVE  With(f, n, v) \in Groups /\ DOMAIN With(f, n, v) = DOMAIN f \cup {n}
  BY GroupsFact DEF With

LEMMA WithFact ==
  ASSUME NEW f, NEW n, NEW v
  PROVE  /\ With(f, n, v)[n] = v
         /\ \A m \in DOMAIN f : m # n => With(f, n, v)[m] = f[m]
  BY DEF With

LEMMA WithoutFact ==
  ASSUME NEW f \in Groups, NEW n \in Names
  PROVE  /\ Without(f, n) \in Groups
         /\ DOMAIN Without(f, n) = DOMAIN f \ {n}
         /\ \A m \in DOMAIN f : m # n => Without(f, n)[m] = f[m]
  BY GroupsFact DEF Without

(***************************************************************************)
(* Two files with the same groups are the same.                            *)
(***************************************************************************)
LEMMA SameGroups ==
  ASSUME NEW f \in Groups, NEW g \in Groups, DOMAIN f = DOMAIN g,
         \A m \in DOMAIN f : f[m] = g[m]
  PROVE  f = g
<1>1. f = [m \in DOMAIN f |-> f[m]] /\ g = [m \in DOMAIN g |-> g[m]]
  BY GroupsFact
<1> QED BY <1>1
-----------------------------------------------------------------------------
(***************************************************************************)
(* It holds when the program is installed.                                 *)
(***************************************************************************)
LEMMA SettingsInvInit == SettingsInit => SettingsInv
<1> SUFFICES ASSUME SettingsInit PROVE SettingsInv
  OBVIOUS
<1>1. PICK n \in Names : /\ ini = [name |-> n, cur |-> Defaults, alt |-> [m \in {} |-> Defaults]]
                         /\ ms = [at |-> "off", current |-> n, type |-> "unchanged",
                                  new |-> Defaults, again |-> FALSE]
  BY DEF SettingsInit
<1>2. ini.alt \in Groups /\ DOMAIN ini.alt = {}
  BY <1>1, GroupsFact
<1>3. SettingsTypeOK
  BY <1>1, <1>2, SettingsAssumption DEF SettingsInit, SettingsTypeOK, Ini, Multi
<1> QED BY <1>1, <1>2, <1>3 DEF SettingsInv, SwapInv, Swapping, Switching

(***************************************************************************)
(* The types of the fields.                                                *)
(***************************************************************************)
LEMMA Fields ==
  ASSUME SettingsTypeOK
  PROVE  /\ ini.name \in Names /\ ini.cur \in Values /\ ini.alt \in Groups
         /\ DOMAIN ini.alt \subseteq Names /\ \A m \in DOMAIN ini.alt : ini.alt[m] \in Values
         /\ ms.current \in Names /\ ms.new \in Values /\ ms.again \in BOOLEAN
         /\ ini = [name |-> ini.name, cur |-> ini.cur, alt |-> ini.alt]
         /\ ms = [at |-> ms.at, current |-> ms.current, type |-> ms.type,
                  new |-> ms.new, again |-> ms.again]
<1>1. ini \in Ini /\ ms \in Multi
  BY DEF SettingsTypeOK
<1>2. ini.name \in Names /\ ini.cur \in Values /\ ini.alt \in Groups
  BY <1>1 DEF Ini
<1> QED BY <1>1, <1>2, GroupsFact DEF Ini, Multi

(***************************************************************************)
(* The steps of the main loop: start, main window, exit() and reposition.  *)
(***************************************************************************)
LEMMA LoopKeeps ==
  ASSUME ~CrashInSwap, SettingsInv,
         OpenWindow \/ CloseWindow \/ WindowClosed \/ LoopStep \/ SettingsCrash
  PROVE  SettingsInv'
<1> USE SettingsAssumption DEF SettingsInv
<1>1. CASE OpenWindow
  BY <1>1, Fields DEF OpenWindow, SettingsTypeOK, Ini, Multi, SwapInv, Swapping, Switching
<1>2. CASE CloseWindow
  BY <1>2, Fields DEF CloseWindow, SettingsTypeOK, Ini, Multi, SwapInv, Swapping, Switching
<1>3. CASE WindowClosed
  BY <1>3, Fields DEF WindowClosed, Reposition, SettingsTypeOK, Ini, Multi, SwapInv, Swapping, Switching
<1>4. CASE Boot
  <2>1. ms.at = "off" /\ UNCHANGED <<ini, live, updating>>
    BY <1>4 DEF Boot
  <2>2. CASE ms' = [at |-> "ready", current |-> ini.name, type |-> "unchanged",
                    new |-> Defaults, again |-> FALSE]
    BY <2>1, <2>2, Fields DEF SettingsTypeOK, Multi, SwapInv, Swapping, Switching
  <2>3. ASSUME NEW n \in DOMAIN ini.alt \ {ini.name},
               ms' = Reposition([at |-> "off", current |-> n, type |-> "save_and_replace",
                                 new |-> ini.alt[n], again |-> TRUE])
        PROVE  SettingsInv'
    <3>1. ms' = [at |-> "save", current |-> n, type |-> "save_and_replace",
                 new |-> ini.alt[n], again |-> TRUE]
      BY <2>3 DEF Reposition
    <3>2. n \in Names /\ ini.alt[n] \in Values
      BY Fields
    <3> QED BY <2>1, <3>1, <3>2, Fields DEF SettingsTypeOK, Multi, SwapInv, Swapping, Switching
  <2> QED BY <1>4, <2>2, <2>3 DEF Boot
<1>5. CASE SaveCurrent
  <2>1. /\ ini' = [ini EXCEPT !.alt = With(ini.alt, ini.name, ini.cur)]
        /\ ms.at = "save" /\ ms' = [ms EXCEPT !.at = "load"]
        /\ UNCHANGED <<live, updating>>
    BY <1>5 DEF SaveCurrent
  <2>2. ini'.alt = With(ini.alt, ini.name, ini.cur) /\ ini'.name = ini.name /\ ini'.cur = ini.cur
    BY <2>1, Fields
  <2>3. /\ ini'.alt \in Groups /\ DOMAIN ini'.alt = DOMAIN ini.alt \cup {ini.name}
        /\ ini'.alt[ini.name] = ini.cur
        /\ \A m \in DOMAIN ini.alt : m # ini.name => ini'.alt[m] = ini.alt[m]
    <3>1. ini.alt \in Groups /\ ini.name \in Names /\ ini.cur \in Values
      BY Fields
    <3>2. /\ With(ini.alt, ini.name, ini.cur) \in Groups
          /\ DOMAIN With(ini.alt, ini.name, ini.cur) = DOMAIN ini.alt \cup {ini.name}
      BY <3>1, WithType
    <3>3. /\ With(ini.alt, ini.name, ini.cur)[ini.name] = ini.cur
          /\ \A m \in DOMAIN ini.alt : m # ini.name =>
               With(ini.alt, ini.name, ini.cur)[m] = ini.alt[m]
      BY WithFact
    <3> QED BY <2>2, <3>2, <3>3
  <2>4. SettingsTypeOK'
    BY <2>1, <2>2, <2>3, Fields DEF SettingsTypeOK, Ini, Multi
  <2>5. SwapInv'
    BY <2>1, <2>2, <2>3, Fields DEF SwapInv, Swapping, Switching, SettingsTypeOK, Multi
  <2> QED BY <2>4, <2>5
<1>6. CASE LoadNew
  BY <1>6, Fields DEF LoadNew, SettingsTypeOK, Ini, Multi, SwapInv, Swapping, Switching
<1>7. CASE FinishSwap
  <2>1. /\ ini' = [ini EXCEPT !.alt = Without(ini.alt, ms.current), !.name = ms.current]
        /\ ms.at = "finish"
        /\ ms' = [ms EXCEPT !.at = IF ms.again THEN "ready" ELSE "off", !.type = "unchanged",
                            !.new = Defaults, !.again = FALSE]
        /\ UNCHANGED <<live, updating>>
    BY <1>7 DEF FinishSwap
  <2>2. ini'.alt = Without(ini.alt, ms.current) /\ ini'.name = ms.current /\ ini'.cur = ini.cur
    BY <2>1, Fields
  <2>3. ini'.alt \in Groups /\ DOMAIN ini'.alt = DOMAIN ini.alt \ {ms.current}
    BY <2>2, WithoutFact, Fields
  <2>4. SettingsTypeOK'
    BY <2>1, <2>2, <2>3, Fields DEF SettingsTypeOK, Ini, Multi
  <2>5. SwapInv'
    BY <2>1, <2>2, <2>3, Fields DEF SwapInv, Swapping, Switching, SettingsTypeOK, Multi
  <2> QED BY <2>4, <2>5
<1>8. CASE SettingsCrash
  BY <1>8, Fields DEF SettingsCrash, SettingsTypeOK, Ini, Multi, SwapInv, Swapping, Switching
<1> QED BY <1>1, <1>2, <1>3, <1>4, <1>5, <1>6, <1>7, <1>8 DEF LoopStep

(***************************************************************************)
(* What a command of the menu may do to the groups without harm.           *)
(***************************************************************************)
LEMMA WriteKeeps ==
  ASSUME SettingsInv, ms.at = "window", NEW alt \in Groups, ini.name \notin DOMAIN alt, Write(alt)
  PROVE  SettingsInv'
<1>1. /\ ini' = [ini EXCEPT !.alt = alt] /\ UNCHANGED <<ms, live, updating>>
  BY DEF Write
<1>2. ini'.alt = alt /\ ini'.name = ini.name /\ ini'.cur = ini.cur
  BY <1>1, Fields DEF SettingsInv
<1>3. SettingsTypeOK'
  BY <1>1, <1>2, Fields DEF SettingsInv, SettingsTypeOK, Ini
<1> QED BY <1>1, <1>2, <1>3 DEF SettingsInv, SwapInv, Swapping, Switching

(***************************************************************************)
(* The commands that set up a restart, and what follows from close().      *)
(***************************************************************************)
LEMMA RestartKeeps ==
  ASSUME SettingsInv, MenuEnabled, NEW n \in Names, NEW type, NEW values \in Values,
         Restart(n, type, values),
         \/ type = "replace" /\ n = ms.current
         \/ type = "save_and_replace" /\ n \in DOMAIN ini.alt /\ values = ini.alt[n]
  PROVE  SettingsInv'
<1>1. /\ ms' = [at |-> "closing", current |-> n, type |-> type, new |-> values, again |-> TRUE]
      /\ ms.at = "window" /\ UNCHANGED <<ini, live, updating>>
  BY DEF Restart, MenuEnabled
<1>2. SettingsTypeOK'
  BY <1>1 DEF SettingsInv, SettingsTypeOK, Multi
<1> QED BY <1>1, <1>2 DEF SettingsInv, SwapInv, Swapping, Switching

(***************************************************************************)
(* The values of a name in the menu.                                       *)
(***************************************************************************)
LEMMA MenuValues ==
  ASSUME SettingsTypeOK, NEW n \in Menu
  PROVE  n \in Names /\ ValuesOf(n) \in Values
  BY Fields DEF Menu, ValuesOf

(***************************************************************************)
(* The commands of the menu, and what the operator does in the window.     *)
(***************************************************************************)
LEMMA RestartsKeep ==
  ASSUME SettingsInv, Restarts
  PROVE  SettingsInv'
<1> USE SettingsAssumption DEF SettingsInv
<1>1. CASE ResetCurrent
  BY <1>1, Fields, RestartKeeps DEF ResetCurrent
<1>2. ASSUME NEW n \in Names, SelectConfiguration(n) PROVE SettingsInv'
  BY <1>2, Fields, RestartKeeps DEF SelectConfiguration
<1>3. ASSUME NEW n \in Names, CloneIntoCurrent(n) PROVE SettingsInv'
  BY <1>3, Fields, MenuValues, RestartKeeps DEF CloneIntoCurrent
<1> QED BY <1>1, <1>2, <1>3 DEF Restarts

LEMMA MenuKeeps ==
  ASSUME SettingsInv, MenuStep
  PROVE  SettingsInv'
<1> USE SettingsAssumption DEF SettingsInv
<1>0. ms.at = "window" => ini.name \notin DOMAIN ini.alt
  BY DEF SwapInv, Switching, Swapping
<1>1. CASE ChangeSettings
  BY <1>1 DEF ChangeSettings, SettingsTypeOK, SwapInv, Swapping, Switching
<1>2. CASE Exchange
  BY <1>2 DEF Exchange, SettingsTypeOK, SwapInv, Swapping, Switching
<1>3. ASSUME NEW n \in Names, ResetOther(n) PROVE SettingsInv'
  <2>1. ms.at = "window" /\ n # ini.name /\ Write(With(ini.alt, n, Defaults))
    BY <1>3 DEF ResetOther, MenuEnabled, SwapInv
  <2>2. /\ With(ini.alt, n, Defaults) \in Groups
        /\ DOMAIN With(ini.alt, n, Defaults) = DOMAIN ini.alt \cup {n}
    BY Fields, WithType
  <2> QED BY <1>0, <2>1, <2>2, WriteKeeps
<1>4. ASSUME NEW n \in Names, DeleteConfiguration(n) PROVE SettingsInv'
  <2>1. /\ ms.at = "window" /\ Write(Without(ini.alt, n))
        /\ Without(ini.alt, n) \in Groups
        /\ DOMAIN Without(ini.alt, n) = DOMAIN ini.alt \ {n}
    BY <1>4, Fields, WithoutFact DEF DeleteConfiguration, MenuEnabled
  <2> QED BY <1>0, <2>1, WriteKeeps
<1>5. ASSUME NEW n \in Names, RenameCurrent(n) PROVE SettingsInv'
  <2>1. /\ ms.at = "window" /\ n \notin DOMAIN ini.alt
        /\ ini' = [ini EXCEPT !.name = n] /\ ms' = [ms EXCEPT !.current = n]
        /\ UNCHANGED <<live, updating>>
    BY <1>5 DEF RenameCurrent, MenuEnabled, Menu
  <2>2. SettingsTypeOK'
    BY <2>1, Fields DEF SettingsTypeOK, Ini, Multi
  <2> QED BY <2>1, <2>2, Fields DEF SwapInv, Swapping, Switching
<1>6. ASSUME NEW n \in Names, NEW m \in Names, CloneConfiguration(n, m) PROVE SettingsInv'
  <2>1. /\ ms.at = "window" /\ m # ini.name /\ ValuesOf(n) \in Values
        /\ Write(With(ini.alt, m, ValuesOf(n)))
    BY <1>6, MenuValues DEF CloneConfiguration, MenuEnabled, Menu
  <2>2. /\ With(ini.alt, m, ValuesOf(n)) \in Groups
        /\ DOMAIN With(ini.alt, m, ValuesOf(n)) = DOMAIN ini.alt \cup {m}
    BY <2>1, Fields, WithType
  <2> QED BY <1>0, <2>1, <2>2, WriteKeeps
<1>7. ASSUME NEW n \in Names, NEW m \in Names, CloneIntoOther(n, m) PROVE SettingsInv'
  <2>1. /\ ms.at = "window" /\ n # ini.name /\ ValuesOf(m) \in Values
        /\ Write(With(ini.alt, n, ValuesOf(m)))
    BY <1>7, MenuValues DEF CloneIntoOther, MenuEnabled, SwapInv
  <2>2. /\ With(ini.alt, n, ValuesOf(m)) \in Groups
        /\ DOMAIN With(ini.alt, n, ValuesOf(m)) = DOMAIN ini.alt \cup {n}
    BY <2>1, Fields, WithType
  <2> QED BY <1>0, <2>1, <2>2, WriteKeeps
<1>8. ASSUME NEW n \in Names, NEW m \in Names, RenameOther(n, m) PROVE SettingsInv'
  <2>1. /\ ms.at = "window" /\ m # ini.name /\ n \in DOMAIN ini.alt /\ ini.alt[n] \in Values
        /\ Write(With(Without(ini.alt, n), m, ini.alt[n]))
    BY <1>8, Fields DEF RenameOther, MenuEnabled, Menu, SwapInv
  <2>2. /\ Without(ini.alt, n) \in Groups
        /\ DOMAIN Without(ini.alt, n) = DOMAIN ini.alt \ {n}
    BY Fields, WithoutFact
  <2>3. /\ With(Without(ini.alt, n), m, ini.alt[n]) \in Groups
        /\ DOMAIN With(Without(ini.alt, n), m, ini.alt[n]) = (DOMAIN ini.alt \ {n}) \cup {m}
    BY <2>1, <2>2, WithType
  <2> QED BY <1>0, <2>1, <2>3, WriteKeeps
<1> QED BY <1>1, <1>2, <1>3, <1>4, <1>5, <1>6, <1>7, <1>8 DEF MenuStep

(***************************************************************************)
(* A step that changes nothing.                                            *)
(***************************************************************************)
LEMMA SettingsStutter ==
  ASSUME SettingsInv, UNCHANGED settingsVars
  PROVE  SettingsInv'
  BY DEF SettingsInv, SettingsTypeOK, SwapInv, Swapping, Switching, settingsVars

LEMMA SettingsKeep ==
  ASSUME ~CrashInSwap, SettingsInv, [SettingsNext]_settingsVars
  PROVE  SettingsInv'
  BY LoopKeeps, RestartsKeep, MenuKeeps, SettingsStutter DEF SettingsNext

(***************************************************************************)
(* The invariant of the settings file holds in every reachable state.      *)
(***************************************************************************)
THEOREM SettingsInvariance == ASSUME ~CrashInSwap PROVE SettingsSpec => []SettingsInv
<1>1. SettingsInv /\ [SettingsNext]_settingsVars => SettingsInv'
  BY SettingsKeep
<1> QED BY <1>1, SettingsInvInit, PTL DEF SettingsSpec

(***************************************************************************)
(* The current configuration is not in the file a second time.             *)
(***************************************************************************)
THEOREM CurrentOnce == ASSUME ~CrashInSwap PROVE SettingsSpec => []CurrentIsNoGroup
<1>1. SettingsInv => CurrentIsNoGroup
  BY DEF SettingsInv, SwapInv, CurrentIsNoGroup
<1> QED BY <1>1, SettingsInvariance, PTL
-----------------------------------------------------------------------------
(***************************************************************************)
(* What Seen is.                                                           *)
(***************************************************************************)
LEMMA SeenFact ==
  ASSUME SettingsInv
  PROVE  /\ Seen = With(ini.alt, ini.name, ini.cur) \/ Seen = ini.alt
         /\ DOMAIN Seen = Menu
         /\ Seen \in Groups
         /\ ms.at \notin {"load", "finish"} => \A m \in Menu : Seen[m] = ValuesOf(m)
<1> USE DEF SettingsInv
<1>1. CASE ms.at = "finish" /\ ms.type = "save_and_replace"
  <2>1. Seen = ini.alt /\ ini.name \in DOMAIN ini.alt
    BY <1>1 DEF Seen, SwapInv, Switching, Swapping
  <2> QED BY <1>1, <2>1, Fields DEF Menu
<1>2. CASE ~(ms.at = "finish" /\ ms.type = "save_and_replace")
  <2>1. Seen = With(ini.alt, ini.name, ini.cur)
    BY <1>2 DEF Seen
  <2>2. DOMAIN Seen = Menu /\ Seen \in Groups
    BY <2>1, Fields, WithType DEF Menu
  <2>3. ASSUME NEW m \in Menu PROVE Seen[m] = ValuesOf(m)
    BY <2>1, WithFact DEF Menu, ValuesOf
  <2> QED BY <2>1, <2>2, <2>3
<1> QED BY <1>1, <1>2

(***************************************************************************)
(* Steps of the main loop, seen from outside.                              *)
(***************************************************************************)
LEMMA LoopRefines ==
  ASSUME ~CrashInSwap, SettingsInv, SettingsInv',
         OpenWindow \/ CloseWindow \/ WindowClosed \/ LoopStep \/ SettingsCrash
  PROVE  [Abstract!ConfigNext]_<<Seen, ini.name>>
<1> USE DEF SettingsInv
<1>1. CASE OpenWindow
  BY <1>1 DEF OpenWindow, Seen, SettingsTypeOK, Multi
<1>2. CASE CloseWindow
  BY <1>2 DEF CloseWindow, Seen, SettingsTypeOK, Multi
<1>3. CASE WindowClosed
  <2>1. /\ ms.at = "closing" /\ ini' = [ini EXCEPT !.cur = live] /\ ms'.at # "finish"
    BY <1>3, Fields DEF WindowClosed, Reposition
  <2>2. ini'.alt = ini.alt /\ ini'.name = ini.name /\ ini'.cur = live
    BY <2>1, Fields
  <2>3. Seen = With(ini.alt, ini.name, ini.cur) /\ Seen' = With(ini.alt, ini.name, live)
    BY <2>1, <2>2 DEF Seen
  <2>4. DOMAIN Seen = DOMAIN ini.alt \cup {ini.name}
    BY <2>3, Fields, WithType
  <2>5. Abstract!Save(live)
    BY <2>2, <2>3, <2>4 DEF Abstract!Save, Abstract!Put, With
  <2>6. live \in Values
    BY DEF SettingsTypeOK
  <2> QED BY <2>5, <2>6 DEF Abstract!ConfigNext
<1>4. CASE Boot
  <2>1. ms.at = "off" /\ UNCHANGED ini
    BY <1>4 DEF Boot
  <2>2. ms'.at # "finish"
    <3>1. CASE ms' = [at |-> "ready", current |-> ini.name, type |-> "unchanged",
                      new |-> Defaults, again |-> FALSE]
      BY <3>1
    <3>2. ASSUME NEW n \in DOMAIN ini.alt \ {ini.name},
                 ms' = Reposition([at |-> "off", current |-> n, type |-> "save_and_replace",
                                   new |-> ini.alt[n], again |-> TRUE])
          PROVE  ms'.at # "finish"
      BY <3>2 DEF Reposition
    <3> QED BY <1>4, <3>1, <3>2 DEF Boot
  <2> QED BY <2>1, <2>2 DEF Seen
<1>5. CASE SaveCurrent
  <2>1. /\ ini' = [ini EXCEPT !.alt = With(ini.alt, ini.name, ini.cur)]
        /\ ms.at = "save" /\ ms'.at = "load"
    BY <1>5, Fields DEF SaveCurrent
  <2>2. ini'.alt = With(ini.alt, ini.name, ini.cur) /\ ini'.name = ini.name /\ ini'.cur = ini.cur
    BY <2>1, Fields
  <2>3. /\ Seen = With(ini.alt, ini.name, ini.cur)
        /\ Seen' = With(With(ini.alt, ini.name, ini.cur), ini.name, ini.cur)
    BY <2>1, <2>2 DEF Seen
  <2>4. Seen' = Seen
    BY <2>3 DEF With
  <2> QED BY <2>2, <2>4
<1>6. CASE LoadNew
  <2>1. /\ ini' = [ini EXCEPT !.cur = ms.new] /\ ms.at = "load" /\ ms'.at = "finish"
        /\ ms'.type = ms.type
    BY <1>6, Fields DEF LoadNew
  <2>2. ini'.alt = ini.alt /\ ini'.name = ini.name /\ ini'.cur = ms.new
    BY <2>1, Fields
  <2>3. Seen = With(ini.alt, ini.name, ini.cur)
    BY <2>1 DEF Seen
  <2>4. CASE ms.type = "save_and_replace"
    <3>1. Seen' = ini.alt /\ ini.name \in DOMAIN ini.alt /\ ini.alt[ini.name] = ini.cur
      BY <2>1, <2>2, <2>4 DEF Seen, SwapInv, Switching, Swapping
    <3>2. ini.alt = [m \in DOMAIN ini.alt |-> ini.alt[m]]
      BY Fields, GroupsFact
    <3>3. With(ini.alt, ini.name, ini.cur) = [m \in DOMAIN ini.alt |-> ini.alt[m]]
      BY <3>1 DEF With
    <3> QED BY <2>2, <2>3, <3>1, <3>2, <3>3
  <2>5. CASE ms.type # "save_and_replace"
    <3>1. Seen' = With(ini.alt, ini.name, ms.new)
      BY <2>1, <2>2, <2>5 DEF Seen
    <3>2. DOMAIN Seen = DOMAIN ini.alt \cup {ini.name}
      BY <2>3, Fields, WithType
    <3>3. Abstract!Save(ms.new)
      BY <2>2, <2>3, <3>1, <3>2 DEF Abstract!Save, Abstract!Put, With
    <3> QED BY <3>3, Fields DEF Abstract!ConfigNext
  <2> QED BY <2>4, <2>5
<1>7. CASE FinishSwap
  <2>1. /\ ini' = [ini EXCEPT !.alt = Without(ini.alt, ms.current), !.name = ms.current]
        /\ ms.at = "finish" /\ ms'.at # "finish"
    BY <1>7, Fields DEF FinishSwap
  <2>2. /\ ini'.alt = Without(ini.alt, ms.current) /\ ini'.name = ms.current
        /\ ini'.cur = ini.cur
    BY <2>1, Fields
  <2>3. Seen' = With(Without(ini.alt, ms.current), ms.current, ini.cur)
    BY <2>1, <2>2 DEF Seen
  <2>4. ini.alt = [m \in DOMAIN ini.alt |-> ini.alt[m]]
    BY Fields, GroupsFact
  <2>5. CASE ms.type = "save_and_replace"
    <3>1. /\ Seen = ini.alt /\ ms.current \in DOMAIN ini.alt
          /\ ini.alt[ms.current] = ini.cur
      BY <2>1, <2>5 DEF Seen, SwapInv, Switching, Swapping
    <3>2. Seen' = [m \in DOMAIN ini.alt |-> ini.alt[m]]
      BY <2>3, <3>1 DEF With, Without
    <3>3. Abstract!SwitchTo(ms.current)
      BY <2>2, <2>4, <3>1, <3>2 DEF Abstract!SwitchTo
    <3> QED BY <3>3, Fields DEF Abstract!ConfigNext
  <2>6. CASE ms.type # "save_and_replace"
    <3>1. Seen = With(ini.alt, ini.name, ini.cur) /\ ms.current = ini.name
      BY <2>1, <2>6 DEF Seen, SwapInv, Switching, Swapping
    <3>2. Seen' = Seen
      BY <2>3, <3>1 DEF With, Without
    <3> QED BY <2>2, <3>1, <3>2
  <2> QED BY <2>5, <2>6
<1>8. CASE SettingsCrash
  BY <1>8, Fields DEF SettingsCrash, Seen
<1> QED BY <1>1, <1>2, <1>3, <1>4, <1>5, <1>6, <1>7, <1>8 DEF LoopStep

(***************************************************************************)
(* A command about another configuration than the current one: what it     *)
(* writes to the groups is what is seen of it.                             *)
(***************************************************************************)
LEMMA WriteSeen ==
  ASSUME SettingsInv, ms.at = "window", NEW alt \in Groups, Write(alt)
  PROVE  /\ Seen = With(ini.alt, ini.name, ini.cur) /\ Seen' = With(alt, ini.name, ini.cur)
         /\ ini'.name = ini.name
<1>1. ini' = [ini EXCEPT !.alt = alt] /\ ms' = ms
  BY DEF Write
<1>2. ini'.alt = alt /\ ini'.name = ini.name /\ ini'.cur = ini.cur
  BY <1>1, Fields DEF SettingsInv
<1> QED BY <1>1, <1>2 DEF Seen

(***************************************************************************)
(* Commands of the menu, seen from outside.                                *)
(***************************************************************************)
LEMMA RestartsRefine ==
  ASSUME SettingsInv, Restarts
  PROVE  UNCHANGED <<Seen, ini.name>>
<1>1. ms.at = "window" /\ UNCHANGED ini /\ ms'.at # "finish"
  BY DEF Restarts, ResetCurrent, SelectConfiguration, CloneIntoCurrent, Restart, MenuEnabled
<1> QED BY <1>1 DEF Seen

LEMMA MenuRefines ==
  ASSUME SettingsInv, MenuStep
  PROVE  [Abstract!ConfigNext]_<<Seen, ini.name>>
<1> USE SettingsAssumption DEF SettingsInv
<1>0. ASSUME ms.at = "window"
      PROVE  /\ ini.name \notin DOMAIN ini.alt /\ ms.current = ini.name
             /\ DOMAIN Seen = Menu /\ \A m \in Menu : Seen[m] = ValuesOf(m)
  BY <1>0, SeenFact DEF SwapInv, Switching, Swapping
<1>1. CASE ChangeSettings
  BY <1>1 DEF ChangeSettings, Seen
<1>2. CASE Exchange
  BY <1>2 DEF Exchange, Seen
<1>3. ASSUME NEW n \in Names, ResetOther(n) PROVE Abstract!Reset(n)
  <2>1. ms.at = "window" /\ n \in Menu /\ n # ms.current /\ Write(With(ini.alt, n, Defaults))
    BY <1>3 DEF ResetOther, MenuEnabled
  <2>2. With(ini.alt, n, Defaults) \in Groups
    BY Fields, WithType
  <2>3. /\ Seen = With(ini.alt, ini.name, ini.cur) /\ ini'.name = ini.name
        /\ Seen' = With(With(ini.alt, n, Defaults), ini.name, ini.cur)
    BY <2>1, <2>2, WriteSeen
  <2>4. Seen' = [m \in DOMAIN Seen \cup {n} |-> IF m = n THEN Defaults ELSE Seen[m]]
    BY <1>0, <2>1, <2>3 DEF With
  <2> QED BY <1>0, <2>1, <2>3, <2>4 DEF Abstract!Reset, Abstract!Put
<1>4. ASSUME NEW n \in Names, DeleteConfiguration(n) PROVE Abstract!Delete(n)
  <2>1. ms.at = "window" /\ n \in Menu /\ n # ms.current /\ Write(Without(ini.alt, n))
    BY <1>4 DEF DeleteConfiguration, MenuEnabled
  <2>2. Without(ini.alt, n) \in Groups
    BY Fields, WithoutFact
  <2>3. /\ Seen = With(ini.alt, ini.name, ini.cur) /\ ini'.name = ini.name
        /\ Seen' = With(Without(ini.alt, n), ini.name, ini.cur)
    BY <2>1, <2>2, WriteSeen
  <2>4. Seen' = [m \in DOMAIN Seen \ {n} |-> Seen[m]]
    BY <1>0, <2>1, <2>3 DEF With, Without
  <2> QED BY <1>0, <2>1, <2>3, <2>4 DEF Abstract!Delete, Abstract!Drop
<1>5. ASSUME NEW n \in Names, RenameCurrent(n) PROVE Abstract!Rename(ini.name, n)
  <2>1. /\ ms.at = "window" /\ n \notin Menu /\ ms'.at = "window"
        /\ ini' = [ini EXCEPT !.name = n]
    BY <1>5, Fields DEF RenameCurrent, MenuEnabled
  <2>2. ini'.alt = ini.alt /\ ini'.name = n /\ ini'.cur = ini.cur
    BY <2>1, Fields
  <2>3. Seen = With(ini.alt, ini.name, ini.cur) /\ Seen' = With(ini.alt, n, ini.cur)
    BY <2>1, <2>2 DEF Seen
  <2>4. Seen[ini.name] = ini.cur /\ \A m \in DOMAIN ini.alt : Seen[m] = ini.alt[m]
    BY <1>0, <2>1 DEF Menu, ValuesOf
  <2>5. (Menu \ {ini.name}) \cup {n} = DOMAIN ini.alt \cup {n}
    BY <1>0, <2>1 DEF Menu
  <2>6. Seen' = [m \in (DOMAIN Seen \ {ini.name}) \cup {n} |->
                   IF m = n THEN Seen[ini.name] ELSE Seen[m]]
    BY <1>0, <2>1, <2>3, <2>4, <2>5 DEF With
  <2> QED BY <1>0, <2>1, <2>2, <2>6 DEF Abstract!Rename, Menu
<1>6. ASSUME NEW n \in Names, NEW m \in Names, CloneConfiguration(n, m) PROVE Abstract!Clone(n, m)
  <2>1. /\ ms.at = "window" /\ n \in Menu /\ m \notin Menu
        /\ Write(With(ini.alt, m, ValuesOf(n)))
    BY <1>6 DEF CloneConfiguration, MenuEnabled
  <2>2. ValuesOf(n) \in Values
    BY <2>1, MenuValues
  <2>3. With(ini.alt, m, ValuesOf(n)) \in Groups
    BY <2>2, Fields, WithType
  <2>4. /\ Seen = With(ini.alt, ini.name, ini.cur) /\ ini'.name = ini.name
        /\ Seen' = With(With(ini.alt, m, ValuesOf(n)), ini.name, ini.cur)
    BY <2>1, <2>3, WriteSeen
  <2>5. m # ini.name /\ Seen[n] = ValuesOf(n)
    BY <1>0, <2>1 DEF Menu
  <2>6. Seen' = [k \in DOMAIN Seen \cup {m} |-> IF k = m THEN Seen[n] ELSE Seen[k]]
    BY <2>4, <2>5 DEF With
  <2> QED BY <1>0, <2>1, <2>4, <2>6 DEF Abstract!Clone, Abstract!Put
<1>7. ASSUME NEW n \in Names, NEW m \in Names, CloneIntoOther(n, m) PROVE Abstract!CloneInto(n, m)
  <2>1. /\ ms.at = "window" /\ n \in Menu /\ n # ms.current /\ m \in Menu
        /\ Write(With(ini.alt, n, ValuesOf(m)))
    BY <1>7 DEF CloneIntoOther, MenuEnabled
  <2>2. ValuesOf(m) \in Values
    BY <2>1, MenuValues
  <2>3. With(ini.alt, n, ValuesOf(m)) \in Groups
    BY <2>2, Fields, WithType
  <2>4. /\ Seen = With(ini.alt, ini.name, ini.cur) /\ ini'.name = ini.name
        /\ Seen' = With(With(ini.alt, n, ValuesOf(m)), ini.name, ini.cur)
    BY <2>1, <2>3, WriteSeen
  <2>5. n # ini.name /\ Seen[m] = ValuesOf(m)
    BY <1>0, <2>1
  <2>6. Seen' = [k \in DOMAIN Seen \cup {n} |-> IF k = n THEN Seen[m] ELSE Seen[k]]
    BY <2>4, <2>5 DEF With
  <2> QED BY <1>0, <2>1, <2>4, <2>6 DEF Abstract!CloneInto, Abstract!Put
<1>8. ASSUME NEW n \in Names, NEW m \in Names, RenameOther(n, m) PROVE Abstract!Rename(n, m)
  <2>1. /\ ms.at = "window" /\ n \in Menu /\ n # ms.current /\ m \notin Menu
        /\ Write(With(Without(ini.alt, n), m, ini.alt[n]))
    BY <1>8 DEF RenameOther, MenuEnabled
  <2>2. n # ini.name /\ m # ini.name /\ n \in DOMAIN ini.alt /\ m \notin DOMAIN ini.alt
        /\ Seen[n] = ini.alt[n] /\ ini.alt[n] \in Values
    BY <1>0, <2>1, Fields DEF Menu, ValuesOf
  <2>3. Without(ini.alt, n) \in Groups
    BY Fields, WithoutFact
  <2>4. With(Without(ini.alt, n), m, ini.alt[n]) \in Groups
    BY <2>2, <2>3, WithType
  <2>5. /\ Seen = With(ini.alt, ini.name, ini.cur) /\ ini'.name = ini.name
        /\ Seen' = With(With(Without(ini.alt, n), m, ini.alt[n]), ini.name, ini.cur)
    BY <2>1, <2>4, WriteSeen
  <2>6. Seen' = [k \in (DOMAIN Seen \ {n}) \cup {m} |-> IF k = m THEN Seen[n] ELSE Seen[k]]
    BY <2>2, <2>5 DEF With, Without
  <2> QED BY <1>0, <2>1, <2>2, <2>5, <2>6 DEF Abstract!Rename
<1>9. ini.name \in Names
  BY Fields
<1> QED BY <1>1, <1>2, <1>3, <1>4, <1>5, <1>6, <1>7, <1>8, <1>9 DEF MenuStep, Abstract!ConfigNext

(***************************************************************************)
(* MultiSettings keeps its promise: seen from outside, a configuration     *)
(* changes only by a command about it, or while it is current.             *)
(***************************************************************************)
THEOREM ConfigurationsStay == ASSUME ~CrashInSwap PROVE SettingsSpec => ConfigurationsKept
<1>1. SettingsInit => Abstract!ConfigInit
  <2> SUFFICES ASSUME SettingsInit PROVE Abstract!ConfigInit
    OBVIOUS
  <2>1. PICK n \in Names : /\ ini = [name |-> n, cur |-> Defaults, alt |-> [m \in {} |-> Defaults]]
                           /\ ms.at = "off"
    BY DEF SettingsInit
  <2>2. ini.name = n /\ Seen = With([m \in {} |-> Defaults], n, Defaults)
    BY <2>1 DEF Seen
  <2>3. Seen = [m \in {n} |-> Defaults]
    BY <2>2 DEF With
  <2> QED BY <2>2, <2>3, SettingsAssumption DEF Abstract!ConfigInit
<1>2. SettingsInv /\ SettingsInv' /\ [SettingsNext]_settingsVars
        => [Abstract!ConfigNext]_<<Seen, ini.name>>
  <2> SUFFICES ASSUME SettingsInv, SettingsInv', [SettingsNext]_settingsVars
               PROVE  [Abstract!ConfigNext]_<<Seen, ini.name>>
    OBVIOUS
  <2>1. CASE UNCHANGED settingsVars
    BY <2>1 DEF settingsVars, Seen
  <2> QED BY <2>1, LoopRefines, RestartsRefine, MenuRefines DEF SettingsNext
<1> QED BY <1>1, <1>2, SettingsInvariance, PTL
        DEF SettingsSpec, ConfigurationsKept, Abstract!ConfigSpec, Abstract!configVars
=============================================================================
