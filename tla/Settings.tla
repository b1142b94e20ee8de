------------------------------ MODULE Settings ------------------------------
(***************************************************************************)
(* The options of MainWindow (client_gui/QuickerSFV.cpp) and their copy in *)
(* the registry of the user, which all windows of the user share, those on *)
(* other machines among them.  A key that is deleted while it is open      *)
(* takes no more values; one that is created again is another key.         *)
(* A window may end at any step, without WM_DESTROY.                       *)
(***************************************************************************)
EXTENDS Integers

CONSTANTS
  Windows,        \* the windows that may be open at a time
  Machines,       \* the machines of the user
  supportsAvx512, \* of each machine
  Placements,     \* positions and widths of a window and its columns
  NoPlacement,    \* that of a window when nothing is saved
  MaxKeys         \* bound: how often the key is created

SettingsConstants ==
  supportsAvx512 \in [Machines -> BOOLEAN] /\ NoPlacement \in Placements /\ MaxKeys \in Nat

VARIABLES
  key,     \* Software\QuickerSFV: its number and the values set in it, or NoKey
  keys,    \* how many have been created
  window,  \* of each: its machine, what it does, options and open key
  asked,   \* history: whether a user has asked for a saved configuration since
           \* it was last removed, or a window that was asked was open then
  last,    \* history: the options of the last save that no other one crossed, and
           \* of those begun since, or what a window has without any
  alone    \* history: the window whose save has not been crossed by another

vars == <<key, keys, window, asked, last, alone>>

Values == {"WindowDimensions", "UseAvx"}
NoKey == [no |-> 0, values |-> <<>>]
Closed == [at |-> "closed"]
Started(m) ==
  [at |-> "starting", machine |-> m, has_avx512 |-> supportsAvx512[m],
   placement |-> NoPlacement, save |-> FALSE, reg_key |-> 0]
Is(w, where) == window[w].at = where
Saving(w) == window[w].at \in {"placement", "avx"}
Options(w) == [placement |-> window[w].placement, has_avx512 |-> window[w].has_avx512]
Defaults == [placement |-> NoPlacement, has_avx512 |-> TRUE]

Init ==
  /\ key = NoKey /\ keys = 0 /\ window = [w \in Windows |-> Closed]
  /\ asked = FALSE /\ last = {Defaults} /\ alone = {}

-----------------------------------------------------------------------------
(* Start: createMainWindow() and loadConfigurationFromRegistry()           *)

createMainWindow(w) ==
  /\ Is(w, "closed")
  /\ \E m \in Machines : window' = [window EXCEPT ![w] = Started(m)]
  /\ UNCHANGED <<key, keys, asked, last, alone>>

Saved(name, default) == IF name \in DOMAIN key.values THEN key.values[name] ELSE default

\* A key is enough to save again.  UseAvx counts where there is AVX-512.
Configured(r) ==
  IF key = NoKey THEN [r EXCEPT !.at = "open"]
  ELSE [r EXCEPT !.at = "open", !.save = TRUE,
                 !.placement = Saved("WindowDimensions", NoPlacement),
                 !.has_avx512 = r.has_avx512 /\ Saved("UseAvx", TRUE)]
loadConfigurationFromRegistry(w) ==
  /\ Is(w, "starting") /\ window' = [window EXCEPT ![w] = Configured(window[w])]
  /\ UNCHANGED <<key, keys, asked, last, alone>>

-----------------------------------------------------------------------------
(* The user                                                                *)

\* The item of the menu is grayed in the resource, and enabled at the start
\* where there is AVX-512.
setOptionUseAvx512(w) ==
  /\ Is(w, "open") /\ supportsAvx512[window[w].machine]
  /\ window' = [window EXCEPT ![w].has_avx512 = ~@]
  /\ UNCHANGED <<key, keys, asked, last, alone>>

Place(w) ==
  /\ Is(w, "open") /\ \E p \in Placements : window' = [window EXCEPT ![w].placement = p]
  /\ UNCHANGED <<key, keys, asked, last, alone>>

\* setOptionSaveConfiguration(true)
SaveOn(w) ==
  /\ Is(w, "open") /\ ~window[w].save
  /\ window' = [window EXCEPT ![w].save = TRUE]
  /\ asked' = TRUE /\ UNCHANGED <<key, keys, last, alone>>

\* setOptionSaveConfiguration(false): "Do you want to remove the current saved
\* configuration?"
SaveOff(w, remove) ==
  /\ Is(w, "open") /\ window[w].save
  /\ window' = [window EXCEPT ![w].save = FALSE]
  /\ IF remove
     THEN /\ key' = NoKey /\ last' = {Defaults} /\ alone' = {}
          /\ asked' = \E v \in Windows \ {w} : ~Is(v, "closed") /\ window[v].save
     ELSE UNCHANGED <<key, asked, last, alone>>
  /\ UNCHANGED keys

-----------------------------------------------------------------------------
(* WM_DESTROY: saveConfigurationToRegistry()                               *)

\* history: the save of window w begins, or ends
SaveBegins(w) ==
  /\ last' = last \cup {Options(w)}
  /\ alone' = IF \E v \in Windows \ {w} : Saving(v) THEN {} ELSE {w}
SaveEnds(w) ==
  /\ last' = IF w \in alone THEN {Options(w)} ELSE last
  /\ alone' = alone \ {w}

\* Mutant: the options are saved in any case.
DestroyAlwaysSaves(w) ==
  /\ Is(w, "open")
  /\ \/ key # NoKey /\ UNCHANGED <<key, keys>>
     \/ key = NoKey /\ keys < MaxKeys /\ keys' = keys + 1 /\ key' = [no |-> keys', values |-> <<>>]
  /\ window' = [window EXCEPT ![w].at = "placement", ![w].reg_key = key'.no]
  /\ SaveBegins(w) /\ UNCHANGED asked

\* RegCreateKeyEx() opens the key if it is there.
Destroy(w) ==
  /\ Is(w, "open")
  /\ IF window[w].save
     THEN /\ \/ key # NoKey /\ UNCHANGED <<key, keys>>
             \/ /\ key = NoKey /\ keys < MaxKeys
                /\ keys' = keys + 1 /\ key' = [no |-> keys', values |-> <<>>]
          /\ window' = [window EXCEPT ![w].at = "placement", ![w].reg_key = key'.no]
          /\ SaveBegins(w)
     ELSE window' = [window EXCEPT ![w] = Closed] /\ UNCHANGED <<key, keys, last, alone>>
  /\ UNCHANGED asked

WithValue(values, name, v) ==
  [n \in DOMAIN values \cup {name} |-> IF n = name THEN v ELSE values[n]]

\* RegSetValueEx() to the key of window w
Sets(w, name, v) ==
  IF key # NoKey /\ key.no = window[w].reg_key
  THEN key' = [key EXCEPT !.values = WithValue(@, name, v)]
  ELSE UNCHANGED key

SavePlacement(w) ==
  /\ Is(w, "placement") /\ Sets(w, "WindowDimensions", window[w].placement)
  /\ window' = [window EXCEPT ![w].at = "avx"]
  /\ UNCHANGED <<keys, asked, last, alone>>

\* Mutant: the value is set on its first time only.
SaveAvxOnce(w) ==
  /\ Is(w, "avx")
  /\ IF key # NoKey /\ "UseAvx" \in DOMAIN key.values
     THEN UNCHANGED key ELSE Sets(w, "UseAvx", window[w].has_avx512)
  /\ window' = [window EXCEPT ![w] = Closed] /\ SaveEnds(w) /\ UNCHANGED <<keys, asked>>

SaveAvx(w) ==
  /\ Is(w, "avx") /\ Sets(w, "UseAvx", window[w].has_avx512)
  /\ window' = [window EXCEPT ![w] = Closed] /\ SaveEnds(w) /\ UNCHANGED <<keys, asked>>

\* The process is ended, or the machine: another window may have to go on.
Crash(w) ==
  /\ ~Is(w, "closed") /\ window' = [window EXCEPT ![w] = Closed]
  /\ alone' = alone \ {w} /\ UNCHANGED <<key, keys, asked, last>>

Next == \E w \in Windows :
  \/ createMainWindow(w) \/ loadConfigurationFromRegistry(w)
  \/ setOptionUseAvx512(w) \/ Place(w) \/ SaveOn(w) \/ SaveOff(w, TRUE) \/ SaveOff(w, FALSE)
  \/ Destroy(w) \/ SavePlacement(w) \/ SaveAvx(w) \/ Crash(w)

Spec == Init /\ [][Next]_vars

-----------------------------------------------------------------------------
(* Properties                                                              *)

SettingsTypeOK ==
  /\ keys \in 0 .. MaxKeys /\ {asked} \subseteq BOOLEAN
  /\ key # NoKey => key.no = keys /\ DOMAIN key.values \subseteq Values
  /\ \A w \in Windows : window[w].at \in {"closed", "starting", "open", "placement", "avx"}

\* No window uses AVX-512 on a machine without it, on whichever machine the
\* configuration was saved.
AvxIsSupported ==
  \A w \in Windows : ~Is(w, "closed") /\ window[w].has_avx512 => supportsAvx512[window[w].machine]

\* There is a saved configuration only if a user has asked for one after the
\* last time that one was removed: no window that was not asked brings it back.
KeptOnlyIfAsked == key # NoKey => asked

\* A window starts with the options of the last window that saved and, while
\* others save, have crashed in it or have saved at the same time, with options
\* of these, each of one of them; without any saved, with its own.
Restores ==
  [][\A w \in Windows : Is(w, "starting") /\ window'[w].at = "open" =>
       /\ \E l \in last : window'[w].placement = l.placement
       /\ \E l \in last : window'[w].has_avx512 = (supportsAvx512[window[w].machine] /\ l.has_avx512)]_vars
=============================================================================
