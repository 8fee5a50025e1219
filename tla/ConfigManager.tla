--------------------------- MODULE ConfigManager ---------------------------
(***************************************************************************)
(* ConfigManager (config/config_manager.cpp): the settings, the file they  *)
(* are read from, the watcher of that file, and the hot reload.            *)
(*                                                                         *)
(* The actions are those of the manager and of whoever edits the file;     *)
(* Node says when the process runs them.  The reload reads the file twice, *)
(* and the file may change in between, so that it is two actions.          *)
(***************************************************************************)
EXTENDS Integers

CONSTANTS
    Kept,        \* settings that keep their value when the file has none
    Cleared,     \* lists that a file without them empties (topics)
    Defaults,    \* the values of the members at construction
    Valid,       \* setting -> the values parse accepts
    Fallback,    \* setting -> what it takes instead of one it does not accept
    Contents,    \* readable contents of the file: some settings -> values
    Unreadable,  \* the file is missing, cut short or not an object
    MaxWrites    \* bound: changes of the file

Settings   == Kept \cup Cleared
Reloadable == {"level", "interval"}
None       == {}

ASSUME SettingsAssumption ==
    /\ Reloadable \subseteq Kept /\ Kept \cap Cleared = {}
    /\ DOMAIN Defaults = Settings
    /\ DOMAIN Valid = Settings /\ DOMAIN Fallback = Settings
    /\ \A k \in Settings : Fallback[k] \in Valid[k]
ASSUME ContentsAssumption ==
    /\ \A f \in Contents : DOMAIN f \subseteq Settings
    /\ Unreadable \notin Contents
ASSUME WritesAssumption == MaxWrites \in Nat

VARIABLES
    file,       \* what is in the file now
    watched,    \* the watcher has the path
    notified,   \* fileChanged is due; further changes add nothing to it
    settings,   \* the members of ConfigManager
    reloading,  \* onConfigFileChanged is between its two loads
    inUse,      \* what the logger and the discovery timer were last told
    reloaded,   \* history: settings were read again since the process started
    unseen,     \* history: a change nobody was told of, and nobody read
    writes      \* history: changes of the file

configVars == <<file, watched, notified, settings, reloading, inUse,
                reloaded, unseen, writes>>

ConfigInit ==
    /\ file \in Contents \cup {Unreadable}
    /\ watched = FALSE /\ notified = FALSE
    /\ settings = Defaults
    /\ reloading = FALSE
    /\ inUse = [k \in Reloadable |-> Defaults[k]]
    /\ reloaded = FALSE /\ unseen = FALSE /\ writes = 0

-----------------------------------------------------------------------------
(***************************************************************************)
(* Somebody edits the file.  The watcher is told of changes to a path it   *)
(* has; when an editor puts a new file in its place it may lose the path,  *)
(* which the code never adds again.                                        *)
(***************************************************************************)
Write(c) ==
    /\ writes < MaxWrites /\ c # file
    /\ file' = c
    /\ writes' = writes + 1
    /\ notified' = (notified \/ watched)
    /\ unseen' = (unseen \/ ~watched)
    /\ watched' \in {watched, FALSE}
    /\ UNCHANGED <<settings, reloading, inUse, reloaded>>

-----------------------------------------------------------------------------
Accepted(k, v) == IF v \in Valid[k] THEN v ELSE Fallback[k]

\* Fault: a list that the file no longer has keeps its entries.
ParsedWithoutClearing(s, f) ==
    [k \in Settings |-> IF k \in DOMAIN f THEN Accepted(k, f[k]) ELSE s[k]]

(***************************************************************************)
(* parse: the settings s after a file with content f.  A value of another  *)
(* type than parse expects keeps the old one, as if the file lacked it.    *)
(* Settings are independent here, which leaves out two that are not:       *)
(* serialization.supported, which a section without it resets to the       *)
(* format and the other one, and discovery.address, which is checked only  *)
(* when the mode is multicast.                                             *)
(***************************************************************************)
Parsed(s, f) ==
    [k \in Settings |->
        CASE k \in DOMAIN f               -> Accepted(k, f[k])
          [] k \in Cleared \ DOMAIN f     -> None
          [] OTHER                        -> s[k]]

\* main loads the file; --log-level overrides what it says of the level.
LoadAtStart(level) ==
    /\ file # Unreadable
    /\ settings' = [Parsed(settings, file) EXCEPT !["level"] = level]
    /\ inUse' = [k \in Reloadable |-> settings'[k]]
    /\ unseen' = FALSE
    /\ UNCHANGED <<file, watched, notified, reloading, reloaded, writes>>

\* addPath fails for a file that is not there.
startWatching ==
    /\ \/ watched' = TRUE
       \/ file = Unreadable /\ watched' = FALSE
    /\ UNCHANGED <<file, notified, settings, reloading, inUse, reloaded, unseen, writes>>

\* onConfigFileChanged up to line 211: the first load already overwrites the
\* settings whose old values are saved after it.
onConfigFileChanged ==
    /\ notified /\ ~reloading
    /\ notified' = FALSE
    /\ IF file = Unreadable
         THEN UNCHANGED <<settings, reloading, reloaded, unseen>>
         ELSE /\ settings' = Parsed(settings, file)
              /\ reloading' = TRUE
              /\ reloaded' = TRUE
              /\ unseen' = FALSE
    /\ UNCHANGED <<file, watched, inUse, writes>>

\* Its second load and all that follows: a reloadable setting is passed on
\* only if this load changed it.
LoadAgain ==
    /\ reloading
    /\ reloading' = FALSE
    /\ IF file = Unreadable
         THEN UNCHANGED <<settings, inUse, unseen>>
         ELSE /\ settings' = Parsed(settings, file)
              /\ inUse' = [k \in Reloadable |->
                    IF settings'[k] # settings[k] THEN settings'[k] ELSE inUse[k]]
              /\ unseen' = FALSE
    /\ UNCHANGED <<file, watched, notified, reloaded, writes>>

-----------------------------------------------------------------------------
ConfigTypeOK ==
    /\ file \in Contents \cup {Unreadable}
    /\ watched \in BOOLEAN /\ notified \in BOOLEAN /\ reloading \in BOOLEAN
    /\ DOMAIN settings = Settings
    /\ DOMAIN inUse = Reloadable
    /\ reloaded \in BOOLEAN /\ unseen \in BOOLEAN
    /\ writes \in 0 .. MaxWrites

\* A setting is what the file says; --log-level counts until a reload.
Follows(k, level) ==
    \/ k \in DOMAIN file /\ settings[k] = Accepted(k, file[k])
    \/ k \in Cleared \ DOMAIN file /\ settings[k] = None
    \/ k \in Kept \ DOMAIN file
    \/ k = "level" /\ ~reloaded /\ settings[k] = level

=============================================================================
