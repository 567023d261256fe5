------------------------------- MODULE PackageMain -------------------------------
(* The two StartOS packages that keep a request for a rebuild across         *)
(* restarts: bitcoind-testnet4 (reindex flags in store.json) and fulcrum (a  *)
(* reindex.request file).  main.ts of each: the setup of a start, step by    *)
(* step, and the oneshot "synced-true"; their reindex actions; Configure.    *)
(* The two are installed independently, so the package is chosen in Init.    *)
(*                                                                           *)
(* Abstractions.  Of each setup only the steps that read or write a file the *)
(* others read are kept; what lies between two awaits is one step.  The      *)
(* memory setting is db_mem of fulcrum.conf, or dbcache of bitcoin.conf,     *)
(* where Synced stands for "undefined".  A oneshot ends with its run.        *)
(*                                                                           *)
(* StartOS is external: a restart stops main and starts it again, one asked  *)
(* for during a start is dropped and a second one kept (reindex.ts says so), *)
(* a changed value that main reads with const asks for a restart.            *)
EXTENDS Naturals, FiniteSets

CONSTANTS Seeded, Synced,  \* the memory setting before and after the first sync
          Chosen,          \* settings that a user may save
          None,
          MaxEvents        \* bound: failures, stops, saves, actions and dips

ASSUME SettingsAssumption == Seeded \in Nat /\ Synced \in 0..Seeded /\ Chosen \subseteq Nat
ASSUME NoneAssumption == None \notin Nat \cup {"blockchain", "chainstate", "index"}
ASSUME EventsAssumption == MaxEvents \in Nat

VARIABLES
    package,    \* which package: it never changes
    desired,    \* running, restarting or stopped
    main,       \* the step of the setup, up, or down
    asked,      \* restarts asked for during this start, at most 2
    requests,   \* rebuilds requested on disk
    synced,     \* fullySynced / syncNotified in store.json
    setting,    \* the memory setting in the config file
    entries,    \* what Fulcrum has of its index: fulc2_db and latch
    readRequests, readSynced,  \* what this start read of the store
    readSetting,               \* what it read of the config file, or None
    arg,        \* the rebuild on the daemon's command line, or None
    built,      \* the daemon is synced
    oneshot,    \* synced-true: waiting, notified, stored, done
    action,     \* the reindex action: idle, status, restart, again
    started,    \* what the action read of the status
    owed,       \* rebuilds that were asked for and have not begun
    lost,       \* those that a start took and did not begin
    told,       \* notifications since the last rebuild began, at most 2
    torn,       \* a run ended between a notification and the save of it, or
                \* between a request's removal and the daemon's start
    events      \* counted for MaxEvents

disk == <<requests, synced, setting, entries>>
memory == <<readRequests, readSynced, readSetting, arg>>
run == <<built, oneshot>>
act == <<action, started>>
history == <<owed, lost, told, torn>>
vars == <<package, desired, main, asked, disk, memory, run, act, history, events>>

Kinds == IF package = "bitcoind" THEN {"blockchain", "chainstate"} ELSE {"index"}
Entries == {"fulc2_db", "latch"}
Setup == {"check", "deleteDb", "deleteLatch", "readSetting", "raise", "clearSynced",
          "clearRequest", "readStore", "readConf", "flags", "launch"}
FirstStep == IF package = "bitcoind" THEN "readStore" ELSE "check"
Settings == {Seeded, Synced} \cup Chosen

TypeOK ==
    /\ package \in {"bitcoind", "fulcrum"}
    /\ desired \in {"running", "restarting", "stopped"}
    /\ main \in Setup \cup {"up", "down"}
    /\ asked \in 0..2
    /\ requests \subseteq Kinds /\ readRequests \subseteq Kinds /\ owed \cup lost \subseteq Kinds
    /\ synced \in BOOLEAN /\ readSynced \in BOOLEAN
    /\ setting \in Settings /\ readSetting \in Settings \cup {None}
    /\ entries \subseteq Entries
    /\ arg \in Kinds \cup {None}
    /\ built \in BOOLEAN /\ started \in BOOLEAN /\ torn \in BOOLEAN
    /\ oneshot \in {"waiting", "notified", "stored", "done"}
    /\ action \in {"idle", "status", "restart", "again"}
    /\ told \in 0..2
    /\ events \in 0..MaxEvents

(* Installed, never started.                                                 *)
Init ==
    /\ package \in {"bitcoind", "fulcrum"}
    /\ desired = "running" /\ main = "down" /\ asked = 0
    /\ requests = {} /\ synced = FALSE /\ setting = Seeded /\ entries = {}
    /\ readRequests = {} /\ readSynced = FALSE /\ readSetting = None /\ arg = None
    /\ built = FALSE /\ oneshot = "waiting"
    /\ action = "idle" /\ started = FALSE
    /\ owed = {} /\ lost = {} /\ told = 0 /\ torn = FALSE
    /\ events = 0

Event == events < MaxEvents /\ events' = events + 1

(* The end of a run, at any step: what it holds in memory is gone.           *)
RunEnds ==
    /\ main' = "down"
    /\ asked' = 0
    /\ readRequests' = {} /\ readSynced' = FALSE /\ readSetting' = None /\ arg' = None
    /\ oneshot' = "waiting"
    /\ lost' = IF main = "launch" THEN lost \cup ({arg} \ {None}) ELSE lost
    /\ torn' = (torn \/ oneshot = "notified" \/ lost' # lost)

(* effects.restart: during a start only the second one counts.               *)
AskRestart ==
    IF main = "up"
    THEN desired' = (IF desired = "running" THEN "restarting" ELSE desired) /\ UNCHANGED asked
    ELSE /\ asked' = IF main = "down" \/ asked = 2 THEN asked ELSE asked + 1
         /\ UNCHANGED desired

(* A save of the config file, which main's const watches once it was read.   *)
SaveSetting(value) ==
    /\ setting' = value
    /\ IF value # setting /\ main \in {"flags", "launch", "up"}
       THEN AskRestart ELSE UNCHANGED <<desired, asked>>

-----------------------------------------------------------------------------
(* The setup of a start.                                                     *)

Step(from, to) == main = from /\ main' = to

Start ==
    /\ desired # "stopped"
    /\ Step("down", FirstStep)
    /\ desired' = "running"
    /\ UNCHANGED <<package, asked, disk, memory, run, act, history, events>>

(* Fulcrum: the marker is removed last, so an interrupted delete repeats.    *)
Check ==
    /\ Step("check", IF requests = {} THEN "readStore" ELSE "deleteDb")
    /\ UNCHANGED <<package, desired, asked, disk, memory, run, act, history, events>>

DeleteEntry ==
    \E entry \in Entries :
       /\ \/ entry = "fulc2_db" /\ Step("deleteDb", "deleteLatch")
          \/ entry = "latch" /\ Step("deleteLatch", "readSetting")
       /\ entries' = entries \ {entry}
       /\ IF entries' = {}
          THEN owed' = {} /\ told' = 0 /\ built' = FALSE
          ELSE UNCHANGED <<owed, told, built>>
       /\ UNCHANGED <<package, desired, asked, requests, synced, setting, memory, oneshot,
                      act, lost, torn, events>>

ReadSetting ==
    /\ Step("readSetting", "raise")
    /\ readSetting' = setting
    /\ UNCHANGED <<package, desired, asked, disk, readRequests, readSynced, arg, run, act,
                   history, events>>

\* Mutant: any setting is raised by what the sync takes more.
RaiseAny ==
    /\ Step("raise", "clearSynced")
    /\ setting' = readSetting + (Seeded - Synced)
    /\ UNCHANGED <<package, desired, asked, requests, synced, entries, memory, run, act,
                   history, events>>

Raise ==
    /\ Step("raise", "clearSynced")
    /\ setting' = IF readSetting = Synced /\ Synced < Seeded THEN Seeded ELSE setting
    /\ UNCHANGED <<package, desired, asked, requests, synced, entries, memory, run, act,
                   history, events>>

\* Mutant: syncNotified is not cleared.
KeepSynced ==
    /\ Step("clearSynced", "clearRequest")
    /\ UNCHANGED <<package, desired, asked, disk, memory, run, act, history, events>>

ClearSynced ==
    /\ Step("clearSynced", "clearRequest")
    /\ synced' = FALSE
    /\ UNCHANGED <<package, desired, asked, requests, setting, entries, memory, run, act,
                   history, events>>

ClearRequest ==
    /\ Step("clearRequest", "readStore")
    /\ requests' = {}
    /\ UNCHANGED <<package, desired, asked, synced, setting, entries, memory, run, act,
                   history, events>>

ReadStore ==
    /\ Step("readStore", "readConf")
    /\ readRequests' = (IF package = "bitcoind" THEN requests ELSE {})
    /\ readSynced' = synced
    /\ UNCHANGED <<package, desired, asked, disk, readSetting, arg, run, act, history, events>>

ReadConf ==
    /\ Step("readConf", IF package = "bitcoind" THEN "flags" ELSE "launch")
    /\ readSetting' = setting
    /\ UNCHANGED <<package, desired, asked, disk, readRequests, readSynced, arg, run, act,
                   history, events>>

\* Mutant: both flags are cleared.
FlagsClearsBoth ==
    /\ Step("flags", "launch")
    /\ arg' = CASE "blockchain" \in readRequests -> "blockchain"
                [] readRequests = {"chainstate"} -> "chainstate"
                [] readRequests = {} -> None
    /\ requests' = requests \ readRequests
    /\ UNCHANGED <<package, desired, asked, synced, setting, entries, readRequests, readSynced,
                   readSetting, run, act, history, events>>

(* bitcoind: of two flags the chainstate one stays for another start.  The   *)
(* flag that the start read is cleared before bitcoind runs.                 *)
Flags ==
    /\ Step("flags", "launch")
    /\ arg' = CASE "blockchain" \in readRequests -> "blockchain"
                [] readRequests = {"chainstate"} -> "chainstate"
                [] readRequests = {} -> None
    /\ requests' = requests \ {arg'}
    /\ UNCHANGED <<package, desired, asked, synced, setting, entries, readRequests, readSynced,
                   readSetting, run, act, history, events>>

(* The daemon runs.  A second restart that was asked for meanwhile is kept.  *)
Launch ==
    /\ Step("launch", "up")
    /\ desired' = IF asked = 2 THEN "restarting" ELSE desired
    /\ asked' = 0
    /\ owed' = owed \ {arg}
    /\ entries' = (IF package = "fulcrum" THEN Entries ELSE {})
    /\ IF arg # None
       THEN built' = FALSE /\ told' = 0
       ELSE UNCHANGED <<built, told>>
    /\ UNCHANGED <<package, requests, synced, setting, memory, oneshot, act, lost, torn, events>>

Restart ==
    /\ main = "up" /\ desired # "running"
    /\ RunEnds
    /\ UNCHANGED <<package, desired, disk, built, act, owed, told, events>>

-----------------------------------------------------------------------------
(* The daemon and the oneshot that runs when the daemon is synced.           *)

BuildEnds ==
    /\ main = "up" /\ ~built
    /\ built' = TRUE
    /\ UNCHANGED <<package, desired, main, asked, disk, memory, oneshot, act, history, events>>

Oneshot(from, to) ==
    /\ main = "up" /\ oneshot = from
    /\ oneshot' = to
    /\ UNCHANGED <<package, main, requests, entries, readRequests, readSetting, arg, built, act,
                   owed, lost, events>>

AlreadyNotified ==
    /\ built /\ readSynced
    /\ Oneshot("waiting", "done")
    /\ UNCHANGED <<desired, asked, synced, setting, readSynced, told, torn>>

Notify ==
    /\ built /\ ~readSynced
    /\ Oneshot("waiting", "notified")
    /\ told' = IF told = 2 THEN 2 ELSE told + 1
    /\ UNCHANGED <<desired, asked, synced, setting, readSynced, torn>>

\* Mutant: the guard in memory is not set.
StoreOnDiskOnly ==
    /\ Oneshot("notified", "stored")
    /\ synced' = TRUE
    /\ UNCHANGED <<desired, asked, setting, readSynced, told, torn>>

StoreSynced ==
    /\ Oneshot("notified", "stored")
    /\ synced' = TRUE /\ readSynced' = TRUE
    /\ UNCHANGED <<desired, asked, setting, told, torn>>

\* Mutant: the setting is lowered whatever it was when main started.
AlwaysLowers == TRUE

(* Fulcrum only reclaims what was seeded; bitcoind sets both to undefined.   *)
Lowers == package = "bitcoind" \/ (readSetting = Seeded /\ Synced < Seeded)

Lower ==
    /\ Oneshot("stored", "done")
    /\ IF Lowers THEN SaveSetting(Synced) ELSE UNCHANGED <<desired, asked, setting>>
    /\ UNCHANGED <<synced, readSynced, told, torn>>

(* The sync-progress check fails for a while: the oneshot runs again.        *)
Dip ==
    /\ Event
    /\ main = "up" /\ oneshot = "done"
    /\ oneshot' = "waiting"
    /\ UNCHANGED <<package, desired, main, asked, disk, memory, built, act, history>>

-----------------------------------------------------------------------------
(* The actions of the user.                                                  *)

(* bitcoind clears fullySynced now, fulcrum when it starts.                  *)
Request(kind) ==
    /\ Event
    /\ action = "idle" /\ kind \in Kinds
    /\ requests' = requests \cup {kind}
    /\ synced' = (synced /\ package = "fulcrum")
    /\ owed' = IF package = "fulcrum" /\ entries = {} THEN owed ELSE owed \cup {kind}
    /\ lost' = lost \ {kind}
    /\ action' = "status"
    /\ UNCHANGED <<package, desired, main, asked, setting, entries, memory, run, started,
                   told, torn>>

(* The status is read; fulcrum waits up to a minute until main has started.  *)
ReadStatus ==
    /\ action = "status"
    /\ started' = (main = "up")
    /\ action' = IF desired = "running" \/ (package = "fulcrum" /\ desired = "restarting")
                 THEN "restart" ELSE "idle"
    /\ UNCHANGED <<package, desired, main, asked, disk, memory, run, history, events>>

\* Mutant: one restart, also when main has not started.
RestartOnce ==
    /\ action = "restart"
    /\ AskRestart
    /\ action' = "idle"
    /\ UNCHANGED <<package, main, disk, memory, run, started, history, events>>

RestartMain ==
    /\ action = "restart"
    /\ AskRestart
    /\ action' = IF package = "fulcrum" /\ ~started THEN "again" ELSE "idle"
    /\ UNCHANGED <<package, main, disk, memory, run, started, history, events>>

RestartAgain ==
    /\ action = "again"
    /\ AskRestart
    /\ action' = "idle"
    /\ UNCHANGED <<package, main, disk, memory, run, started, history, events>>

Configure(value) ==
    /\ Event
    /\ value # setting
    /\ SaveSetting(value)
    /\ UNCHANGED <<package, main, requests, synced, entries, memory, run, act, history>>

StopMain ==
    /\ Event
    /\ desired' = "stopped"
    /\ IF main = "down"
       THEN UNCHANGED <<main, asked, memory, oneshot, lost, torn>> ELSE RunEnds
    /\ UNCHANGED <<package, disk, built, act, owed, told>>

StartMain ==
    /\ desired = "stopped"
    /\ desired' = "running"
    /\ UNCHANGED <<package, main, asked, disk, memory, run, act, history, events>>

(* An exception of the setup, or the container goes down, with the action.   *)
Fails ==
    /\ Event
    /\ main # "down"
    /\ RunEnds
    /\ action' \in {action, "idle"}
    /\ UNCHANGED <<package, desired, disk, built, started, owed, told>>

-----------------------------------------------------------------------------
SetupStep == \/ Start \/ Check \/ DeleteEntry \/ ReadSetting \/ Raise \/ ClearSynced
             \/ ClearRequest \/ ReadStore \/ ReadConf \/ Flags \/ Launch
OneshotStep == AlreadyNotified \/ Notify \/ StoreSynced \/ Lower
ActionStep == ReadStatus \/ RestartMain \/ RestartAgain
UserStep == \/ \E kind \in Kinds : Request(kind)
            \/ \E value \in Chosen : Configure(value)
            \/ StopMain \/ StartMain

Next == \/ SetupStep \/ Restart \/ BuildEnds \/ OneshotStep \/ Dip
        \/ ActionStep \/ UserStep \/ Fails

Spec == Init /\ [][Next]_vars

(* What is started goes on: the setup, the restart, the oneshot, the action. *)
Fairness == /\ WF_vars(SetupStep) /\ WF_vars(Restart)
            /\ WF_vars(OneshotStep) /\ WF_vars(ActionStep)

FairSpec == Spec /\ Fairness

-----------------------------------------------------------------------------
(* A rebuild that was asked for and has not begun is still requested on disk,*)
(* or on the command line of the start that took the request; only a start   *)
(* of bitcoind that fails right then loses it.                               *)
RequestKept ==
    /\ \A kind \in owed \ lost : kind \in requests \/ arg = kind
    /\ package = "fulcrum" => lost = {}

(* The end of a build is notified once, also when the health check that      *)
(* starts the oneshot fails and recovers.                                    *)
SyncToldOnce == told = 2 => torn

(* When Fulcrum runs and its store says that the end of the build has been   *)
(* notified, it has been since the last index was deleted: a rebuild is      *)
(* reported like a first build.                                              *)
SyncedWasTold(p) == package = p /\ main = "up" /\ synced => told > 0

FulcrumReports == SyncedWasTold("fulcrum")

(* The same of bitcoind.                                                     *)
BitcoindReports == SyncedWasTold("bitcoind")

(* Only the user changes a setting of Fulcrum that is neither the seeded nor *)
(* the lowered one and was there when main read it.                          *)
UserSettingKept ==
    [][package = "fulcrum" /\ setting = readSetting /\ setting \notin {Seeded, Synced}
          => setting' = setting \/ \E value \in Chosen : Configure(value)]_vars

(* A Reindex of a running Fulcrum is carried out, also when it was asked for *)
(* while Fulcrum was starting.                                               *)
FulcrumRebuilds ==
    (package = "fulcrum" /\ requests # {}) ~> (requests = {} \/ desired = "stopped")
=============================================================================
