-------------------------- MODULE PackageMainProofs --------------------------
(***************************************************************************)
(* Theorems about the rebuild requests of the two packages, for any        *)
(* settings and any number of failures.                                    *)
(***************************************************************************)
EXTENDS PackageMain, TLAPS

\* Which steps of the setup belong to which package.
DeleteSteps == {"deleteDb", "deleteLatch", "readSetting", "raise", "clearSynced", "clearRequest"}

PlaceInv ==
    /\ main \in DeleteSteps \cup {"check"} => package = "fulcrum"
    /\ main \in DeleteSteps => requests # {}
    /\ main = "flags" => package = "bitcoind"
    /\ package = "fulcrum" => readRequests = {} /\ arg = None
    /\ arg # None => main \in {"launch", "up"}
    /\ oneshot # "waiting" => main = "up"

\* A request of Fulcrum is carried out when the last of the index is deleted,
\* and until the marker is removed; one of bitcoind when the start that took
\* it launches the daemon.
KeptInv ==
    /\ main = "deleteLatch" => "fulc2_db" \notin entries
    /\ main \in DeleteSteps \ {"deleteDb", "deleteLatch"} => entries = {}
    /\ package = "fulcrum" /\ entries = {} => owed = {}
    /\ package = "fulcrum" => lost = {}
    /\ \A kind \in owed \ lost : kind \in requests \/ (main = "launch" /\ arg = kind)

\* A store of Fulcrum that claims a notification from before the index was
\* deleted is read by no run before it is corrected.
ReportedInv ==
    package = "fulcrum" =>
       /\ synced /\ told = 0 =>
             requests # {} /\ main \in {"down", "check"} \cup (DeleteSteps \ {"clearRequest"})
       /\ oneshot = "notified" => told > 0
       /\ main \in DeleteSteps \ {"deleteDb", "deleteLatch"} => told = 0

\* Unless a run was torn, what was notified is on disk, or about to be, or a
\* rebuild is requested that makes it obsolete; a start knows as much.
ToldInv ==
    /\ lost # {} => torn
    /\ ~torn /\ told > 0 =>
          /\ \/ synced \/ oneshot = "notified"
             \/ package = "bitcoind" /\ requests # {}
             \/ main = "launch" /\ arg # None
          /\ main \in {"readConf", "flags"} => readSynced \/ readRequests # {}
          /\ main = "launch" => readSynced \/ arg # None
          /\ main = "up" => readSynced \/ oneshot = "notified"

IInv == TypeOK /\ PlaceInv /\ KeptInv /\ ReportedInv /\ ToldInv

LEMMA InitInv == Init => IInv
<1> SUFFICES ASSUME Init PROVE IInv
  OBVIOUS
<1>1. TypeOK
  <2>1. events \in 0..MaxEvents /\ asked \in 0..2 /\ told \in 0..2
    BY EventsAssumption DEF Init
  <2>2. setting \in Settings
    BY DEF Init, Settings
  <2> QED
    BY <2>1, <2>2 DEF Init, TypeOK
<1>2. PlaceInv /\ KeptInv
  BY NoneAssumption DEF Init, PlaceInv, KeptInv, DeleteSteps
<1>3. ReportedInv /\ ToldInv
  BY DEF Init, ReportedInv, ToldInv, DeleteSteps
<1> QED
  BY <1>1, <1>2, <1>3 DEF IInv

LEMMA KindsFacts ==
    /\ None \notin Kinds
    /\ package = "fulcrum" => Kinds = {"index"}
    /\ package = "bitcoind" => Kinds = {"blockchain", "chainstate"}
BY NoneAssumption DEF Kinds

\* What the end of a run leaves is well typed.
LEMMA RunEndsTypes ==
    ASSUME TypeOK, RunEnds, package' = package
    PROVE  /\ main' = "down" /\ asked' = 0 /\ oneshot' = "waiting"
           /\ readRequests' = {} /\ readSynced' = FALSE
           /\ readSetting' = None /\ arg' = None
           /\ lost' \subseteq Kinds /\ torn' \in BOOLEAN
<1>1. lost' \subseteq Kinds
  BY DEF TypeOK, RunEnds
<1>2. torn' \in BOOLEAN
  BY Zenon DEF RunEnds
<1>3. /\ main' = "down" /\ asked' = 0 /\ oneshot' = "waiting"
      /\ readRequests' = {} /\ readSynced' = FALSE /\ readSetting' = None /\ arg' = None
  BY Zenon DEF RunEnds
<1> QED
  BY <1>1, <1>2, <1>3

LEMMA TypeStep ==
    ASSUME IInv, [Next]_vars
    PROVE  TypeOK'
<1> USE DEF IInv, TypeOK, Setup, Settings, Entries, Kinds, disk, memory, run,
           act, history
<1>1. CASE Start
  BY <1>1 DEF Start, Step, FirstStep
<1>2. CASE Check
  BY <1>2 DEF Check, Step
<1>3. CASE DeleteEntry
  <2>1. entries' \subseteq Entries /\ main' \in Setup
    BY <1>3 DEF DeleteEntry, Step
  <2>2. UNCHANGED <<package, desired, asked, requests, synced, setting, memory, oneshot,
                    act, lost, torn, events>>
    BY <1>3 DEF DeleteEntry
  <2>3. Kinds' = Kinds
    BY <2>2
  <2>4. CASE entries' = {}
    <3>1. owed' = {} /\ told' = 0 /\ built' = FALSE
      BY <1>3, <2>4 DEF DeleteEntry
    <3>2. built' \in BOOLEAN
      BY <3>1
    <3> QED
      BY <2>1, <2>2, <2>3, <3>1, <3>2
  <2>5. CASE entries' # {}
    <3>1. UNCHANGED <<owed, told, built>>
      BY <1>3, <2>5 DEF DeleteEntry
    <3>2. built' \in BOOLEAN
      BY <3>1
    <3> QED
      BY <2>1, <2>2, <2>3, <3>1, <3>2
  <2> QED
    BY <2>4, <2>5
<1>4. CASE ReadSetting
  BY <1>4 DEF ReadSetting, Step
<1>5. CASE Raise
  BY <1>5 DEF Raise, Step
<1>6. CASE ClearSynced
  <2>1. synced' \in BOOLEAN /\ main' \in Setup
    BY <1>6 DEF ClearSynced, Step
  <2> QED
    BY <1>6, <2>1 DEF ClearSynced
<1>7. CASE ClearRequest
  BY <1>7 DEF ClearRequest, Step
<1>8. CASE ReadStore
  BY <1>8 DEF ReadStore, Step
<1>9. CASE ReadConf
  BY <1>9 DEF ReadConf, Step
<1>10. CASE Flags
  <2>1. arg' \in Kinds \cup {None}
    <3>1. readRequests \subseteq {"blockchain", "chainstate"}
      BY <1>10, KindsFacts DEF Flags, Step, PlaceInv
    <3> QED
      BY <1>10, <3>1, KindsFacts DEF Flags, Step, PlaceInv
  <2>2. requests' \subseteq Kinds /\ main' \in Setup
    BY <1>10 DEF Flags, Step
  <2> QED
    <3>1. UNCHANGED <<package, desired, asked, synced, setting, entries, readRequests,
                      readSynced, readSetting, run, act, history, events>>
      BY <1>10 DEF Flags
    <3> QED
      BY <2>1, <2>2, <3>1
<1>11. CASE Launch
  <2>1. desired' \in {"running", "restarting", "stopped"} /\ asked' = 0 /\ main' = "up"
    BY <1>11 DEF Launch, Step
  <2>2. owed' \subseteq Kinds /\ entries' \subseteq Entries
    BY <1>11 DEF Launch
  <2>3. UNCHANGED <<package, requests, synced, setting, memory, oneshot, act, lost, torn,
                    events>>
    BY <1>11 DEF Launch
  <2>4. CASE arg = None
    <3>1. UNCHANGED <<built, told>>
      BY <1>11, <2>4 DEF Launch
    <3>2. /\ synced' \in BOOLEAN /\ readSynced' \in BOOLEAN /\ built' \in BOOLEAN
          /\ started' \in BOOLEAN /\ torn' \in BOOLEAN
      BY <2>3, <3>1
    <3>3. told' \in 0..2 /\ events' \in 0..MaxEvents /\ asked' \in 0..2
      BY <2>1, <2>3, <3>1
    <3>4. owed' \cup lost' \subseteq Kinds
      BY <2>2, <2>3
    <3>5. UNCHANGED <<package, requests, setting, readRequests, readSetting, arg, oneshot,
                      action>>
      BY <2>3
    <3> QED
      BY <2>1, <2>2, <3>2, <3>3, <3>4, <3>5
  <2>5. CASE arg # None
    <3>1. built' = FALSE /\ told' = 0
      BY <1>11, <2>5 DEF Launch
    <3>2. /\ synced' \in BOOLEAN /\ readSynced' \in BOOLEAN /\ built' \in BOOLEAN
          /\ started' \in BOOLEAN /\ torn' \in BOOLEAN
      BY <2>3, <3>1
    <3>3. told' \in 0..2 /\ events' \in 0..MaxEvents /\ asked' \in 0..2
      BY <2>1, <2>3, <3>1
    <3>4. owed' \cup lost' \subseteq Kinds
      BY <2>2, <2>3
    <3>5. UNCHANGED <<package, requests, setting, readRequests, readSetting, arg, oneshot,
                      action>>
      BY <2>3
    <3> QED
      BY <2>1, <2>2, <3>2, <3>3, <3>4, <3>5
  <2> QED
    BY <2>4, <2>5
<1>12. CASE Restart
  <2>1. RunEnds /\ package' = package
    BY <1>12 DEF Restart
  <2>2. /\ synced' \in BOOLEAN /\ readSynced' \in BOOLEAN /\ built' \in BOOLEAN
        /\ started' \in BOOLEAN /\ torn' \in BOOLEAN
    BY <1>12, <2>1, RunEndsTypes DEF Restart
  <2>3. told' \in 0..2 /\ events' \in 0..MaxEvents
    BY <1>12, EventsAssumption DEF Restart
  <2>4. owed' \cup lost' \subseteq Kinds
    BY <1>12, <2>1, RunEndsTypes DEF Restart
  <2>5. /\ desired' \in {"running", "restarting", "stopped"} /\ main' = "down" /\ asked' = 0
        /\ readRequests' = {} /\ readSetting' = None /\ arg' = None /\ oneshot' = "waiting"
    BY <1>12, <2>1, RunEndsTypes DEF Restart
  <2>6. /\ action' \in {"idle", "status", "restart", "again"}
        /\ UNCHANGED <<package, requests, setting, entries>>
    BY <1>12 DEF Restart
  <2> QED
    BY <2>2, <2>3, <2>4, <2>5, <2>6
<1>13. CASE BuildEnds
  BY <1>13 DEF BuildEnds
<1>14. CASE AlreadyNotified
  BY <1>14 DEF AlreadyNotified, Oneshot
<1>15. CASE Notify
  BY <1>15 DEF Notify, Oneshot
<1>16. CASE StoreSynced
  BY <1>16 DEF StoreSynced, Oneshot
<1>17. CASE Lower
  BY <1>17 DEF Lower, Oneshot, SaveSetting, AskRestart
<1>18. CASE Dip
  BY <1>18, EventsAssumption DEF Dip, Event
<1>19. CASE ReadStatus
  BY <1>19 DEF ReadStatus
<1>20. CASE RestartMain
  BY <1>20 DEF RestartMain, AskRestart
<1>21. CASE RestartAgain
  BY <1>21 DEF RestartAgain, AskRestart
<1>22. CASE StopMain
  <2>1. CASE main = "down"
    <3>1. /\ desired' = "stopped"
          /\ UNCHANGED <<main, asked, memory, oneshot, lost, torn>>
          /\ UNCHANGED <<package, disk, built, act, owed, told>>
      BY <1>22, <2>1 DEF StopMain
    <3> QED
      BY <1>22, <3>1, EventsAssumption DEF StopMain, Event
  <2>2. CASE main # "down"
    <3>1. RunEnds /\ package' = package
      BY <1>22, <2>2 DEF StopMain
    <3>2. /\ synced' \in BOOLEAN /\ readSynced' \in BOOLEAN /\ built' \in BOOLEAN
          /\ started' \in BOOLEAN /\ torn' \in BOOLEAN
      BY <1>22, <3>1, RunEndsTypes DEF StopMain
    <3>3. told' \in 0..2 /\ events' \in 0..MaxEvents
      BY <1>22, EventsAssumption DEF StopMain, Event
    <3>4. owed' \cup lost' \subseteq Kinds
      BY <1>22, <3>1, RunEndsTypes DEF StopMain
    <3>5. /\ desired' \in {"running", "restarting", "stopped"} /\ main' = "down" /\ asked' = 0
          /\ readRequests' = {} /\ readSetting' = None /\ arg' = None /\ oneshot' = "waiting"
      BY <1>22, <3>1, RunEndsTypes DEF StopMain
    <3>6. /\ action' \in {"idle", "status", "restart", "again"}
          /\ UNCHANGED <<package, requests, setting, entries>>
      BY <1>22 DEF StopMain
    <3> QED
      BY <3>2, <3>3, <3>4, <3>5, <3>6
  <2> QED
    BY <2>1, <2>2
<1>23. CASE StartMain
  BY <1>23 DEF StartMain
<1>24. CASE Fails
  <2>1. RunEnds /\ package' = package
    BY <1>24 DEF Fails
  <2>2. /\ synced' \in BOOLEAN /\ readSynced' \in BOOLEAN /\ built' \in BOOLEAN
        /\ started' \in BOOLEAN /\ torn' \in BOOLEAN
    BY <1>24, <2>1, RunEndsTypes DEF Fails
  <2>3. told' \in 0..2 /\ events' \in 0..MaxEvents
    BY <1>24, EventsAssumption DEF Fails, Event
  <2>4. owed' \cup lost' \subseteq Kinds
    BY <1>24, <2>1, RunEndsTypes DEF Fails
  <2>5. /\ desired' \in {"running", "restarting", "stopped"} /\ main' = "down" /\ asked' = 0
        /\ readRequests' = {} /\ readSetting' = None /\ arg' = None /\ oneshot' = "waiting"
    BY <1>24, <2>1, RunEndsTypes DEF Fails
  <2>6. /\ action' \in {"idle", "status", "restart", "again"}
        /\ UNCHANGED <<package, requests, setting, entries>>
    BY <1>24 DEF Fails
  <2> QED
    BY <2>2, <2>3, <2>4, <2>5, <2>6
<1>25. CASE \E kind \in Kinds : Request(kind)
  BY <1>25, EventsAssumption DEF Request, Event
<1>26. CASE \E value \in Chosen : Configure(value)
  BY <1>26, EventsAssumption DEF Configure, Event, SaveSetting, AskRestart
<1>27. CASE UNCHANGED vars
  BY <1>27 DEF vars
<1> QED
    BY <1>1, <1>2, <1>3, <1>4, <1>5, <1>6, <1>7, <1>8, <1>9, <1>10, <1>11,
     <1>12, <1>13, <1>14, <1>15, <1>16, <1>17, <1>18, <1>19, <1>20, <1>21,
     <1>22, <1>23, <1>24, <1>25, <1>26, <1>27
  DEF Next, SetupStep, OneshotStep, ActionStep, UserStep

LEMMA PlaceStep ==
    ASSUME IInv, [Next]_vars
    PROVE  PlaceInv'
<1> USE DEF IInv, TypeOK, PlaceInv, DeleteSteps, Entries, Kinds, disk, memory,
           run, act, history
<1>1. CASE Start
  BY <1>1 DEF Start, Step, FirstStep
<1>2. CASE Check
  BY <1>2 DEF Check, Step
<1>3. CASE DeleteEntry
  BY <1>3 DEF DeleteEntry, Step, Entries
<1>4. CASE ReadSetting
  BY <1>4 DEF ReadSetting, Step
<1>5. CASE Raise
  BY <1>5 DEF Raise, Step
<1>6. CASE ClearSynced
  BY <1>6 DEF ClearSynced, Step
<1>7. CASE ClearRequest
  BY <1>7 DEF ClearRequest, Step
<1>8. CASE ReadStore
  BY <1>8 DEF ReadStore, Step
<1>9. CASE ReadConf
  BY <1>9 DEF ReadConf, Step
<1>10. CASE Flags
  BY <1>10 DEF Flags, Step, Kinds
<1>11. CASE Launch
  BY <1>11 DEF Launch, Step, Entries
<1>12. CASE Restart
  BY <1>12 DEF Restart, RunEnds
<1>13. CASE BuildEnds
  BY <1>13 DEF BuildEnds
<1>14. CASE AlreadyNotified
  BY <1>14 DEF AlreadyNotified, Oneshot
<1>15. CASE Notify
  BY <1>15 DEF Notify, Oneshot
<1>16. CASE StoreSynced
  BY <1>16 DEF StoreSynced, Oneshot
<1>17. CASE Lower
  BY <1>17 DEF Lower, Oneshot, SaveSetting, AskRestart
<1>18. CASE Dip
  BY <1>18 DEF Dip, Event
<1>19. CASE ReadStatus
  BY <1>19 DEF ReadStatus
<1>20. CASE RestartMain
  BY <1>20 DEF RestartMain, AskRestart
<1>21. CASE RestartAgain
  BY <1>21 DEF RestartAgain, AskRestart
<1>22. CASE StopMain
  BY <1>22 DEF StopMain, Event, RunEnds
<1>23. CASE StartMain
  BY <1>23 DEF StartMain
<1>24. CASE Fails
  BY <1>24 DEF Fails, Event, RunEnds
<1>25. CASE \E kind \in Kinds : Request(kind)
  BY <1>25 DEF Request, Event
<1>26. CASE \E value \in Chosen : Configure(value)
  BY <1>26 DEF Configure, Event, SaveSetting, AskRestart
<1>27. CASE UNCHANGED vars
  BY <1>27 DEF vars
<1> QED
    BY <1>1, <1>2, <1>3, <1>4, <1>5, <1>6, <1>7, <1>8, <1>9, <1>10, <1>11,
     <1>12, <1>13, <1>14, <1>15, <1>16, <1>17, <1>18, <1>19, <1>20, <1>21,
     <1>22, <1>23, <1>24, <1>25, <1>26, <1>27
  DEF Next, SetupStep, OneshotStep, ActionStep, UserStep

LEMMA KeptStep ==
    ASSUME IInv, [Next]_vars
    PROVE  KeptInv'
<1> USE DEF IInv, TypeOK, PlaceInv, DeleteSteps, Entries, Kinds, disk, memory,
           run, act, history, KeptInv
<1>1. CASE Start
  BY <1>1 DEF Start, Step, FirstStep
<1>2. CASE Check
  BY <1>2 DEF Check, Step
<1>3. CASE DeleteEntry
  BY <1>3 DEF DeleteEntry, Step, Entries
<1>4. CASE ReadSetting
  BY <1>4 DEF ReadSetting, Step
<1>5. CASE Raise
  BY <1>5 DEF Raise, Step
<1>6. CASE ClearSynced
  BY <1>6 DEF ClearSynced, Step
<1>7. CASE ClearRequest
  BY <1>7 DEF ClearRequest, Step
<1>8. CASE ReadStore
  BY <1>8 DEF ReadStore, Step
<1>9. CASE ReadConf
  BY <1>9 DEF ReadConf, Step
<1>10. CASE Flags
  BY <1>10 DEF Flags, Step, Kinds
<1>11. CASE Launch
  BY <1>11 DEF Launch, Step, Entries
<1>12. CASE Restart
  BY <1>12 DEF Restart, RunEnds
<1>13. CASE BuildEnds
  BY <1>13 DEF BuildEnds
<1>14. CASE AlreadyNotified
  BY <1>14 DEF AlreadyNotified, Oneshot
<1>15. CASE Notify
  BY <1>15 DEF Notify, Oneshot
<1>16. CASE StoreSynced
  BY <1>16 DEF StoreSynced, Oneshot
<1>17. CASE Lower
  BY <1>17 DEF Lower, Oneshot, SaveSetting, AskRestart
<1>18. CASE Dip
  BY <1>18 DEF Dip, Event
<1>19. CASE ReadStatus
  BY <1>19 DEF ReadStatus
<1>20. CASE RestartMain
  BY <1>20 DEF RestartMain, AskRestart
<1>21. CASE RestartAgain
  BY <1>21 DEF RestartAgain, AskRestart
<1>22. CASE StopMain
  BY <1>22, NoneAssumption DEF StopMain, Event, RunEnds
<1>23. CASE StartMain
  BY <1>23 DEF StartMain
<1>24. CASE Fails
  BY <1>24, NoneAssumption DEF Fails, Event, RunEnds
<1>25. CASE \E kind \in Kinds : Request(kind)
  BY <1>25 DEF Request, Event
<1>26. CASE \E value \in Chosen : Configure(value)
  BY <1>26 DEF Configure, Event, SaveSetting, AskRestart
<1>27. CASE UNCHANGED vars
  BY <1>27 DEF vars
<1> QED
    BY <1>1, <1>2, <1>3, <1>4, <1>5, <1>6, <1>7, <1>8, <1>9, <1>10, <1>11,
     <1>12, <1>13, <1>14, <1>15, <1>16, <1>17, <1>18, <1>19, <1>20, <1>21,
     <1>22, <1>23, <1>24, <1>25, <1>26, <1>27
  DEF Next, SetupStep, OneshotStep, ActionStep, UserStep

LEMMA ReportedStep ==
    ASSUME IInv, [Next]_vars
    PROVE  ReportedInv'
<1> USE DEF IInv, TypeOK, PlaceInv, DeleteSteps, Entries, Kinds, disk, memory,
           run, act, history, KeptInv, ReportedInv
<1>1. CASE Start
  BY <1>1 DEF Start, Step, FirstStep
<1>2. CASE Check
  BY <1>2 DEF Check, Step
<1>3. CASE DeleteEntry
  BY <1>3 DEF DeleteEntry, Step, Entries
<1>4. CASE ReadSetting
  BY <1>4 DEF ReadSetting, Step
<1>5. CASE Raise
  BY <1>5 DEF Raise, Step
<1>6. CASE ClearSynced
  BY <1>6 DEF ClearSynced, Step
<1>7. CASE ClearRequest
  BY <1>7 DEF ClearRequest, Step
<1>8. CASE ReadStore
  BY <1>8 DEF ReadStore, Step
<1>9. CASE ReadConf
  BY <1>9 DEF ReadConf, Step
<1>10. CASE Flags
  BY <1>10 DEF Flags, Step, Kinds
<1>11. CASE Launch
  BY <1>11 DEF Launch, Step, Entries
<1>12. CASE Restart
  BY <1>12 DEF Restart, RunEnds
<1>13. CASE BuildEnds
  BY <1>13 DEF BuildEnds
<1>14. CASE AlreadyNotified
  BY <1>14 DEF AlreadyNotified, Oneshot
<1>15. CASE Notify
  BY <1>15 DEF Notify, Oneshot
<1>16. CASE StoreSynced
  BY <1>16 DEF StoreSynced, Oneshot
<1>17. CASE Lower
  BY <1>17 DEF Lower, Oneshot, SaveSetting, AskRestart
<1>18. CASE Dip
  BY <1>18 DEF Dip, Event
<1>19. CASE ReadStatus
  BY <1>19 DEF ReadStatus
<1>20. CASE RestartMain
  BY <1>20 DEF RestartMain, AskRestart
<1>21. CASE RestartAgain
  BY <1>21 DEF RestartAgain, AskRestart
<1>22. CASE StopMain
  BY <1>22 DEF StopMain, Event, RunEnds
<1>23. CASE StartMain
  BY <1>23 DEF StartMain
<1>24. CASE Fails
  BY <1>24 DEF Fails, Event, RunEnds
<1>25. CASE \E kind \in Kinds : Request(kind)
  BY <1>25 DEF Request, Event
<1>26. CASE \E value \in Chosen : Configure(value)
  BY <1>26 DEF Configure, Event, SaveSetting, AskRestart
<1>27. CASE UNCHANGED vars
  BY <1>27 DEF vars
<1> QED
    BY <1>1, <1>2, <1>3, <1>4, <1>5, <1>6, <1>7, <1>8, <1>9, <1>10, <1>11,
     <1>12, <1>13, <1>14, <1>15, <1>16, <1>17, <1>18, <1>19, <1>20, <1>21,
     <1>22, <1>23, <1>24, <1>25, <1>26, <1>27
  DEF Next, SetupStep, OneshotStep, ActionStep, UserStep

LEMMA ToldStep ==
    ASSUME IInv, [Next]_vars
    PROVE  ToldInv'
<1> USE DEF IInv, TypeOK, PlaceInv, DeleteSteps, Entries, Kinds, disk, memory,
           run, act, history, KeptInv, ReportedInv, ToldInv
<1>1. CASE Start
  BY <1>1 DEF Start, Step, FirstStep
<1>2. CASE Check
  BY <1>2 DEF Check, Step
<1>3. CASE DeleteEntry
  BY <1>3 DEF DeleteEntry, Step, Entries
<1>4. CASE ReadSetting
  BY <1>4 DEF ReadSetting, Step
<1>5. CASE Raise
  BY <1>5 DEF Raise, Step
<1>6. CASE ClearSynced
  BY <1>6 DEF ClearSynced, Step
<1>7. CASE ClearRequest
  BY <1>7 DEF ClearRequest, Step
<1>8. CASE ReadStore
  BY <1>8 DEF ReadStore, Step
<1>9. CASE ReadConf
  BY <1>9 DEF ReadConf, Step
<1>10. CASE Flags
  BY <1>10, NoneAssumption DEF Flags, Step, Kinds
<1>11. CASE Launch
  BY <1>11 DEF Launch, Step, Entries
<1>12. CASE Restart
  BY <1>12 DEF Restart, RunEnds
<1>13. CASE BuildEnds
  BY <1>13 DEF BuildEnds
<1>14. CASE AlreadyNotified
  BY <1>14 DEF AlreadyNotified, Oneshot
<1>15. CASE Notify
  BY <1>15 DEF Notify, Oneshot
<1>16. CASE StoreSynced
  BY <1>16 DEF StoreSynced, Oneshot
<1>17. CASE Lower
  BY <1>17 DEF Lower, Oneshot, SaveSetting, AskRestart
<1>18. CASE Dip
  BY <1>18 DEF Dip, Event
<1>19. CASE ReadStatus
  BY <1>19 DEF ReadStatus
<1>20. CASE RestartMain
  BY <1>20 DEF RestartMain, AskRestart
<1>21. CASE RestartAgain
  BY <1>21 DEF RestartAgain, AskRestart
<1>22. CASE StopMain
  BY <1>22 DEF StopMain, Event, RunEnds
<1>23. CASE StartMain
  BY <1>23 DEF StartMain
<1>24. CASE Fails
  BY <1>24 DEF Fails, Event, RunEnds
<1>25. CASE \E kind \in Kinds : Request(kind)
  BY <1>25 DEF Request, Event
<1>26. CASE \E value \in Chosen : Configure(value)
  BY <1>26 DEF Configure, Event, SaveSetting, AskRestart
<1>27. CASE UNCHANGED vars
  BY <1>27 DEF vars
<1> QED
    BY <1>1, <1>2, <1>3, <1>4, <1>5, <1>6, <1>7, <1>8, <1>9, <1>10, <1>11,
     <1>12, <1>13, <1>14, <1>15, <1>16, <1>17, <1>18, <1>19, <1>20, <1>21,
     <1>22, <1>23, <1>24, <1>25, <1>26, <1>27
  DEF Next, SetupStep, OneshotStep, ActionStep, UserStep

LEMMA ToldOnceStep ==
    ASSUME IInv, SyncToldOnce, [Next]_vars
    PROVE  SyncToldOnce'
<1> USE DEF IInv, TypeOK, PlaceInv, DeleteSteps, Entries, Kinds, disk, memory,
           run, act, history, ToldInv, SyncToldOnce
<1>1. CASE Start
  BY <1>1 DEF Start, Step, FirstStep
<1>2. CASE Check
  BY <1>2 DEF Check, Step
<1>3. CASE DeleteEntry
  BY <1>3 DEF DeleteEntry, Step, Entries
<1>4. CASE ReadSetting
  BY <1>4 DEF ReadSetting, Step
<1>5. CASE Raise
  BY <1>5 DEF Raise, Step
<1>6. CASE ClearSynced
  BY <1>6 DEF ClearSynced, Step
<1>7. CASE ClearRequest
  BY <1>7 DEF ClearRequest, Step
<1>8. CASE ReadStore
  BY <1>8 DEF ReadStore, Step
<1>9. CASE ReadConf
  BY <1>9 DEF ReadConf, Step
<1>10. CASE Flags
  BY <1>10 DEF Flags, Step, Kinds
<1>11. CASE Launch
  BY <1>11 DEF Launch, Step, Entries
<1>12. CASE Restart
  BY <1>12 DEF Restart, RunEnds
<1>13. CASE BuildEnds
  BY <1>13 DEF BuildEnds
<1>14. CASE AlreadyNotified
  BY <1>14 DEF AlreadyNotified, Oneshot
<1>15. CASE Notify
  BY <1>15 DEF Notify, Oneshot
<1>16. CASE StoreSynced
  BY <1>16 DEF StoreSynced, Oneshot
<1>17. CASE Lower
  BY <1>17 DEF Lower, Oneshot, SaveSetting, AskRestart
<1>18. CASE Dip
  BY <1>18 DEF Dip, Event
<1>19. CASE ReadStatus
  BY <1>19 DEF ReadStatus
<1>20. CASE RestartMain
  BY <1>20 DEF RestartMain, AskRestart
<1>21. CASE RestartAgain
  BY <1>21 DEF RestartAgain, AskRestart
<1>22. CASE StopMain
  BY <1>22 DEF StopMain, Event, RunEnds
<1>23. CASE StartMain
  BY <1>23 DEF StartMain
<1>24. CASE Fails
  BY <1>24 DEF Fails, Event, RunEnds
<1>25. CASE \E kind \in Kinds : Request(kind)
  BY <1>25 DEF Request, Event
<1>26. CASE \E value \in Chosen : Configure(value)
  BY <1>26 DEF Configure, Event, SaveSetting, AskRestart
<1>27. CASE UNCHANGED vars
  BY <1>27 DEF vars
<1> QED
    BY <1>1, <1>2, <1>3, <1>4, <1>5, <1>6, <1>7, <1>8, <1>9, <1>10, <1>11,
     <1>12, <1>13, <1>14, <1>15, <1>16, <1>17, <1>18, <1>19, <1>20, <1>21,
     <1>22, <1>23, <1>24, <1>25, <1>26, <1>27
  DEF Next, SetupStep, OneshotStep, ActionStep, UserStep

LEMMA Inductive == IInv /\ [Next]_vars => IInv'
BY TypeStep, PlaceStep, KeptStep, ReportedStep, ToldStep DEF IInv

LEMMA Invariant == Spec => []IInv
BY InitInv, Inductive, PTL DEF Spec

(***************************************************************************)
(* The theorems.                                                           *)
(***************************************************************************)
\* Every variable keeps its type, for any settings and any number of failures.
THEOREM TypeCorrect == Spec => []TypeOK
<1>1. IInv => TypeOK
  BY DEF IInv
<1> QED
  BY <1>1, Invariant, PTL

\* A rebuild that was asked for is on disk, or on the command line of the start
\* that took it, until it begins (main.ts:97-103, fulcrum main.ts:19-34).
THEOREM RequestsAreKept == Spec => []RequestKept
<1>1. IInv => RequestKept
  BY DEF IInv, KeptInv, RequestKept
<1> QED
  BY <1>1, Invariant, PTL

\* The end of a build is notified once, unless a run ends between the
\* notification and the save of it (fulcrum main.ts:163-200).
THEOREM ToldOnce == Spec => []SyncToldOnce
<1>1. Init => SyncToldOnce
  BY DEF Init, SyncToldOnce
<1>2. IInv /\ SyncToldOnce /\ [Next]_vars => SyncToldOnce'
  BY ToldOnceStep
<1> QED
  BY <1>1, <1>2, Invariant, PTL DEF Spec

\* A Fulcrum that runs with syncNotified set was reported since its last index
\* was deleted (fulcrum main.ts:32, 163-200).
THEOREM FulcrumIsReported == Spec => []FulcrumReports
<1>1. IInv => FulcrumReports
  BY DEF IInv, TypeOK, ReportedInv, FulcrumReports, SyncedWasTold, DeleteSteps
<1> QED
  BY <1>1, Invariant, PTL

\* Only the user changes a setting of Fulcrum that main did not seed or lower
\* (fulcrum main.ts:26-31, 165-200).
THEOREM SettingIsKept == Spec => UserSettingKept
<1> DEFINE Kept ==
      package = "fulcrum" /\ setting = readSetting /\ setting \notin {Seeded, Synced}
         => setting' = setting \/ \E value \in Chosen : Configure(value)
<1>1. ASSUME [Next]_vars PROVE Kept
  <2>1. CASE Raise
    BY <2>1 DEF Raise
  <2>2. CASE Lower
    BY <2>2 DEF Lower, Lowers, Oneshot
  <2>3. CASE UserStep
    BY <2>3 DEF UserStep, Request, StopMain, StartMain, disk
  <2>4. CASE SetupStep /\ ~Raise
    BY <2>4 DEF SetupStep, Start, Check, DeleteEntry, ReadSetting, ClearSynced,
        ClearRequest,
                ReadStore, ReadConf, Flags, Launch, disk
  <2>5. CASE Restart \/ BuildEnds \/ (OneshotStep /\ ~Lower) \/ Dip \/ ActionStep \/ Fails
    BY <2>5 DEF Restart, BuildEnds, OneshotStep, AlreadyNotified, Notify, StoreSynced,
        Oneshot,
                Dip, ActionStep, ReadStatus, RestartMain, RestartAgain, Fails, disk
  <2>6. CASE UNCHANGED vars
    BY <2>6 DEF vars, disk
  <2> QED
    BY <1>1, <2>1, <2>2, <2>3, <2>4, <2>5, <2>6 DEF Next
<1> QED
  BY <1>1, PTL DEF Spec, UserSettingKept
=============================================================================
