------------------------- MODULE BuildPipelineProofs -------------------------
(***************************************************************************)
(* Proofs about BuildPipeline, for every set of configs and exit codes:    *)
(* what is published, what Build returns and what it leaves behind, and    *)
(* that it implements BuildContract.                                       *)
(***************************************************************************)
EXTENDS BuildPipeline, SequenceTheorems, TLAPS

-----------------------------------------------------------------------------
(* The plan of a build.                                                    *)

(* The kinds of the commands and scan steps.                               *)
Names == {"module", "install", "groupinstall", "clean", "pattern", "refresh",
          "update", "rm-lists", "mmdebstrap", "reject", "check", "eval", "fix",
          "fetch", "oval"}

(* Opt is a sequence of names whatever its condition.                    *)
LEMMA OptType == \A p \in BOOLEAN : \A s \in Names : Opt(p, s) \in Seq(Names)
<1> SUFFICES ASSUME NEW p \in BOOLEAN, NEW s \in Names PROVE Opt(p, s) \in Seq(Names)
  OBVIOUS
<1>1. <<s>> \in Seq(Names) /\ <<>> \in Seq(Names)
  OBVIOUS
<1> QED BY <1>1, Zenon DEF Opt

(* The install commands of every backend form a sequence of names          *)
(* (InstallCommands and InstallRootCommands).                              *)
LEMMA CommandsType == \A c \in ConfigType : CommandsOf(c) \in Seq(Names)
<1> SUFFICES ASSUME NEW c \in ConfigType PROVE CommandsOf(c) \in Seq(Names)
  OBVIOUS
<1> DEFINE i == c.install
<1>1. i \in InstallType BY DEF ConfigType
<1>a. /\ i.modules \in BOOLEAN /\ i.packages \in BOOLEAN /\ i.groups \in BOOLEAN
      /\ i.clean \in BOOLEAN /\ i.refresh \in BOOLEAN
  BY <1>1 DEF InstallType
<1> HIDE DEF i
<1>2. DnfCommands(i) \in Seq(Names)
  <2> DEFINE body == Opt(i.modules, "module") \o Opt(i.packages, "install")
                        \o Opt(i.groups, "groupinstall")
  <2>1. body \in Seq(Names) BY <1>a, OptType DEF Names
  <2> HIDE DEF body
  <2>2. Opt(i.clean /\ body # <<>>, "clean") \in Seq(Names) BY <1>a, OptType DEF Names
  <2> QED BY <2>1, <2>2 DEF DnfCommands, body
<1>3. ZypperParent(i) \in Seq(Names)
  <2> DEFINE body == Opt(i.packages, "install") \o Opt(i.groups, "pattern")
  <2>1. body \in Seq(Names) BY <1>a, OptType DEF Names
  <2> HIDE DEF body
  <2>2. /\ Opt(i.clean /\ body # <<>>, "clean") \in Seq(Names)
        /\ Opt(i.refresh /\ body # <<>>, "refresh") \in Seq(Names) BY <1>a, OptType DEF Names
  <2> QED BY <2>1, <2>2 DEF ZypperParent, body
<1>4. ZypperRoot(i) \in Seq(Names)
  <2>1. /\ <<"refresh">> \in Seq(Names) /\ Opt(i.packages, "install") \in Seq(Names)
        /\ Opt(i.groups, "pattern") \in Seq(Names) /\ Opt(i.clean, "clean") \in Seq(Names)
    BY <1>a, OptType DEF Names
  <2> QED BY <2>1 DEF ZypperRoot
<1>5. AptParent(i) \in Seq(Names)
  <2>1. /\ <<"update">> \in Seq(Names) /\ Opt(i.packages, "install") \in Seq(Names)
        /\ <<"clean", "rm-lists">> \in Seq(Names) /\ <<>> \in Seq(Names)
    BY <1>a, OptType DEF Names
  <2>2. (IF i.clean THEN <<"clean", "rm-lists">> ELSE <<>>) \in Seq(Names)
    BY <2>1, Zenon
  <2> QED BY <2>1, <2>2 DEF AptParent
<1>6. <<"mmdebstrap">> \in Seq(Names) /\ <<>> \in Seq(Names)
  BY DEF Names
<1> QED BY <1>2, <1>3, <1>4, <1>5, <1>6 DEF CommandsOf, InstallCommands, i

(* So do the steps of a scan (Scanner.Run).                                *)
LEMMA ScanStepsType == \A c \in ConfigType : ScanSteps(c) \in Seq(Names)
<1> SUFFICES ASSUME NEW c \in ConfigType PROVE ScanSteps(c) \in Seq(Names)
  OBVIOUS
<1> DEFINE o == c.oscap
           install == IF c.backend = "mmdebstrap" THEN <<"reject">>
                      ELSE Opt(c.backend = "apt", "update") \o <<"install">>
           bench   == IF o.complete THEN <<"eval", "fix">> ELSE <<"reject">>
           oval    == IF o.complete THEN <<"fetch", "oval">> ELSE <<"reject">>
<1>0. /\ <<"update">> \in Seq(Names) /\ <<"install">> \in Seq(Names)
      /\ <<"reject">> \in Seq(Names) /\ <<"eval", "fix">> \in Seq(Names)
      /\ <<"fetch", "oval">> \in Seq(Names) /\ <<>> \in Seq(Names)
  BY DEF Names
<1>1. Opt(c.backend = "apt", "update") \in Seq(Names)
  BY <1>0, Zenon DEF Opt
<1>2. install \in Seq(Names)
  <2>1. Opt(c.backend = "apt", "update") \o <<"install">> \in Seq(Names)
    BY <1>0, <1>1
  <2> QED BY <1>0, <2>1, Zenon
<1>3. bench \in Seq(Names) /\ oval \in Seq(Names)
  BY <1>0, Zenon
<1> HIDE DEF o, install, bench, oval
<1>4. /\ (IF o.install THEN install ELSE <<>>) \in Seq(Names)
      /\ (IF o.bench THEN bench ELSE <<>>) \in Seq(Names)
      /\ (IF o.oval THEN oval ELSE <<>>) \in Seq(Names)
  BY <1>0, <1>2, <1>3, Zenon
<1>5. (IF o.install THEN install ELSE <<>>) \o <<"check">>
         \o (IF o.bench THEN bench ELSE <<>>)
         \o (IF o.oval THEN oval ELSE <<>>) \in Seq(Names)
  <2>1. <<"check">> \in Seq(Names) BY DEF Names
  <2> QED BY <1>4, <2>1
<1> QED BY <1>0, <1>5, Zenon DEF ScanSteps, o, install, bench, oval

(* The number of items of a stage is a natural number.                     *)
LEMMA CountType == \A c \in ConfigType : \A s \in Stages : Count(c, s) \in Nat
<1> SUFFICES ASSUME NEW c \in ConfigType, NEW s \in Stages PROVE Count(c, s) \in Nat
  OBVIOUS
<1>1. /\ Len(CommandsOf(c)) \in Nat /\ Len(ScanSteps(c)) \in Nat
  BY CommandsType, ScanStepsType
<1>2. /\ c.repos \in Nat /\ c.keys \in Nat /\ c.files \in Nat /\ c.dirs \in Nat
      /\ Len(c.commands) \in Nat
  BY DEF ConfigType
<1> QED BY <1>1, <1>2 DEF Count, Stages

(* Both orders run every stage (the two orders of Builder.Build).          *)
LEMMA OrderStages ==
    \A c : /\ Len(Order(c)) = 10
           /\ \A j \in 1..10 : Order(c)[j] \in Stages
           /\ \A s \in Stages : \E j \in 1..10 : Order(c)[j] = s
<1> SUFFICES ASSUME NEW c
    PROVE  /\ Len(Order(c)) = 10
           /\ \A j \in 1..10 : Order(c)[j] \in Stages
           /\ \A s \in Stages : \E j \in 1..10 : Order(c)[j] = s
  OBVIOUS
<1>1. CASE InstallFirst(c)
  <2>0. Order(c) = <<"bootstrap", "install", "manager", "repos", "gpg", "files", "dirs",
           "commands", "remove", "oscap">>
    BY <1>1 DEF Order
  <2>1. /\ Order(c)[1] = "bootstrap" /\ Order(c)[2] = "install" /\ Order(c)[3] = "manager"
        /\ Order(c)[4] = "repos" /\ Order(c)[5] = "gpg" /\ Order(c)[6] = "files"
        /\ Order(c)[7] = "dirs" /\ Order(c)[8] = "commands" /\ Order(c)[9] = "remove"
        /\ Order(c)[10] = "oscap" /\ Len(Order(c)) = 10
    BY <2>0
  <2>2. \A s \in Stages : \E j \in 1..10 : Order(c)[j] = s
    BY <2>1 DEF Stages
  <2>3. \A j \in 1..10 : Order(c)[j] \in Stages
    BY <2>1 DEF Stages
  <2> QED BY <2>1, <2>2, <2>3
<1>2. CASE ~InstallFirst(c)
  <2>0. Order(c) = <<"manager", "bootstrap", "repos", "gpg", "files", "dirs", "install",
          "commands", "remove", "oscap">>
    BY <1>2 DEF Order
  <2>1. /\ Order(c)[1] = "manager" /\ Order(c)[2] = "bootstrap" /\ Order(c)[3] = "repos"
        /\ Order(c)[4] = "gpg" /\ Order(c)[5] = "files" /\ Order(c)[6] = "dirs"
        /\ Order(c)[7] = "install" /\ Order(c)[8] = "commands" /\ Order(c)[9] = "remove"
        /\ Order(c)[10] = "oscap" /\ Len(Order(c)) = 10
    BY <2>0
  <2>2. \A s \in Stages : \E j \in 1..10 : Order(c)[j] = s
    BY <2>1 DEF Stages
  <2>3. \A j \in 1..10 : Order(c)[j] \in Stages
    BY <2>1 DEF Stages
  <2> QED BY <2>1, <2>2, <2>3
<1> QED BY <1>1, <1>2

-----------------------------------------------------------------------------
(* Type correctness.                                                       *)

(* Popping a deferred call leaves one of the stacks Build can be in.       *)
LEMMA PopType ==
    ASSUME defers \in {<<>>, <<"prune">>, <<"prune", "delete">>}, defers # <<>>
    PROVE  SubSeq(defers, 1, Len(defers) - 1) \in {<<>>, <<"prune">>, <<"prune", "delete">>}
<1>1. CASE defers = <<"prune">>
  <2>1. SubSeq(<<"prune">>, 1, Len(<<"prune">>) - 1) = <<>>
    OBVIOUS
  <2> QED BY <1>1, <2>1, Zenon
<1>2. CASE defers = <<"prune", "delete">>
  <2> DEFINE s == SubSeq(<<"prune", "delete">>, 1, 1)
  <2>1. Len(<<"prune", "delete">>) - 1 = 1
    OBVIOUS
  <2>2. s \in Seq({"prune", "delete"}) /\ Len(s) = 1 /\ s[1] = "prune"
    OBVIOUS
  <2> HIDE DEF s
  <2>3. s = <<"prune">>
    BY <2>2
  <2>4. SubSeq(<<"prune", "delete">>, 1, Len(<<"prune", "delete">>) - 1) = <<"prune">>
    BY <2>1, <2>3 DEF s
  <2> QED BY <1>2, <2>4, Zenon
<1> QED BY <1>1, <1>2

(* What a typed state says of the loop it is in.                           *)
LEMMA StageFacts ==
    ASSUME ControlType
    PROVE  /\ cfg \in ConfigType
           /\ cfg.pubs \in Nat \ {0}
           /\ Len(Order(cfg)) = 10
           /\ \A p \in 1..10 : /\ Order(cfg)[p] \in Stages
                               /\ Count(cfg, Order(cfg)[p]) \in Nat
           /\ stage \in Stages /\ Count(cfg, stage) \in Nat
<1>1. cfg \in ConfigType BY ConfigsAssumption DEF ControlType
<1>2. cfg.pubs \in Nat \ {0} BY <1>1 DEF ConfigType
<1>3. Len(Order(cfg)) = 10 /\ \A p \in 1..10 : Order(cfg)[p] \in Stages
  BY OrderStages
<1>4. \A p \in 1..10 : Count(cfg, Order(cfg)[p]) \in Nat
  BY <1>1, <1>3, CountType
<1> QED BY <1>1, <1>2, <1>3, <1>4 DEF ControlType, stage

Steps == {"start", "skeleton", "placed", "imported", "written", "ready",
          "ran", "failed", "verified", "staged"}

(* What every action of a stage does to the control variables: it finishes *)
(* the current item, goes on inside it, or ends the build.                 *)
StageMove ==
    /\ phase = "stages" /\ idx < Count(cfg, stage)
    /\ cfg' = cfg
    /\ ItemDone \/ (\E s \in Steps : Goto(s)) \/ Return("error")

StageActions == Writes \/ Prepare \/ Gpg \/ Commands \/ Scan

(* The actions of the stages are such moves, and touch nothing outside the *)
(* files and the command in flight.                                        *)
LEMMA StageActionsMove ==
    StageActions => StageMove /\ running' \in {running, "none"} /\ UNCHANGED outside
<1> USE DEF StageMove, outside
<1>1. CASE ApplyManagerConfig
  BY <1>1 DEF ApplyManagerConfig, Write, InStage, ItemDone, Return
<1>2. CASE WriteRepo
  BY <1>2 DEF WriteRepo, Write, InStage, ItemDone, Return
<1>3. CASE WriteCustomFile
  BY <1>3 DEF WriteCustomFile, Write, InStage, ItemDone, Return
<1>4. CASE WriteDirectory
  BY <1>4 DEF WriteDirectory, Write, InStage, ItemDone, Return
<1>5. CASE Bootstrap
  BY <1>5 DEF Bootstrap, InStage, ItemDone, Goto, Steps
<1>6. CASE InitRpmDatabase
  BY <1>6 DEF InitRpmDatabase, InStage, ItemDone, Returned
<1>7. CASE InstallCommand
  BY <1>7 DEF InstallCommand, InStage, ItemDone, Return, Returned, Mandate
<1>8. CASE RemovePackages
  BY <1>8 DEF RemovePackages, InStage, ItemDone, Return, Returned, Mandate
<1>9. CASE PlaceKey
  BY <1>9 DEF PlaceKey, InStage, ItemDone, Goto, Steps
<1>10. CASE ImportKey
  BY <1>10 DEF ImportKey, InStage, Goto, Returned, Steps
<1>11. CASE CleanupKey
  BY <1>11 DEF CleanupKey, InStage, ItemDone, Returned
<1>12. CASE ResolveEnvFails
  BY <1>12 DEF ResolveEnvFails, Return, InStage
<1>13. CASE RunCommand
  BY <1>13 DEF RunCommand, AtItem, InStage, ItemDone, Return, Returned, Mandate
<1>14. CASE WriteScript
  BY <1>14 DEF WriteScript, AtItem, InStage, Goto, Return, Steps
<1>15. CASE ChmodScript
  BY <1>15 DEF ChmodScript, AtItem, InStage, Goto, Return, Returned, Steps
<1>16. CASE ExecScript
  BY <1>16 DEF ExecScript, AtItem, InStage, Goto, Returned, Steps
<1>17. CASE RemoveScript
  BY <1>17 DEF RemoveScript, AtItem, InStage, ItemDone, Return, Returned
<1>18. CASE VerifyAnsible
  BY <1>18 DEF VerifyAnsible, AtItem, InStage, Goto, Return, Returned, Steps
<1>19. CASE StagePayload
  BY <1>19 DEF StagePayload, AtItem, InStage, Goto, Return, Steps
<1>20. CASE ResolvePathsFail
  BY <1>20 DEF ResolvePathsFail, AtItem, InStage, Return
<1>21. CASE RunPlaybook
  BY <1>21 DEF RunPlaybook, AtItem, InStage, ItemDone, Return, Returned, Mandate
<1>22. CASE ScanCommand
  BY <1>22 DEF ScanCommand, InStage, ItemDone, Return, Returned, Mandate, Attempt
<1>23. CASE ScanFetch
  BY <1>23 DEF ScanFetch, InStage, ItemDone, Return
<1>24. CASE ScanReject
  BY <1>24 DEF ScanReject, Return, InStage
<1> QED
  BY <1>1, <1>2, <1>3, <1>4, <1>5, <1>6, <1>7, <1>8, <1>9, <1>10, <1>11,
     <1>12, <1>13, <1>14, <1>15, <1>16, <1>17, <1>18, <1>19, <1>20,
     <1>21, <1>22, <1>23, <1>24
     DEF StageActions, Writes, Prepare, Gpg, Commands, Scan

(* A move of a stage keeps the types of the control variables.             *)
LEMMA StageMoveType == ControlType /\ StageMove => ControlType' /\ phase' \in {"stages", "unwind"}
<1> SUFFICES ASSUME ControlType, StageMove
             PROVE  ControlType' /\ phase' \in {"stages", "unwind"}
  OBVIOUS
<1>1. Count(cfg, stage) \in Nat
  BY StageFacts
<1>2. CASE ItemDone
  <2>1. cfg' = cfg /\ pos' = pos /\ phase' = "stages" /\ idx' = idx + 1 /\ stage' = stage
    BY <1>2 DEF ItemDone, StageMove, stage
  <2>2. idx' \in Nat /\ idx' <= Count(cfg, stage)
    BY <1>1, <2>1 DEF ControlType, StageMove
  <2>3. step' = "start" /\ status' = status
    BY <1>2 DEF ItemDone
  <2> QED BY <2>1, <2>2, <2>3 DEF ControlType
<1>3. CASE \E s \in Steps : Goto(s)
  BY <1>1, <1>3 DEF ControlType, StageMove, stage, Goto, Steps
<1>4. CASE Return("error")
  BY <1>4 DEF ControlType, StageMove, Return
<1> QED BY <1>2, <1>3, <1>4 DEF StageMove

(* TypeOK with what the loop counters are outside their loops.             *)
TypeInv ==
    /\ TypeOK
    /\ phase = "exists" => pos = 1
    /\ phase = "create" => pos = 1 /\ idx = 0
    /\ phase = "labels" => idx = 0
    /\ running = "publish" => \/ phase = "killed"
                              \/ phase = "publish" /\ idx < cfg.pubs

(* The initial states are typed.                                           *)
LEMMA TypeInit == Init => TypeInv
<1> SUFFICES ASSUME Init PROVE TypeInv
  OBVIOUS
<1>1. cfg \in ConfigType BY ConfigsAssumption DEF Init
<1>2. cfg.pubs \in Nat BY <1>1 DEF ConfigType
<1>3. Count(cfg, stage) \in Nat BY <1>1, CountType, OrderStages DEF Init, stage
<1>4. ControlType BY <1>2, <1>3 DEF Init, ControlType
<1>5. FilesType BY DEF Init, FilesType
<1>6. ResourceType BY DEF Init, ResourceType
<1>7. DefersType BY Zenon DEF Init, DefersType
<1> QED BY <1>4, <1>5, <1>6, <1>7 DEF Init, TypeInv, TypeOK

(* Every step keeps the types of the control variables.                    *)
LEMMA ControlStep ==
    ASSUME TypeInv, Next
    PROVE  /\ ControlType'
           /\ (phase = "exists" => pos = 1)'
           /\ (phase = "create" => pos = 1 /\ idx = 0)'
           /\ (phase = "labels" => idx = 0)'
           /\ (running = "publish" => \/ phase = "killed"
                                      \/ phase = "publish" /\ idx < cfg.pubs)'
<1>1. /\ cfg.pubs \in Nat \ {0} /\ Len(Order(cfg)) = 10
      /\ \A p \in 1..10 : Count(cfg, Order(cfg)[p]) \in Nat
      /\ Count(cfg, stage) \in Nat
  BY StageFacts DEF TypeInv, TypeOK
<1>2. CASE StageActions
  <2>1. phase = "stages" /\ running' # "publish"
    BY <1>2, StageActionsMove DEF TypeInv, StageMove
  <2> QED BY <1>2, <2>1, StageActionsMove, StageMoveType DEF TypeInv, TypeOK
<1> USE DEF TypeInv, TypeOK, ControlType, stage, ctl, fs, outside
<1>3. CASE AskExists
  BY <1>1, <1>3 DEF AskExists, ItemDone, Return
<1>4. CASE SkipBuild
  BY <1>1, <1>4 DEF SkipBuild, Return, InStage
<1>5. CASE NewContainer
  BY <1>1, <1>5 DEF NewContainer, Return, DeferStack
<1>6. CASE StageRejected
  BY <1>1, <1>6 DEF StageRejected, Return, InStage
<1>7. CASE NextStage
  BY <1>1, <1>7 DEF NextStage
<1>8. CASE Launch
  BY <1>1, <1>8 DEF Launch, Mode, AtCommand
<1>9. CASE SetLabels
  BY <1>1, <1>9 DEF SetLabels
<1>10. CASE PublishStart
  BY <1>1, <1>10 DEF PublishStart
<1>11. CASE PublishReturn
  BY <1>1, <1>11 DEF PublishReturn, ItemDone, Return
<1>12. CASE BuildComplete
  BY <1>1, <1>12 DEF BuildComplete, Return, InStage
<1>13. CASE DeleteContainer
  BY <1>1, <1>13 DEF DeleteContainer, TopDefer, PopDefer
<1>14. CASE PrunePulledParent
  BY <1>1, <1>14 DEF PrunePulledParent, TopDefer, PopDefer, PruneImage
<1>15. CASE Exit
  BY <1>1, <1>15 DEF Exit
<1>16. CASE FirstSignal
  BY <1>1, <1>16 DEF FirstSignal
<1>17. CASE SecondSignal
  BY <1>1, <1>17 DEF SecondSignal
<1>18. CASE Terminated
  BY <1>1, <1>18 DEF Terminated, vars
<1> QED
  BY <1>2, <1>3, <1>4, <1>5, <1>6, <1>7, <1>8, <1>9, <1>10, <1>11,
     <1>12, <1>13, <1>14, <1>15, <1>16, <1>17, <1>18
     DEF Next, BuildStep, StageActions, CheckSkip, Deliver, Unwind

(* Every step keeps the types of the resources.                            *)
LEMMA ResourceStep == ASSUME TypeInv, Next PROVE ResourceType'
<1>0. cfg.pubs \in Nat \ {0} /\ idx \in Nat /\ idx + 1 \in Nat
  BY StageFacts DEF TypeInv, TypeOK, ControlType
<1> USE DEF TypeInv, TypeOK, ResourceType, ctl, fs, outside
<1>1. CASE StageActions
  BY <1>1, StageActionsMove
<1>2. CASE AskExists
  BY <1>0, <1>2 DEF AskExists, ItemDone, Return
<1>3. CASE SkipBuild
  BY <1>0, <1>3 DEF SkipBuild, Return, InStage
<1>4. CASE NewContainer
  BY <1>0, <1>4 DEF NewContainer, Return, DeferStack
<1>5. CASE StageRejected
  BY <1>0, <1>5 DEF StageRejected, Return, InStage
<1>6. CASE NextStage
  BY <1>0, <1>6 DEF NextStage
<1>7. CASE Launch
  BY <1>0, <1>7 DEF Launch, Mode, AtCommand
<1>8. CASE SetLabels
  BY <1>0, <1>8 DEF SetLabels
<1>9. CASE PublishStart
  BY <1>0, <1>9 DEF PublishStart
<1>10. CASE PublishReturn
  BY <1>0, <1>10 DEF PublishReturn, ItemDone, Return
<1>11. CASE BuildComplete
  BY <1>0, <1>11 DEF BuildComplete, Return, InStage
<1>12. CASE DeleteContainer
  BY <1>0, <1>12 DEF DeleteContainer, TopDefer, PopDefer
<1>13. CASE PrunePulledParent
  BY <1>0, <1>13 DEF PrunePulledParent, TopDefer, PopDefer, PruneImage
<1>14. CASE Exit
  BY <1>0, <1>14 DEF Exit
<1>15. CASE FirstSignal
  BY <1>0, <1>15 DEF FirstSignal
<1>16. CASE SecondSignal
  BY <1>0, <1>16 DEF SecondSignal
<1>17. CASE Terminated
  BY <1>0, <1>17 DEF Terminated, vars
<1> QED
  BY <1>1, <1>2, <1>3, <1>4, <1>5, <1>6, <1>7, <1>8, <1>9, <1>10, <1>11,
     <1>12, <1>13, <1>14, <1>15, <1>16, <1>17
     DEF Next, BuildStep, StageActions, CheckSkip, Deliver, Unwind

(* Every step leaves a stack of deferred calls that Build can be in.       *)
LEMMA DefersStep == ASSUME DefersType, Next PROVE DefersType'
<1> USE DEF DefersType
<1>1. CASE defers' \in {defers, DeferStack}
  BY <1>1, Zenon DEF DeferStack
<1>2. CASE DeleteContainer \/ PrunePulledParent
  BY <1>2, PopType, Zenon DEF DeleteContainer, PrunePulledParent, TopDefer, PopDefer
<1>3. Next /\ ~(DeleteContainer \/ PrunePulledParent) => defers' \in {defers, DeferStack}
  BY StageActionsMove
     DEF Next, BuildStep, StageActions, CheckSkip, Deliver, Unwind, AskExists, SkipBuild, NewContainer, StageRejected, NextStage, Launch, SetLabels, PublishStart, PublishReturn, BuildComplete, Exit, FirstSignal, SecondSignal, Terminated, vars, outside
<1> QED BY <1>1, <1>2, <1>3

(* Every step keeps the types of the files.                                *)
LEMMA FilesStep == ASSUME TypeInv, Next PROVE FilesType'
<1>1. stage \in Stages /\ idx \in Nat /\ idx + 1 \in Nat
  BY StageFacts DEF TypeInv, TypeOK, ControlType
<1>2. Effect \in Stages \X Nat /\ KeyFile \in {"key", "script"} \X Nat
      /\ Script \in {"key", "script"} \X Nat
  BY <1>1 DEF Effect, KeyFile, Script
<1>3. UNCHANGED fs => FilesType'
  BY DEF TypeInv, TypeOK, FilesType, fs
<1> USE DEF TypeInv, TypeOK, FilesType
<1>4. CASE ApplyManagerConfig
  BY <1>2, <1>3, <1>4 DEF ApplyManagerConfig, Write
<1>5. CASE WriteRepo
  BY <1>2, <1>3, <1>5 DEF WriteRepo, Write
<1>6. CASE WriteCustomFile
  BY <1>2, <1>3, <1>6 DEF WriteCustomFile, Write
<1>7. CASE WriteDirectory
  BY <1>2, <1>3, <1>7 DEF WriteDirectory, Write
<1>8. CASE Bootstrap
  BY <1>2, <1>3, <1>8 DEF Bootstrap
<1>9. CASE InitRpmDatabase
  BY <1>2, <1>3, <1>9 DEF InitRpmDatabase
<1>10. CASE InstallCommand
  BY <1>2, <1>3, <1>10 DEF InstallCommand, Mandate
<1>11. CASE RemovePackages
  BY <1>2, <1>3, <1>11 DEF RemovePackages, Mandate
<1>12. CASE PlaceKey
  BY <1>2, <1>3, <1>12 DEF PlaceKey
<1>13. CASE ImportKey
  BY <1>2, <1>3, <1>13 DEF ImportKey
<1>14. CASE CleanupKey
  BY <1>2, <1>3, <1>14 DEF CleanupKey, Remove
<1>15. CASE ResolveEnvFails
  BY <1>2, <1>3, <1>15 DEF ResolveEnvFails
<1>16. CASE RunCommand
  BY <1>2, <1>3, <1>16 DEF RunCommand, Mandate
<1>17. CASE WriteScript
  BY <1>2, <1>3, <1>17 DEF WriteScript
<1>18. CASE ChmodScript
  BY <1>2, <1>3, <1>18 DEF ChmodScript
<1>19. CASE ExecScript
  BY <1>2, <1>3, <1>19 DEF ExecScript
<1>20. CASE RemoveScript
  BY <1>2, <1>3, <1>20 DEF RemoveScript, Remove
<1>21. CASE VerifyAnsible
  BY <1>2, <1>3, <1>21 DEF VerifyAnsible
<1>22. CASE StagePayload
  BY <1>2, <1>3, <1>22 DEF StagePayload
<1>23. CASE ResolvePathsFail
  BY <1>2, <1>3, <1>23 DEF ResolvePathsFail
<1>24. CASE RunPlaybook
  BY <1>2, <1>3, <1>24 DEF RunPlaybook, Mandate
<1>25. CASE ScanCommand
  BY <1>2, <1>3, <1>25 DEF ScanCommand, Mandate, Attempt
<1>26. CASE ScanFetch
  BY <1>2, <1>3, <1>26 DEF ScanFetch
<1>27. CASE ScanReject
  BY <1>2, <1>3, <1>27 DEF ScanReject
<1>28. CASE AskExists \/ SkipBuild \/ NewContainer \/ StageRejected \/ NextStage \/ Launch \/ SetLabels \/ PublishStart \/ PublishReturn \/ BuildComplete \/ DeleteContainer \/ PrunePulledParent \/ Exit \/ FirstSignal \/ SecondSignal \/ Terminated
  BY <1>3, <1>28 DEF AskExists, SkipBuild, NewContainer, StageRejected, NextStage, Launch, SetLabels, PublishStart, PublishReturn, BuildComplete, DeleteContainer, PrunePulledParent, Exit, FirstSignal, SecondSignal, Terminated, vars
<1> QED
  BY <1>3, <1>4, <1>5, <1>6, <1>7, <1>8, <1>9, <1>10, <1>11, <1>12,
     <1>13, <1>14, <1>15, <1>16, <1>17, <1>18, <1>19, <1>20, <1>21,
     <1>22, <1>23, <1>24, <1>25, <1>26, <1>27, <1>28
     DEF Next, BuildStep, CheckSkip, Writes, Prepare, Gpg, Commands, Scan,
         Deliver, Unwind

(* Every step keeps the type invariant.                                    *)
LEMMA TypeStep == TypeInv /\ [Next]_vars => TypeInv'
<1> SUFFICES ASSUME TypeInv, [Next]_vars PROVE TypeInv'
  OBVIOUS
<1>1. CASE Next
  BY <1>1, ControlStep, ResourceStep, DefersStep, FilesStep DEF TypeInv, TypeOK
<1>2. CASE UNCHANGED vars
  <2>1. ControlType' BY <1>2 DEF TypeInv, TypeOK, ControlType, stage, vars, ctl, outside
  <2>2. ResourceType' BY <1>2 DEF TypeInv, TypeOK, ResourceType, vars, outside
  <2>3. FilesType' BY <1>2 DEF TypeInv, TypeOK, FilesType, vars, fs
  <2>4. DefersType' BY <1>2, Zenon DEF TypeInv, TypeOK, DefersType, vars, outside
  <2>5. TypeOK' BY <2>1, <2>2, <2>3, <2>4 DEF TypeOK
  <2>6. (running = "publish" => phase = "killed" \/ (phase = "publish" /\ idx < cfg.pubs))'
    <3>1. running' = running /\ phase' = phase /\ idx' = idx /\ cfg' = cfg
      BY <1>2 DEF vars, ctl, outside
    <3>2. running = "publish" => phase = "killed" \/ (phase = "publish" /\ idx < cfg.pubs)
      BY DEF TypeInv
    <3> QED BY <3>1, <3>2
  <2> QED BY <1>2, <2>5, <2>6 DEF TypeInv, vars, ctl
<1> QED BY <1>1, <1>2

(* Every reachable state is typed, and no loop counter passes the end of   *)
(* its loop (Builder.Build).                                               *)
THEOREM TypeCorrect == Spec => []TypeOK
<1>1. TypeInv => TypeOK BY DEF TypeInv
<1> QED BY <1>1, TypeInit, TypeStep, PTL DEF Spec

-----------------------------------------------------------------------------
(* A published image is complete.                                          *)

(* The first n items of a stage have had their effect.                     *)
StageDone(s, n) == \A i \in 1..n : Mandatory(cfg, s, i) => <<s, i>> \in root

(* The inductive invariant: the stages already left and the items already  *)
(* passed are done; a script that succeeded has had its effect before the  *)
(* clean-up that follows it; nothing is delivered before the labels.       *)
Progress ==
    /\ phase \in {"exists", "create"} => step = "start"
    /\ phase = "stages" /\ step # "start" => idx < Count(cfg, stage)
    /\ AtItem("script", "ran") => Effect \in root
    /\ phase = "stages" =>
         /\ \A p \in 1..10 : p < pos => StageDone(Order(cfg)[p], Count(cfg, Order(cfg)[p]))
         /\ StageDone(stage, idx)
    /\ phase = "labels" => Complete
    /\ phase = "publish" \/ running = "publish" \/ published # {} => labels /\ Complete

(* A result runInstall accepts means that the install did its work.        *)
LEMMA AcceptedDidItsWork ==
    \A r : InstallAccepted(r) \/ Succeeded(r) => DidItsWork(r)
BY DEF InstallAccepted, Succeeded, DidItsWork, IsAcceptableExitCode

(* The root filesystem only grows, and the config does not change.         *)
LEMMA RootGrows == [Next]_vars => root \subseteq root' /\ cfg' = cfg
<1> SUFFICES ASSUME [Next]_vars PROVE root \subseteq root' /\ cfg' = cfg
  OBVIOUS
<1>1. CASE StageActions
  <2>1. cfg' = cfg BY <1>1, StageActionsMove DEF StageMove
  <2>2. root \subseteq root'
    BY <1>1 DEF StageActions, Writes, Prepare, Gpg, Commands, Scan, ApplyManagerConfig, WriteRepo, WriteCustomFile, WriteDirectory, Bootstrap, InitRpmDatabase, InstallCommand, RemovePackages, PlaceKey, ImportKey, CleanupKey, ResolveEnvFails, RunCommand, WriteScript, ChmodScript, ExecScript, RemoveScript, VerifyAnsible, StagePayload, ResolvePathsFail, RunPlaybook, ScanCommand, ScanFetch, ScanReject,
          Write, Mandate, Attempt, fs
  <2> QED BY <2>1, <2>2
<1>2. CASE AskExists \/ SkipBuild \/ NewContainer \/ StageRejected \/ NextStage \/ Launch \/ SetLabels \/ PublishStart \/ PublishReturn \/ BuildComplete \/ DeleteContainer \/ PrunePulledParent \/ Exit \/ FirstSignal \/ SecondSignal \/ Terminated
  BY <1>2 DEF AskExists, SkipBuild, NewContainer, StageRejected, NextStage, Launch, SetLabels, PublishStart, PublishReturn, BuildComplete, DeleteContainer, PrunePulledParent, Exit, FirstSignal, SecondSignal, Terminated, vars, ctl, fs, outside, PruneImage, TopDefer, PopDefer
<1>3. CASE UNCHANGED vars
  BY <1>3 DEF vars, fs, outside
<1> QED BY <1>1, <1>2, <1>3 DEF Next, BuildStep, StageActions, CheckSkip, Deliver, Unwind

(* What is done stays done.                                                *)
LEMMA DoneStays ==
    ASSUME [Next]_vars
    PROVE  /\ Complete => Complete'
           /\ \A s, n : StageDone(s, n) => StageDone(s, n)'
BY RootGrows DEF Complete, StageDone

(* An action that finishes a mandatory item has seen its effect, and one   *)
(* that leaves a script for its clean-up has too.                          *)
LEMMA ItemEffect ==
    ASSUME Progress, StageActions
    PROVE  /\ ItemDone /\ Mandatory(cfg, stage, idx + 1) => Effect \in root'
           /\ step' = "ran" => step = "ran" \/ Effect \in root'
<1> USE DEF StageMove
<1>1. CASE ApplyManagerConfig
  BY <1>1 DEF ApplyManagerConfig, Write, InStage, Return, ItemDone
<1>2. CASE WriteRepo
  BY <1>2 DEF WriteRepo, Write, InStage, Return, ItemDone
<1>3. CASE WriteCustomFile
  BY <1>3 DEF WriteCustomFile, Write, InStage, Return, ItemDone
<1>4. CASE WriteDirectory
  BY <1>4 DEF WriteDirectory, Write, InStage, Return, ItemDone
<1>5. CASE Bootstrap
  BY <1>5 DEF Bootstrap, InStage, Goto, ItemDone, Mandatory
<1>6. CASE InitRpmDatabase
  BY <1>6 DEF InitRpmDatabase, InStage, Returned, ItemDone, Mandatory
<1>7. CASE InstallCommand
  BY AcceptedDidItsWork, <1>7 DEF InstallCommand, InStage, Return, Returned, Mandate, ItemDone
<1>8. CASE RemovePackages
  BY AcceptedDidItsWork, <1>8 DEF RemovePackages, InStage, Return, Returned, Mandate, ItemDone
<1>9. CASE PlaceKey
  BY <1>9 DEF PlaceKey, InStage, Goto, ItemDone, Mandatory
<1>10. CASE ImportKey
  BY <1>10 DEF ImportKey, InStage, Goto, Returned, ItemDone, Mandatory
<1>11. CASE CleanupKey
  BY <1>11 DEF CleanupKey, InStage, Returned, ItemDone, Mandatory
<1>12. CASE ResolveEnvFails
  BY <1>12 DEF ResolveEnvFails, Return, InStage, ItemDone
<1>13. CASE RunCommand
  BY AcceptedDidItsWork, <1>13 DEF RunCommand, AtItem, InStage, Return, Returned, Mandate, ItemDone
<1>14. CASE WriteScript
  BY <1>14 DEF WriteScript, AtItem, InStage, Goto, Return, ItemDone
<1>15. CASE ChmodScript
  BY <1>15 DEF ChmodScript, AtItem, InStage, Goto, Return, Returned, ItemDone
<1>16. CASE ExecScript
  BY AcceptedDidItsWork, <1>16 DEF ExecScript, AtItem, InStage, Goto, Returned, ItemDone
<1>17. CASE RemoveScript
  BY <1>17 DEF RemoveScript, AtItem, InStage, Return, Returned, ItemDone, Progress, Effect, CommandKind
<1>18. CASE VerifyAnsible
  BY <1>18 DEF VerifyAnsible, AtItem, InStage, Goto, Return, Returned, ItemDone
<1>19. CASE StagePayload
  BY <1>19 DEF StagePayload, AtItem, InStage, Goto, Return, ItemDone
<1>20. CASE ResolvePathsFail
  BY <1>20 DEF ResolvePathsFail, AtItem, InStage, Return, ItemDone
<1>21. CASE RunPlaybook
  BY AcceptedDidItsWork, <1>21 DEF RunPlaybook, AtItem, InStage, Return, Returned, Mandate, ItemDone
<1>22. CASE ScanCommand
  BY AcceptedDidItsWork, <1>22 DEF ScanCommand, InStage, Return, Returned, Mandate, Attempt, ItemDone, Mandatory, ScanStep, ScanBestEffort
<1>23. CASE ScanFetch
  BY <1>23 DEF ScanFetch, InStage, Return, ItemDone, Mandatory, ScanStep, ScanBestEffort
<1>24. CASE ScanReject
  BY <1>24 DEF ScanReject, Return, InStage, ItemDone
<1> QED
  BY <1>1, <1>2, <1>3, <1>4, <1>5, <1>6, <1>7, <1>8, <1>9, <1>10, <1>11,
     <1>12, <1>13, <1>14, <1>15, <1>16, <1>17, <1>18, <1>19, <1>20,
     <1>21, <1>22, <1>23, <1>24
     DEF StageActions, Writes, Prepare, Gpg, Commands, Scan

(* Nothing is behind the pipeline before it starts (Builder.Build).        *)
LEMMA ProgressInit == Init => Progress
<1> SUFFICES ASSUME Init PROVE Progress
  OBVIOUS
<1>1. phase \in {"exists", "create"} /\ step = "start" /\ running = "none" /\ published = {}
  BY DEF Init
<1> QED BY <1>1 DEF Progress, AtItem, InStage

(* A step of a stage keeps Progress.                                       *)
LEMMA ProgressStage == ASSUME TypeInv, Progress, StageActions, [Next]_vars PROVE Progress'
<1>1. /\ phase = "stages" /\ idx < Count(cfg, stage) /\ idx \in Nat /\ pos \in 1..10
      /\ Count(cfg, stage) \in Nat
  BY StageFacts, StageActionsMove DEF StageMove, TypeInv, TypeOK, ControlType
<1>2. /\ cfg' = cfg /\ running' \in {running, "none"} /\ published' = published
      /\ labels' = labels
  BY StageActionsMove DEF outside
<1>3. phase' \in {"stages", "unwind"}
  BY StageActionsMove, StageMoveType DEF TypeInv, TypeOK
<1>4. (phase = "publish" \/ running = "publish" \/ published # {} => labels /\ Complete)'
  BY <1>2, <1>3, DoneStays DEF Progress
<1>5. CASE ItemDone
  <2>1. phase' = "stages" /\ pos' = pos /\ idx' = idx + 1 /\ step' = "start" /\ stage' = stage
    BY <1>1, <1>2, <1>5 DEF ItemDone, stage
  <2>2. \A p \in 1..10 : p < pos =>
            StageDone(Order(cfg)[p], Count(cfg, Order(cfg)[p]))'
    BY <1>1, <1>2, DoneStays DEF Progress
  <2>3. StageDone(stage, idx)'
    <3> SUFFICES ASSUME NEW i \in 1..(idx + 1), Mandatory(cfg, stage, i)
                 PROVE  <<stage, i>> \in root'
      BY <1>1, <1>2, <2>1 DEF StageDone
    <3>1. CASE i \in 1..idx
      <4>1. StageDone(stage, idx) BY <1>1 DEF Progress
      <4> QED BY <3>1, <4>1, RootGrows DEF StageDone
    <3>2. CASE i = idx + 1
      BY <3>2, <1>5, ItemEffect DEF Effect
    <3> QED BY <1>1, <3>1, <3>2
  <2>4. (AtItem("script", "ran") => Effect \in root)'
    BY <2>1 DEF AtItem
  <2> QED BY <1>2, <1>4, <2>1, <2>2, <2>3, <2>4 DEF Progress
<1>6. CASE \E s \in Steps : Goto(s)
  <2>1. phase' = "stages" /\ pos' = pos /\ idx' = idx /\ stage' = stage
    BY <1>1, <1>2, <1>6 DEF Goto, stage
  <2>2. \A p \in 1..10 : p < pos =>
            StageDone(Order(cfg)[p], Count(cfg, Order(cfg)[p]))'
    BY <1>1, <1>2, DoneStays DEF Progress
  <2>3. StageDone(stage, idx)'
    BY <1>1, <2>1, DoneStays DEF Progress
  <2>4. (AtItem("script", "ran") => Effect \in root)'
    <3> SUFFICES ASSUME AtItem("script", "ran")' PROVE Effect \in root'
      BY <2>1 DEF Effect
    <3>1. CASE step = "ran"
      <4>1. AtItem("script", "ran")
        BY <1>1, <1>2, <2>1, <3>1 DEF AtItem, InStage, CommandKind
      <4> QED BY <4>1, RootGrows DEF Progress
    <3>2. CASE step # "ran"
      BY <3>2, ItemEffect DEF AtItem
    <3> QED BY <3>1, <3>2
  <2> QED BY <1>1, <1>2, <1>4, <2>1, <2>2, <2>3, <2>4 DEF Progress
<1>7. CASE Return("error")
  <2>1. phase' = "unwind" BY <1>7 DEF Return
  <2>2. ~AtItem("script", "ran")' BY <2>1 DEF AtItem, InStage
  <2> QED BY <1>4, <2>1, <2>2 DEF Progress
<1> QED BY <1>5, <1>6, <1>7, StageActionsMove DEF StageMove

(* Leaving a stage: all its items are done, and after the last one nothing *)
(* mandatory is missing.                                                   *)
LEMMA ProgressNextStage == ASSUME TypeInv, Progress, NextStage PROVE Progress'
<1>1. /\ phase = "stages" /\ idx = Count(cfg, stage) /\ step = "start" /\ pos \in 1..10
      /\ Len(Order(cfg)) = 10 /\ Count(cfg, stage) \in Nat
  BY StageFacts DEF NextStage, TypeInv, TypeOK, ControlType, Progress
<1>2. /\ cfg' = cfg /\ root' = root /\ labels' = labels /\ published' = published
      /\ running' = running /\ step' = "start" /\ idx' = 0
  BY <1>1 DEF NextStage, fs, outside
<1>3. \A p \in 1..10 : p <= pos => StageDone(Order(cfg)[p], Count(cfg, Order(cfg)[p]))
  <2>1. StageDone(stage, Count(cfg, stage)) BY <1>1 DEF Progress
  <2> QED BY <1>1, <2>1 DEF Progress, stage
<1>4. Complete => Complete' /\ (\A s, n : StageDone(s, n) => StageDone(s, n)')
  BY <1>2 DEF Complete, StageDone
<1>5. (AtItem("script", "ran") => Effect \in root)'
  BY <1>2 DEF AtItem
<1>6. CASE pos < 10
  <2>1. phase' = "stages" /\ pos' = pos + 1
    BY <1>1, <1>6 DEF NextStage
  <2>2. StageDone(stage, 0)'
    BY DEF StageDone
  <2>3. \A p \in 1..10 : p < pos' =>
            StageDone(Order(cfg)[p], Count(cfg, Order(cfg)[p]))'
    BY <1>1, <1>2, <1>3, <2>1 DEF StageDone
  <2>4. running # "publish" /\ (published # {} => labels /\ Complete)
    BY <1>1 DEF TypeInv, Progress
  <2>5. published' # {} => labels' /\ Complete'
    BY <1>2, <2>4 DEF Complete
  <2> QED BY <1>2, <1>5, <2>1, <2>2, <2>3, <2>4, <2>5 DEF Progress
<1>7. CASE pos = 10
  <2>1. phase' = "labels"
    BY <1>1, <1>7 DEF NextStage
  <2>2. Complete
    <3> SUFFICES ASSUME NEW s \in Stages, NEW i \in 1..Count(cfg, s), Mandatory(cfg, s, i)
                 PROVE  <<s, i>> \in root
      BY DEF Complete
    <3>1. PICK p \in 1..10 : Order(cfg)[p] = s
      BY OrderStages
    <3>2. StageDone(s, Count(cfg, s))
      BY <1>3, <1>7, <3>1
    <3> QED BY <3>2 DEF StageDone
  <2>3. Complete'
    BY <1>2, <2>2 DEF Complete
  <2>4. running # "publish" /\ (published # {} => labels)
    BY <1>1 DEF TypeInv, Progress
  <2> QED BY <1>2, <1>5, <2>1, <2>3, <2>4 DEF Progress
<1> QED BY <1>1, <1>6, <1>7

(* The other steps.                                                        *)
LEMMA ProgressStep == TypeInv /\ Progress /\ [Next]_vars => Progress'
<1> SUFFICES ASSUME TypeInv, Progress, [Next]_vars PROVE Progress'
  OBVIOUS
<1>1. CASE StageActions
  BY <1>1, ProgressStage
<1>2. CASE NextStage
  BY <1>2, ProgressNextStage
<1>3. CASE NewContainer
  <2>1. /\ phase = "create" /\ pos' = 1 /\ idx' = 0 /\ step' = "start"
        /\ running' = running /\ running # "publish" /\ published' = published
        /\ labels' = labels /\ phase' \in {"stages", "unwind"}
    BY <1>3 DEF NewContainer, Return, TypeInv, Progress
  <2>2. StageDone(stage, 0)' /\ ~AtItem("script", "ran")'
    BY <2>1 DEF StageDone, AtItem
  <2>3. \A p \in 1..10 : ~(p < 1)
    OBVIOUS
  <2> QED BY <2>1, <2>2, <2>3, DoneStays DEF Progress
<1>4. CASE SetLabels
  <2>1. /\ phase = "labels" /\ phase' = "publish" /\ labels'
    BY <1>4 DEF SetLabels
  <2>2. Complete' BY <2>1, DoneStays DEF Progress
  <2>3. ~AtItem("script", "ran")' BY <2>1 DEF AtItem, InStage
  <2> QED BY <2>1, <2>2, <2>3 DEF Progress
<1>5. CASE PublishStart \/ PublishReturn
  <2>1. phase = "publish" /\ phase' \in {"publish", "unwind"} /\ labels' = labels
    BY <1>5 DEF PublishStart, PublishReturn, ItemDone, Return, ctl, outside
  <2>2. labels' /\ Complete' BY <2>1, DoneStays DEF Progress
  <2>3. ~AtItem("script", "ran")' BY <2>1 DEF AtItem, InStage
  <2> QED BY <2>1, <2>2, <2>3 DEF Progress
<1>6. CASE Launch
  <2>1. UNCHANGED <<ctl, fs, outside>> /\ running' # "publish"
    BY <1>6 DEF Launch, Mode
  <2> QED BY <2>1 DEF Progress, AtItem, InStage, CommandKind, Effect, stage, StageDone,
                      Complete, ctl, fs, outside
<1>7. CASE AskExists
  <2>1. /\ phase = "exists" /\ phase' \in {"exists", "create", "unwind"} /\ step' = step
        /\ running' = running /\ labels' = labels /\ published' = published
    BY <1>7 DEF AskExists, ItemDone, Return, Progress
  <2>2. ~AtItem("script", "ran")' BY <2>1 DEF AtItem, InStage
  <2> QED BY <2>1, <2>2, DoneStays DEF Progress
<1>8. CASE SkipBuild \/ StageRejected \/ BuildComplete \/ DeleteContainer
           \/ PrunePulledParent \/ Exit \/ SecondSignal
  <2>1. /\ phase' \in {"unwind", "exit", "killed"}
        /\ running' = running /\ labels' = labels /\ published' = published
    BY <1>8 DEF SkipBuild, StageRejected, BuildComplete, DeleteContainer, TopDefer,
                PrunePulledParent, Exit, SecondSignal, Return, ctl, outside
  <2>2. ~AtItem("script", "ran")' BY <2>1 DEF AtItem, InStage
  <2> QED BY <2>1, <2>2, DoneStays DEF Progress
<1>9. CASE FirstSignal \/ UNCHANGED vars
  <2>1. /\ UNCHANGED <<ctl, running, fs>> /\ cfg' = cfg /\ labels' = labels
        /\ published' = published
    BY <1>9 DEF FirstSignal, vars, outside
  <2> QED BY <2>1 DEF Progress, AtItem, InStage, CommandKind, Effect, stage, StageDone,
                      Complete, ctl, fs
<1> QED
  BY <1>1, <1>2, <1>3, <1>4, <1>5, <1>6, <1>7, <1>8, <1>9
     DEF Next, BuildStep, StageActions, CheckSkip, Deliver, Unwind, Terminated

(* No destination is touched before every mandatory step of the config has *)
(* really had its effect and the labels are set (Builder.Build,            *)
(* runInstallCommands).                                                    *)
THEOREM PublishedComplete == Spec => []PublishedIsComplete
<1>1. Progress => PublishedIsComplete
  BY DEF Progress, PublishedIsComplete
<1> QED BY <1>1, TypeInit, TypeStep, ProgressInit, ProgressStep, PTL DEF Spec


-----------------------------------------------------------------------------
(* What Build returns.                                                     *)

Running == {"exists", "create", "stages", "labels", "publish"}

(* The inductive invariant: what each part of Build has already asked,     *)
(* acquired, deferred and delivered.                                       *)
Outcome ==
    /\ phase = "exists" => existed = 1..idx
    /\ phase \in {"exists", "create"} =>
         container = "none" /\ image = "none" /\ defers = <<>> /\ published = {}
    /\ phase \in {"stages", "labels", "publish"} =>
         container = "created" /\ defers = DeferStack
    /\ phase \in {"stages", "labels"} => published = {}
    /\ phase = "publish" => published = 1..idx
    /\ phase \in Running => status = "none"
    /\ status = "ok" => published = 1..cfg.pubs
    /\ status = "skipped" =>
         existed = 1..cfg.pubs /\ container = "none" /\ defers = <<>>

(* Counting one more publisher extends the interval of those done.         *)
LEMMA OneMore == \A n \in Nat : (1..n) \union {n + 1} = 1..(n + 1)
OBVIOUS

(* Nothing has been asked or acquired before the run starts.               *)
LEMMA OutcomeInit == Init => Outcome
<1> SUFFICES ASSUME Init PROVE Outcome
  OBVIOUS
<1>1. {} = 1..0
  OBVIOUS
<1> QED BY <1>1 DEF Init, Outcome

(* Every step of Build keeps the account of what was asked and delivered.  *)
LEMMA OutcomeStep == TypeInv /\ Outcome /\ [Next]_vars => Outcome'
<1> SUFFICES ASSUME TypeInv, Outcome, [Next]_vars PROVE Outcome'
  OBVIOUS
<1>0. idx \in Nat /\ cfg.pubs \in Nat
  BY StageFacts DEF TypeInv, TypeOK, ControlType
<1>1. CASE StageActions
  <2>1. /\ phase = "stages" /\ phase' \in {"stages", "unwind"} /\ UNCHANGED outside
        /\ \/ phase' = "stages" /\ status' = status
           \/ phase' = "unwind" /\ status' = "error"
    BY <1>1, StageActionsMove DEF StageMove, ItemDone, Goto, Return
  <2> QED BY <2>1 DEF Outcome, outside, Running
<1>2. CASE AskExists
  <2>1. /\ phase = "exists" /\ existed = 1..idx /\ status = "none"
        /\ UNCHANGED <<container, image, defers, published>>
    BY <1>2 DEF AskExists, Outcome, Running
  <2>2. \/ existed' = 1..idx' /\ phase' = "exists" /\ status' = "none"
        \/ phase' = "create" /\ status' = "none"
        \/ phase' = "unwind" /\ status' = "error"
    <3>1. CASE existed' = existed \union {idx + 1} /\ ItemDone
      BY <1>0, <2>1, <3>1, OneMore DEF ItemDone
    <3> QED BY <1>2, <2>1, <3>1 DEF AskExists, Return
  <2> QED BY <2>1, <2>2 DEF Outcome, Running
<1>3. CASE SkipBuild
  BY <1>3 DEF SkipBuild, Return, Outcome, Running, outside
<1>4. CASE NewContainer
  BY <1>4 DEF NewContainer, Return, Outcome, Running
<1>5. CASE StageRejected
  BY <1>5 DEF StageRejected, Return, Outcome, Running, outside
<1>6. CASE NextStage
  BY <1>6 DEF NextStage, Outcome, Running, outside
<1>7. CASE Launch \/ PublishStart \/ UNCHANGED vars
  BY <1>7 DEF Launch, PublishStart, Outcome, Running, vars, ctl, outside
<1>8. CASE SetLabels
  <2>1. idx = 0 /\ idx' = 0 /\ 1..0 = {}
    BY <1>8 DEF SetLabels, TypeInv
  <2> QED BY <1>8, <2>1 DEF SetLabels, Outcome, Running
<1>9. CASE PublishReturn
  <2>1. published = 1..idx /\ UNCHANGED <<cfg, container, image, defers, existed>>
    BY <1>9 DEF PublishReturn, Outcome
  <2>2. \/ published' = 1..idx' /\ phase' = "publish" /\ status' = "none"
        \/ phase' = "unwind" /\ status' = "error"
    <3>1. CASE published' = published \union {idx + 1} /\ ItemDone
      BY <1>0, <1>9, <2>1, <3>1, OneMore DEF ItemDone, PublishReturn, Outcome, Running
    <3> QED BY <1>9, <3>1 DEF PublishReturn, Return
  <2>3. phase = "publish" BY <1>9 DEF PublishReturn
  <2> QED BY <2>1, <2>2, <2>3 DEF Outcome, Running
<1>10. CASE BuildComplete
  BY <1>10 DEF BuildComplete, Return, Outcome, Running, outside
<1>11. CASE DeleteContainer
  BY <1>11 DEF DeleteContainer, TopDefer, Outcome, Running, ctl
<1>12. CASE PrunePulledParent
  BY <1>12 DEF PrunePulledParent, TopDefer, Outcome, Running, ctl
<1>13. CASE Exit
  BY <1>13 DEF Exit, Outcome, Running, outside
<1>14. CASE FirstSignal
  BY <1>14 DEF FirstSignal, Outcome, Running, ctl
<1>15. CASE SecondSignal
  BY <1>15 DEF SecondSignal, Outcome, Running, outside
<1> QED
  BY <1>1, <1>2, <1>3, <1>4, <1>5, <1>6, <1>7, <1>8, <1>9, <1>10, <1>11, <1>12,
     <1>13, <1>14, <1>15
     DEF Next, BuildStep, StageActions, CheckSkip, Deliver, Unwind, Terminated

(* Build returns nil only when every publisher has the image: each one     *)
(* published it, or each one reported it present and nothing was built     *)
(* (Builder.Build, allExist).                                              *)
THEOREM NilEverywhere == Spec => []NilMeansEverywhere
<1>1. Outcome => NilMeansEverywhere
  BY DEF Outcome, NilMeansEverywhere
<1> QED BY <1>1, TypeInit, TypeStep, OutcomeInit, OutcomeStep, PTL DEF Spec

-----------------------------------------------------------------------------
(* The pulled base image.                                                  *)

(* The inductive invariant of the unwinding: the container is given up     *)
(* before the prune runs, and once the prune has run an image of this run  *)
(* is left only if the container or the store stood in the way.            *)
Unwinding ==
    /\ phase = "unwind" /\ defers = DeferStack => container = "created"
    /\ phase = "unwind" /\ defers = <<"prune">> => container \in {"deleted", "stuck"}
    /\ phase \in {"unwind", "exit"} /\ defers = <<>> /\ cfg.prune /\ image = "owned"
         => container = "stuck" \/ pruneErr
    /\ phase = "exit" => defers = <<>>

(* The stacks of deferred calls differ, and popping leads from one to the  *)
(* next.                                                                   *)
LEMMA DeferStacks ==
    /\ DeferStack # <<"prune">> /\ DeferStack # <<>> /\ <<"prune">> # <<>>
    /\ DeferStack[Len(DeferStack)] = "delete"
    /\ <<"prune">>[Len(<<"prune">>)] = "prune"
    /\ SubSeq(DeferStack, 1, Len(DeferStack) - 1) = <<"prune">>
    /\ SubSeq(<<"prune">>, 1, Len(<<"prune">>) - 1) = <<>>
<1>1. Len(DeferStack) = 2 /\ Len(<<"prune">>) = 1 /\ Len(<<>>) = 0
  BY DEF DeferStack
<1>2. DeferStack[2] = "delete"
  BY DEF DeferStack
<1> DEFINE s == SubSeq(<<"prune", "delete">>, 1, 1)
<1>3. s \in Seq({"prune", "delete"}) /\ Len(s) = 1 /\ s[1] = "prune"
  OBVIOUS
<1> HIDE DEF s
<1>4. s = <<"prune">>
  BY <1>3
<1>5. SubSeq(DeferStack, 1, Len(DeferStack) - 1) = <<"prune">>
  BY <1>1, <1>4 DEF s, DeferStack
<1>6. SubSeq(<<"prune">>, 1, Len(<<"prune">>) - 1) = <<>>
  OBVIOUS
<1>7. DeferStack # <<"prune">> /\ DeferStack # <<>> /\ <<"prune">> # <<>>
  <2>1. DeferStack # <<"prune">> BY <1>1
  <2>2. DeferStack # <<>> BY <1>1
  <2> QED BY <2>1, <2>2
<1> QED BY <1>1, <1>2, <1>5, <1>6, <1>7

(* Nothing unwinds before the run starts.                                  *)
LEMMA UnwindingInit == Init => Unwinding
BY DEF Init, Unwinding

(* The two deferred calls of Build keep the invariant, in the order the    *)
(* stack gives them, and every other step leaves it alone.                 *)
LEMMA UnwindingStep == TypeInv /\ Outcome /\ Unwinding /\ [Next]_vars => Unwinding'
<1> SUFFICES ASSUME TypeInv, Outcome, Unwinding, [Next]_vars PROVE Unwinding'
  OBVIOUS
<1>0. defers \in {<<>>, <<"prune">>, DeferStack}
  BY DEF TypeInv, TypeOK, DefersType, DeferStack
<1>1. CASE StageActions
  <2>1. phase = "stages" /\ phase' \in {"stages", "unwind"} /\ UNCHANGED outside
    BY <1>1, StageActionsMove DEF StageMove, ItemDone, Goto, Return
  <2> QED BY <2>1, DeferStacks DEF Outcome, Unwinding, outside
<1>2. CASE AskExists \/ SkipBuild
  <2>1. phase = "exists" /\ phase' \in {"exists", "create", "unwind"}
        /\ UNCHANGED <<defers, image>>
    BY <1>2 DEF AskExists, SkipBuild, ItemDone, Return, outside
  <2> QED BY <2>1, DeferStacks DEF Outcome, Unwinding
<1>3. CASE NewContainer
  BY <1>3, DeferStacks DEF NewContainer, Return, Outcome, Unwinding
<1>4. CASE StageRejected \/ NextStage \/ BuildComplete
  <2>1. /\ phase \in {"stages", "publish"}
        /\ phase' \in {"stages", "labels", "unwind"} /\ UNCHANGED outside
    BY <1>4 DEF StageRejected, NextStage, BuildComplete, Return
  <2> QED BY <2>1, DeferStacks DEF Outcome, Unwinding, outside
<1>5. CASE SetLabels \/ PublishStart \/ PublishReturn
  <2>1. /\ phase \in {"labels", "publish"} /\ phase' \in {"publish", "unwind"}
        /\ UNCHANGED <<defers, container>>
    BY <1>5 DEF SetLabels, PublishStart, PublishReturn, ItemDone, Return, ctl, outside
  <2> QED BY <2>1, DeferStacks DEF Outcome, Unwinding
<1>6. CASE DeleteContainer
  <2>1. defers = DeferStack
    BY <1>0, <1>6, DeferStacks DEF DeleteContainer, TopDefer
  <2>2. defers' = <<"prune">>
    BY <1>6, <2>1, DeferStacks DEF DeleteContainer, PopDefer
  <2> QED BY <1>6, <2>2, DeferStacks DEF DeleteContainer, TopDefer, Unwinding, ctl
<1>7. CASE PrunePulledParent
  <2>1. defers = <<"prune">> /\ phase = "unwind"
    BY <1>0, <1>7, DeferStacks DEF PrunePulledParent, TopDefer
  <2>2. defers' = <<>> /\ phase' = "unwind" /\ container' = container /\ cfg' = cfg
    BY <1>7, <2>1, DeferStacks DEF PrunePulledParent, PopDefer, ctl
  <2>3. container \in {"deleted", "stuck"}
    BY <2>1 DEF Unwinding
  <2>4. cfg.prune /\ image' = "owned" => container = "stuck" \/ pruneErr'
    BY <1>7, <2>3 DEF PrunePulledParent, PruneImage
  <2> QED BY <2>2, <2>4, DeferStacks DEF Unwinding
<1>8. CASE Exit
  BY <1>8, DeferStacks DEF Exit, Unwinding, outside
<1>9. CASE Launch \/ FirstSignal \/ UNCHANGED vars
  BY <1>9 DEF Launch, FirstSignal, Unwinding, vars, ctl, outside
<1>10. CASE SecondSignal
  BY <1>10 DEF SecondSignal, Unwinding
<1> QED
  BY <1>1, <1>2, <1>3, <1>4, <1>5, <1>6, <1>7, <1>8, <1>9, <1>10
     DEF Next, BuildStep, StageActions, CheckSkip, Deliver, Unwind, Terminated

(* With prune set, a base image this run pulled and can tell is its own is *)
(* gone when Build returns, unless the container could not be deleted or   *)
(* the store failed (the two defers of Build).                             *)
THEOREM PruneIsComplete == Spec => []PruneCompletes
<1>1. Unwinding => PruneCompletes
  BY DEF Unwinding, PruneCompletes
<1> QED
  BY <1>1, TypeInit, TypeStep, OutcomeInit, OutcomeStep, UnwindingInit,
     UnwindingStep, PTL DEF Spec

-----------------------------------------------------------------------------
(* Temporary files of the host.                                            *)

(* The build is at an item whose key file is on the host, or has staged an *)
(* ansible payload there.                                                  *)
HostKeyPlaced == cfg.scratch /\ InStage("gpg") /\ step \in {"placed", "imported"}
PayloadStaged == AtItem("ansible", "staged")

(* The inductive invariant: a temporary file of the host belongs to the    *)
(* item in progress, whose every exit removes it.                          *)
HostTmpInv ==
    phase # "killed" =>
        \/ hostTmp = {}
        \/ hostTmp = {"key"} /\ HostKeyPlaced
        \/ hostTmp = {"stage"} /\ PayloadStaged

(* A run starts with no temporary file on the host.                        *)
LEMMA HostTmpInit == Init => HostTmpInv
BY DEF Init, HostTmpInv

(* What it means to stay at the same item.                                 *)
LEMMA SameItem ==
    ASSUME cfg' = cfg, pos' = pos, idx' = idx, phase' = phase
    PROVE  /\ \A s : InStage(s)' = InStage(s)
           /\ CommandKind' = CommandKind /\ stage' = stage
           /\ KeyFile' = KeyFile /\ Script' = Script
BY DEF InStage, CommandKind, stage, KeyFile, Script

(* A step of a stage leaves no file on the host once its item is over.     *)
LEMMA HostTmpStage == HostTmpInv /\ StageActions => HostTmpInv'
<1> SUFFICES ASSUME HostTmpInv, StageActions PROVE HostTmpInv'
  OBVIOUS
<1>1. cfg' = cfg /\ phase = "stages"
  BY StageActionsMove DEF StageMove
<1> USE <1>1 DEF HostTmpInv, HostKeyPlaced, PayloadStaged, AtItem
<1>2. CASE Writes
  <2>1. hostTmp = {} /\ hostTmp' = {}
    BY <1>2 DEF Writes, ApplyManagerConfig, WriteRepo, WriteCustomFile, WriteDirectory,
                Write, InStage
  <2> QED BY <2>1
<1>3. CASE Prepare
  <2>1. hostTmp = {} /\ hostTmp' = {}
    BY <1>3 DEF Prepare, Bootstrap, InitRpmDatabase, InstallCommand, RemovePackages,
                InStage, fs
  <2> QED BY <2>1
<1>4. CASE PlaceKey
  <2>1. hostTmp = {} /\ InStage("gpg")
    BY <1>4 DEF PlaceKey, InStage
  <2>2. CASE hostTmp' = hostTmp
    BY <2>1, <2>2
  <2>3. CASE Goto("placed") /\ cfg.scratch /\ hostTmp' = hostTmp \union {"key"}
    <3>1. hostTmp' = {"key"} BY <2>1, <2>3
    <3> QED BY <2>1, <2>3, <3>1, SameItem DEF Goto
  <2> QED BY <1>4, <2>2, <2>3 DEF PlaceKey, fs
<1>5. CASE ImportKey
  <2>1. Goto("imported") /\ hostTmp' = hostTmp /\ step = "placed"
    BY <1>5 DEF ImportKey
  <2>2. hostTmp = {} \/ (hostTmp = {"key"} /\ HostKeyPlaced)
    BY <2>1
  <2> QED BY <2>1, <2>2, SameItem DEF Goto
<1>6. CASE CleanupKey
  <2>1. hostTmp = {} \/ (hostTmp = {"key"} /\ cfg.scratch)
    BY <1>6 DEF CleanupKey
  <2>2. hostTmp' = {}
    BY <1>6, <2>1 DEF CleanupKey
  <2> QED BY <2>2
<1>7. CASE ResolveEnvFails \/ RunCommand \/ WriteScript \/ ChmodScript \/ ExecScript
           \/ RemoveScript \/ VerifyAnsible
  <2>1. hostTmp = {} /\ hostTmp' = {}
    BY <1>7 DEF ResolveEnvFails, RunCommand, WriteScript, ChmodScript, ExecScript,
                RemoveScript, VerifyAnsible, InStage, fs
  <2> QED BY <2>1
<1>8. CASE StagePayload
  <2>1. hostTmp = {} /\ InStage("commands") /\ CommandKind = "ansible"
    BY <1>8 DEF StagePayload, InStage
  <2>2. CASE hostTmp' = hostTmp
    BY <2>1, <2>2
  <2>3. CASE Goto("staged") /\ hostTmp' = hostTmp \union {"stage"}
    <3>1. hostTmp' = {"stage"} BY <2>1, <2>3
    <3> QED BY <2>1, <2>3, <3>1, SameItem DEF Goto
  <2> QED BY <1>8, <2>2, <2>3 DEF StagePayload
<1>9. CASE ResolvePathsFail \/ RunPlaybook
  <2>1. hostTmp = {} \/ hostTmp = {"stage"}
    BY <1>9 DEF ResolvePathsFail, RunPlaybook, InStage
  <2>2. hostTmp' = {}
    BY <1>9, <2>1 DEF ResolvePathsFail, RunPlaybook
  <2> QED BY <2>2
<1>10. CASE Scan
  <2>1. hostTmp = {} /\ hostTmp' = {}
    BY <1>10 DEF Scan, ScanCommand, ScanFetch, ScanReject, InStage, fs
  <2> QED BY <2>1
<1> QED
  BY <1>2, <1>3, <1>4, <1>5, <1>6, <1>7, <1>8, <1>9, <1>10
     DEF StageActions, Gpg, Commands

(* The steps outside the stages touch no file of the host, and none is     *)
(* there but at the items named above.                                     *)
LEMMA HostTmpStep == TypeInv /\ Progress /\ HostTmpInv /\ [Next]_vars => HostTmpInv'
<1> SUFFICES ASSUME TypeInv, Progress, HostTmpInv, [Next]_vars PROVE HostTmpInv'
  OBVIOUS
<1>1. CASE StageActions
  BY <1>1, HostTmpStage
<1>2. CASE Launch \/ FirstSignal \/ UNCHANGED vars
  <2>1. UNCHANGED <<ctl, hostTmp>> /\ cfg' = cfg
    BY <1>2 DEF Launch, FirstSignal, vars, fs, outside
  <2> QED BY <2>1, SameItem DEF HostTmpInv, HostKeyPlaced, PayloadStaged, AtItem, ctl
<1>3. CASE NextStage \/ StageRejected
  <2>1. idx \in Nat /\ Count(cfg, stage) \in Nat
    BY StageFacts DEF TypeInv, TypeOK, ControlType
  <2>2. phase = "stages" /\ hostTmp' = hostTmp /\ \A s : ~InStage(s)
    BY <1>3, <2>1 DEF NextStage, StageRejected, InStage, fs
  <2> QED BY <2>2 DEF HostTmpInv, HostKeyPlaced, PayloadStaged, AtItem
<1>4. CASE SecondSignal
  BY <1>4 DEF SecondSignal, HostTmpInv
<1>5. CASE AskExists \/ SkipBuild \/ NewContainer \/ SetLabels \/ PublishStart
           \/ PublishReturn \/ BuildComplete \/ DeleteContainer \/ PrunePulledParent
           \/ Exit
  <2>1. phase \notin {"stages", "killed"} /\ hostTmp' = hostTmp
    BY <1>5 DEF AskExists, SkipBuild, NewContainer, SetLabels, PublishStart, PublishReturn,
                BuildComplete, DeleteContainer, PrunePulledParent, Exit, TopDefer, fs
  <2>2. hostTmp = {}
    BY <2>1 DEF HostTmpInv, HostKeyPlaced, PayloadStaged, AtItem, InStage
  <2> QED BY <2>1, <2>2 DEF HostTmpInv
<1> QED
  BY <1>1, <1>2, <1>3, <1>4, <1>5
     DEF Next, BuildStep, StageActions, CheckSkip, Deliver, Unwind, Terminated

(* When the process exits by itself no temporary key file and no ansible   *)
(* stage directory is left on the host (placeGPGKey, stageAnsiblePayload,  *)
(* runAnsibleCommand).                                                     *)
THEOREM HostTmpGone == Spec => []HostTmpRemoved
<1>1. HostTmpInv => HostTmpRemoved
  BY DEF HostTmpInv, HostTmpRemoved, HostKeyPlaced, PayloadStaged, AtItem, InStage
<1> QED
  BY <1>1, TypeInit, TypeStep, ProgressInit, ProgressStep, HostTmpInit, HostTmpStep,
     PTL DEF Spec

-----------------------------------------------------------------------------
(* Temporary files of the image.                                           *)

(* The item in progress has a key or a script inside the image.            *)
KeyInImage    == ~cfg.scratch /\ InStage("gpg") /\ step \in {"placed", "imported"}
ScriptInImage == InStage("commands") /\ CommandKind = "script" /\ step # "start"

(* The inductive invariant: a file staged inside the image is the one of   *)
(* the item in progress, or its removal failed.                            *)
LitterInv ==
    phase \in Running =>
        \A f \in litter \ rmFailed : \/ KeyInImage /\ f = KeyFile
                                     \/ ScriptInImage /\ f = Script

(* A run starts with no file inside the image.                             *)
LEMMA LitterInit == Init => LitterInv
BY DEF Init, LitterInv

(* A removal settles its file, whatever its result.                        *)
LEMMA RemoveSettles ==
    ASSUME NEW r, NEW file, Remove(r, file)
    PROVE  litter' \ rmFailed' \subseteq (litter \ rmFailed) \ {file}
BY DEF Remove

(* A step of a stage ends its item with no file of the item left, unless   *)
(* its removal failed or the build ends.                                   *)
LEMMA LitterStage == LitterInv /\ StageActions => LitterInv'
<1> SUFFICES ASSUME LitterInv, StageActions PROVE LitterInv'
  OBVIOUS
<1>1. cfg' = cfg /\ phase = "stages"
  BY StageActionsMove DEF StageMove
<1>a. phase' = "unwind" => LitterInv'
  BY DEF LitterInv, Running
<1>b. litter \ rmFailed = {} /\ litter' = litter /\ rmFailed' = rmFailed => LitterInv'
  BY DEF LitterInv
<1> USE <1>1, <1>a, <1>b DEF KeyInImage, ScriptInImage, AtItem
<1>2. CASE Writes
  BY <1>2 DEF LitterInv, Running, Writes, ApplyManagerConfig, WriteRepo, WriteCustomFile,
              WriteDirectory, Write, InStage
<1>3. CASE Prepare
  BY <1>3 DEF LitterInv, Running, Prepare, Bootstrap, InitRpmDatabase, InstallCommand,
              RemovePackages, InStage, fs
<1>4. CASE PlaceKey
  <2>1. litter \ rmFailed = {} /\ InStage("gpg") /\ rmFailed' = rmFailed
    BY <1>4 DEF LitterInv, Running, PlaceKey, InStage, fs
  <2>2. CASE litter' = litter
    BY <2>1, <2>2
  <2>3. CASE Goto("placed") /\ ~cfg.scratch /\ litter' = litter \union {KeyFile}
    BY <2>1, <2>3, SameItem DEF Goto, LitterInv
  <2> QED BY <1>4, <2>2, <2>3 DEF PlaceKey, fs
<1>5. CASE ImportKey
  <2>1. /\ Goto("imported") /\ litter' = litter /\ rmFailed' = rmFailed
        /\ InStage("gpg") /\ step = "placed"
    BY <1>5 DEF ImportKey
  <2>2. \A f \in litter \ rmFailed : ~cfg.scratch /\ f = KeyFile
    BY <2>1 DEF LitterInv, Running, InStage
  <2> QED BY <2>1, <2>2, SameItem DEF Goto, LitterInv
<1>6. CASE CleanupKey
  <2>1. InStage("gpg") /\ step = "imported"
    BY <1>6 DEF CleanupKey
  <2>2. \A f \in litter \ rmFailed : ~cfg.scratch /\ f = KeyFile
    BY <2>1 DEF LitterInv, Running, InStage
  <2>3. litter' \ rmFailed' = {}
    <3>1. CASE cfg.scratch
      BY <1>6, <2>2, <3>1 DEF CleanupKey
    <3>2. CASE ~cfg.scratch
      BY <1>6, <2>2, <3>2, RemoveSettles DEF CleanupKey
    <3> QED BY <3>1, <3>2
  <2> QED BY <2>3 DEF LitterInv
<1>7. CASE ResolveEnvFails \/ RunCommand \/ VerifyAnsible \/ StagePayload
           \/ ResolvePathsFail \/ RunPlaybook
  BY <1>7 DEF LitterInv, Running, ResolveEnvFails, RunCommand, VerifyAnsible, StagePayload,
              ResolvePathsFail, RunPlaybook, InStage, Return, fs
<1>8. CASE WriteScript
  <2>1. litter \ rmFailed = {} /\ InStage("commands") /\ CommandKind = "script"
    BY <1>8 DEF LitterInv, Running, WriteScript, InStage
  <2>2. CASE Goto("written") /\ litter' = litter \union {Script}
    BY <1>8, <2>1, <2>2, SameItem DEF Goto, LitterInv, WriteScript
  <2> QED BY <1>8, <2>2 DEF WriteScript, Return
<1>9. CASE ChmodScript \/ ExecScript
  <2>1. /\ litter' = litter /\ rmFailed' = rmFailed
        /\ InStage("commands") /\ CommandKind = "script" /\ step # "start"
    BY <1>9 DEF ChmodScript, ExecScript, fs
  <2>2. \A f \in litter \ rmFailed : f = Script
    BY <2>1 DEF LitterInv, Running, InStage
  <2>3. phase' = "unwind" \/ \E s \in Steps \ {"start"} : Goto(s)
    BY <1>9 DEF ChmodScript, ExecScript, Return, Steps
  <2> QED BY <2>1, <2>2, <2>3, SameItem DEF Goto, LitterInv
<1>10. CASE RemoveScript
  <2>1. InStage("commands") /\ CommandKind = "script" /\ step # "start"
    BY <1>10 DEF RemoveScript
  <2>2. \A f \in litter \ rmFailed : f = Script
    BY <2>1 DEF LitterInv, Running, InStage
  <2>3. litter' \ rmFailed' = {}
    BY <1>10, <2>2, RemoveSettles DEF RemoveScript
  <2> QED BY <2>3 DEF LitterInv
<1>11. CASE Scan
  BY <1>11 DEF LitterInv, Running, Scan, ScanCommand, ScanFetch, ScanReject, InStage, fs
<1> QED
  BY <1>2, <1>3, <1>4, <1>5, <1>6, <1>7, <1>8, <1>9, <1>10, <1>11
     DEF StageActions, Gpg, Commands

(* The steps outside the stages touch no file of the image.                *)
LEMMA LitterStep == TypeInv /\ Progress /\ LitterInv /\ [Next]_vars => LitterInv'
<1> SUFFICES ASSUME TypeInv, Progress, LitterInv, [Next]_vars PROVE LitterInv'
  OBVIOUS
<1>1. CASE StageActions
  BY <1>1, LitterStage
<1>2. CASE Launch \/ FirstSignal \/ UNCHANGED vars
  <2>1. UNCHANGED <<ctl, litter, rmFailed>> /\ cfg' = cfg
    BY <1>2 DEF Launch, FirstSignal, vars, fs, outside
  <2> QED BY <2>1, SameItem DEF LitterInv, Running, KeyInImage, ScriptInImage, ctl
<1>3. CASE NextStage \/ StageRejected
  <2>1. idx \in Nat /\ Count(cfg, stage) \in Nat
    BY StageFacts DEF TypeInv, TypeOK, ControlType
  <2>2. /\ phase = "stages" /\ UNCHANGED <<litter, rmFailed>>
        /\ \A s : ~InStage(s)
    BY <1>3, <2>1 DEF NextStage, StageRejected, InStage, fs
  <2>3. litter \ rmFailed = {}
    BY <2>2 DEF LitterInv, Running, KeyInImage, ScriptInImage
  <2> QED BY <2>2, <2>3 DEF LitterInv
<1>4. CASE AskExists \/ SkipBuild \/ NewContainer \/ SetLabels \/ PublishStart
           \/ PublishReturn \/ BuildComplete
  <2>1. phase \in Running \ {"stages"} /\ UNCHANGED <<litter, rmFailed>>
    BY <1>4 DEF AskExists, SkipBuild, NewContainer, SetLabels, PublishStart, PublishReturn,
                BuildComplete, Running, fs
  <2>2. litter \ rmFailed = {}
    BY <2>1 DEF LitterInv, KeyInImage, ScriptInImage, InStage
  <2> QED BY <2>1, <2>2 DEF LitterInv
<1>5. CASE DeleteContainer \/ PrunePulledParent \/ Exit \/ SecondSignal
  BY <1>5 DEF DeleteContainer, PrunePulledParent, Exit, SecondSignal, TopDefer, LitterInv,
              Running, ctl
<1> QED
  BY <1>1, <1>2, <1>3, <1>4, <1>5
     DEF Next, BuildStep, StageActions, CheckSkip, Deliver, Unwind, Terminated

(* A key or script staged inside the image is in a published image only    *)
(* when the command that should have removed it failed (importGPGKeys,     *)
(* RunScript).                                                             *)
THEOREM LitterOnlyByRm == Spec => []LitterOnlyIfRmFailed
<1>1. LitterInv => LitterOnlyIfRmFailed
  BY DEF LitterInv, LitterOnlyIfRmFailed, Running, KeyInImage, ScriptInImage, InStage
<1> QED
  BY <1>1, TypeInit, TypeStep, ProgressInit, ProgressStep, LitterInit, LitterStep,
     PTL DEF Spec

-----------------------------------------------------------------------------
(* The empty root.                                                         *)

(* The inductive invariant: a command runs only at a point that needs one, *)
(* and a backend that refuses a non-empty root is still at its first       *)
(* command when nothing has been written.                                  *)
EmptyRoot ==
    /\ phase = "stages" /\ running # "none" => AtCommand
    /\ phase \in {"exists", "create"} => root = {} /\ litter = {} /\ running = "none"
    /\ InstallFirst(cfg) /\ phase = "stages" /\ (pos = 1 \/ (pos = 2 /\ idx = 0)) =>
         root = {} /\ litter = {} /\ step = "start"

(* A run starts with nothing in the root and nothing running.              *)
LEMMA EmptyRootInit == Init => EmptyRoot
BY DEF Init, EmptyRoot

(* Where the install stands when the root must be empty: second, and with  *)
(* one command (the inverted order of Builder.Build, mmdebstrap).          *)
LEMMA InstallIsSecond ==
    ASSUME InstallFirst(cfg)
    PROVE  /\ Order(cfg)[1] = "bootstrap" /\ Order(cfg)[2] = "install"
           /\ \A p \in 3..10 : Order(cfg)[p] # "install"
           /\ cfg.backend = "mmdebstrap" /\ Count(cfg, "install") = 1
<1>1. cfg.scratch /\ cfg.backend = "mmdebstrap"
  BY DEF InstallFirst, RequiresEmptyRoot
<1>2. CommandsOf(cfg) = <<"mmdebstrap">>
  BY <1>1 DEF CommandsOf, InstallCommands
<1>3. Len(<<"mmdebstrap">>) = 1
  OBVIOUS
<1>4. Count(cfg, "install") = 1
  BY <1>2, <1>3 DEF Count
<1>5. Order(cfg) = <<"bootstrap", "install", "manager", "repos", "gpg", "files", "dirs",
                     "commands", "remove", "oscap">>
  BY DEF Order
<1> QED BY <1>1, <1>4, <1>5

(* A stage action leaves no command in flight: it is the return of the one *)
(* that was, or stands at a point where none is.                           *)
LEMMA StageActionsReturn == EmptyRoot /\ StageActions => running' = "none"
<1> SUFFICES ASSUME EmptyRoot, StageActions PROVE running' = "none"
  OBVIOUS
<1>1. phase = "stages" /\ (running = "none" \/ AtCommand)
  BY StageActionsMove DEF StageMove, EmptyRoot
<1> USE <1>1 DEF AtCommand, AtItem, InStage
<1>2. CASE Writes
  BY <1>2 DEF Writes, ApplyManagerConfig, WriteRepo, WriteCustomFile, WriteDirectory, Write
<1>3. CASE Bootstrap
  BY <1>3 DEF Bootstrap
<1>4. CASE InitRpmDatabase \/ InstallCommand \/ RemovePackages
  BY <1>4 DEF InitRpmDatabase, InstallCommand, RemovePackages, Returned
<1>5. CASE PlaceKey
  BY <1>5 DEF PlaceKey
<1>6. CASE ImportKey
  BY <1>6 DEF ImportKey, Returned
<1>7. CASE CleanupKey
  <2>1. CASE cfg.scratch
    BY <1>7, <2>1 DEF CleanupKey
  <2>2. CASE ~cfg.scratch
    BY <1>7, <2>2 DEF CleanupKey, Returned
  <2> QED BY <2>1, <2>2
<1>8. CASE ResolveEnvFails \/ ResolvePathsFail
  BY <1>8 DEF ResolveEnvFails, ResolvePathsFail
<1>9. CASE RunCommand \/ ChmodScript \/ ExecScript \/ RemoveScript \/ VerifyAnsible
           \/ RunPlaybook
  BY <1>9 DEF RunCommand, ChmodScript, ExecScript, RemoveScript, VerifyAnsible,
              RunPlaybook, Returned
<1>10. CASE WriteScript \/ StagePayload
  BY <1>10 DEF WriteScript, StagePayload
<1>11. CASE Scan
  BY <1>11 DEF Scan, ScanCommand, ScanFetch, ScanReject, Returned
<1> QED
  BY <1>2, <1>3, <1>4, <1>5, <1>6, <1>7, <1>8, <1>9, <1>10, <1>11
     DEF StageActions, Prepare, Gpg, Commands

(* Before the install of a backend that refuses a non-empty root, only the *)
(* bootstrap acts, and it writes nothing for such a backend.               *)
LEMMA EmptyRootStage == TypeInv /\ EmptyRoot /\ StageActions => EmptyRoot'
<1> SUFFICES ASSUME TypeInv, EmptyRoot, StageActions PROVE EmptyRoot'
  OBVIOUS
<1>1. phase = "stages" /\ phase' \in {"stages", "unwind"} /\ cfg' = cfg /\ pos' = pos
  BY StageActionsMove DEF StageMove, ItemDone, Goto, Return
<1>2. running' = "none"
  BY StageActionsReturn
<1>3. idx \in Nat
  BY DEF TypeInv, TypeOK, ControlType
<1>4. ASSUME InstallFirst(cfg), phase' = "stages", pos = 1 \/ (pos = 2 /\ idx' = 0)
      PROVE  root' = {} /\ litter' = {} /\ step' = "start"
  <2> USE <1>4
  <2>1. CASE pos = 1
    <3>1. stage = "bootstrap" /\ root = {} /\ litter = {} /\ step = "start"
      BY <1>1, <2>1, InstallIsSecond DEF stage, EmptyRoot
    <3>2. Bootstrap
      BY <3>1 DEF StageActions, Writes, Prepare, Gpg, Commands, Scan, ApplyManagerConfig,
                  WriteRepo, WriteCustomFile, WriteDirectory, Write, InitRpmDatabase,
                  InstallCommand, RemovePackages, PlaceKey, ImportKey, CleanupKey,
                  ResolveEnvFails, RunCommand, WriteScript, ChmodScript, ExecScript,
                  RemoveScript, VerifyAnsible, StagePayload, ResolvePathsFail,
                  RunPlaybook, ScanCommand, ScanFetch, ScanReject, AtItem, InStage,
                  Returned, AtCommand
    <3> QED BY <3>1, <3>2, InstallIsSecond DEF Bootstrap, ItemDone
  <2>2. CASE pos = 2
    <3>1. stage = "install"
      BY <2>2, InstallIsSecond DEF stage
    <3>2. InstallCommand
      BY <3>1 DEF StageActions, Writes, Prepare, Gpg, Commands, Scan, ApplyManagerConfig,
                  WriteRepo, WriteCustomFile, WriteDirectory, Write, Bootstrap,
                  InitRpmDatabase, RemovePackages, PlaceKey, ImportKey, CleanupKey,
                  ResolveEnvFails, RunCommand, WriteScript, ChmodScript, ExecScript,
                  RemoveScript, VerifyAnsible, StagePayload, ResolvePathsFail,
                  RunPlaybook, ScanCommand, ScanFetch, ScanReject, AtItem, InStage
    <3>3. idx' = idx + 1 \/ phase' = "unwind"
      BY <3>2 DEF InstallCommand, Mandate, ItemDone, Return
    <3> QED BY <1>3, <1>4, <2>2, <3>3
  <2> QED BY <1>4, <2>1, <2>2
<1> QED BY <1>1, <1>2, <1>4 DEF EmptyRoot

(* Every step keeps the root empty until the install of such a backend.    *)
LEMMA EmptyRootStep == TypeInv /\ Progress /\ EmptyRoot /\ [Next]_vars => EmptyRoot'
<1> SUFFICES ASSUME TypeInv, Progress, EmptyRoot, [Next]_vars PROVE EmptyRoot'
  OBVIOUS
<1>1. CASE StageActions
  BY <1>1, EmptyRootStage
<1>2. CASE Launch \/ FirstSignal \/ UNCHANGED vars
  <2>1. UNCHANGED <<ctl, fs>> /\ cfg' = cfg
    BY <1>2 DEF Launch, FirstSignal, vars, outside
  <2>2. AtCommand' = AtCommand
    BY <2>1, SameItem DEF AtCommand, ScanStep, ctl
  <2>3. phase \in {"stages", "exists", "create"} => running' = running \/ AtCommand
    BY <1>2 DEF Launch, FirstSignal, vars
  <2>4. phase \in {"exists", "create"} => running' = "none"
    BY <1>2 DEF Launch, FirstSignal, vars, AtCommand, InStage, EmptyRoot
  <2> QED BY <2>1, <2>2, <2>3, <2>4 DEF EmptyRoot, ctl, fs
<1>3. CASE NextStage
  <2>1. /\ idx \in Nat /\ Count(cfg, stage) \in Nat /\ pos \in 1..10
        /\ Len(Order(cfg)) = 10
    BY StageFacts DEF TypeInv, TypeOK, ControlType
  <2>2. ~AtCommand
    BY <1>3, <2>1 DEF NextStage, AtCommand, InStage
  <2>3. /\ phase = "stages" /\ running' = "none" /\ UNCHANGED <<root, litter, step>>
        /\ cfg' = cfg /\ phase' \in {"stages", "labels"}
    BY <1>3, <2>2 DEF NextStage, EmptyRoot, fs, outside
  <2>4. phase' = "stages" => pos' = pos + 1
    BY <1>3, <2>3 DEF NextStage
  <2> QED BY <2>1, <2>3, <2>4 DEF EmptyRoot
<1>4. CASE NewContainer
  <2>1. /\ phase = "create" /\ phase' \in {"stages", "unwind"} /\ running' = "none"
        /\ step' = "start" /\ root' = {} /\ litter' = {}
    BY <1>4 DEF NewContainer, Return, EmptyRoot, Progress, fs
  <2> QED BY <2>1 DEF EmptyRoot
<1>5. CASE AskExists \/ SkipBuild
  <2>1. /\ phase = "exists" /\ phase' \in {"exists", "create", "unwind"}
        /\ UNCHANGED <<running, root, litter>>
    BY <1>5 DEF AskExists, SkipBuild, ItemDone, Return, fs
  <2> QED BY <2>1 DEF EmptyRoot
<1>6. CASE StageRejected \/ SetLabels \/ PublishStart \/ PublishReturn \/ BuildComplete
           \/ DeleteContainer \/ PrunePulledParent \/ Exit \/ SecondSignal
  <2>1. phase' \in {"publish", "unwind", "exit", "killed"}
    BY <1>6 DEF StageRejected, SetLabels, PublishStart, PublishReturn, BuildComplete,
                DeleteContainer, PrunePulledParent, Exit, SecondSignal, TopDefer,
                ItemDone, Return, ctl
  <2> QED BY <2>1 DEF EmptyRoot
<1> QED
  BY <1>1, <1>2, <1>3, <1>4, <1>5, <1>6
     DEF Next, BuildStep, StageActions, CheckSkip, Deliver, Unwind, Terminated

(* A backend that refuses a non-empty root finds an empty one: nothing the *)
(* build does before its install command writes there                      *)
(* (Backend.RequiresEmptyRoot, Builder.Build).                             *)
THEOREM EmptyRootForInstall == Spec => []EmptyRootBootstrap
<1>1. TypeInv /\ EmptyRoot => EmptyRootBootstrap
  <2> SUFFICES ASSUME TypeInv, EmptyRoot, phase = "stages", stage = "install",
                      running # "none", InstallFirst(cfg)
               PROVE  root = {} /\ litter = {}
    BY DEF EmptyRootBootstrap, InstallFirst
  <2>1. pos \in 1..10 /\ idx \in Nat
    BY DEF TypeInv, TypeOK, ControlType
  <2>2. pos = 2
    BY <2>1, InstallIsSecond DEF stage
  <2>3. idx < 1
    BY InstallIsSecond DEF EmptyRoot, AtCommand, InStage
  <2> QED BY <2>1, <2>2, <2>3 DEF EmptyRoot
<1> QED
  BY <1>1, TypeInit, TypeStep, ProgressInit, ProgressStep, EmptyRootInit,
     EmptyRootStep, PTL DEF Spec

-----------------------------------------------------------------------------
(* The contract.                                                           *)

(* The state of the contract that Contract substitutes.                    *)
Promise ==
    CASE phase \in {"exists", "create"} -> "idle"
      [] phase \in {"stages", "labels"} -> "building"
      [] phase = "publish"              -> "delivering"
      [] phase = "killed"               -> "killed"
      [] OTHER -> CASE status = "ok"      -> "succeeded"
                    [] status = "skipped" -> "skipped"
                    [] OTHER              -> "failed"

(* A step of the contract, over the mapped variables.                      *)
PromiseMove(from, to) == Promise = from /\ Promise' = to /\ cfg'.pubs = cfg.pubs

HeldStays      == (container = "created")' = (container = "created")
DeliveredStays == published' = published

PromiseStutters ==
    Promise' = Promise /\ cfg'.pubs = cfg.pubs /\ HeldStays /\ DeliveredStays

(* Each kind of mapped step is a step of the contract or leaves its        *)
(* variables alone.                                                        *)
LEMMA ContractSteps ==
    /\ PromiseStutters => UNCHANGED Contract!vars
    /\ PromiseMove("idle", "skipped") /\ HeldStays /\ DeliveredStays => Contract!Next
    /\ PromiseMove("idle", "failed") /\ HeldStays /\ DeliveredStays => Contract!Next
    /\ PromiseMove("idle", "building") /\ container' = "created" /\ DeliveredStays
         => Contract!Next
    /\ PromiseMove("building", "delivering") /\ HeldStays /\ DeliveredStays
         => Contract!Next
    /\ PromiseMove("building", "failed") /\ HeldStays /\ DeliveredStays => Contract!Next
    /\ PromiseMove("delivering", "failed") /\ HeldStays /\ DeliveredStays
         => Contract!Next
    /\ \A n \in 1..cfg.pubs :
         /\ PromiseMove("delivering", "delivering") /\ HeldStays
         /\ published = 1..(n - 1) /\ published' = 1..n
         => Contract!Next
    /\ /\ PromiseMove("delivering", "succeeded") /\ HeldStays /\ DeliveredStays
       /\ published = 1..cfg.pubs
       => Contract!Next
    /\ /\ Promise \in {"succeeded", "failed"} /\ Promise' = Promise
       /\ cfg'.pubs = cfg.pubs /\ DeliveredStays
       /\ container = "created" /\ container' # "created"
       => Contract!Next
    /\ Promise' = "killed" /\ cfg'.pubs = cfg.pubs /\ HeldStays /\ DeliveredStays
         => Contract!Next
BY DEF Promise, PromiseMove, HeldStays, DeliveredStays, PromiseStutters, Contract!vars,
       Contract!Next, Contract!Skip, Contract!Refuse, Contract!Acquire, Contract!Complete,
       Contract!Deliver, Contract!Succeed, Contract!GiveUp, Contract!Release,
       Contract!Kill, Contract!Move

(* A run starts idle, with a destination to deliver to.                    *)
LEMMA ContractInit == Init => Contract!Init
<1> SUFFICES ASSUME Init PROVE Contract!Init
  OBVIOUS
<1>1. cfg.pubs \in Nat \ {0}
  BY ConfigsAssumption DEF Init, ConfigType
<1>2. phase \in {"exists", "create"} /\ container = "none" /\ published = {}
  BY DEF Init
<1> QED BY <1>1, <1>2 DEF Contract!Init

(* Every step of Build is a step its contract allows, or one it cannot see *)
(* (Builder.Build).                                                        *)
LEMMA ContractStep ==
    TypeInv /\ Outcome /\ Unwinding /\ [Next]_vars => [Contract!Next]_Contract!vars
<1> SUFFICES ASSUME TypeInv, Outcome, Unwinding, [Next]_vars
             PROVE  Contract!Next \/ UNCHANGED Contract!vars
  OBVIOUS
<1>0. cfg' = cfg
  BY RootGrows
<1>1. CASE StageActions
  <2>1. /\ phase = "stages" /\ UNCHANGED outside
        /\ phase' = "stages" \/ (phase' = "unwind" /\ status' = "error")
    BY <1>1, StageActionsMove DEF StageMove, ItemDone, Goto, Return
  <2>2. HeldStays /\ DeliveredStays
    BY <2>1 DEF HeldStays, DeliveredStays, outside
  <2>3. CASE phase' = "stages"
    BY <1>0, <2>1, <2>2, <2>3, ContractSteps DEF PromiseStutters, Promise
  <2>4. CASE phase' = "unwind" /\ status' = "error"
    BY <1>0, <2>1, <2>2, <2>4, ContractSteps DEF PromiseMove, Promise
  <2> QED BY <2>1, <2>3, <2>4
<1>2. CASE AskExists \/ SkipBuild
  <2>1. /\ phase = "exists" /\ HeldStays /\ DeliveredStays
        /\ \/ phase' \in {"exists", "create"}
           \/ phase' = "unwind" /\ status' \in {"error", "skipped"}
    BY <1>2 DEF AskExists, SkipBuild, ItemDone, Return, outside, HeldStays, DeliveredStays
  <2>2. CASE phase' \in {"exists", "create"}
    BY <1>0, <2>1, <2>2, ContractSteps DEF PromiseStutters, Promise
  <2>3. CASE phase' = "unwind" /\ status' \in {"error", "skipped"}
    BY <1>0, <2>1, <2>3, ContractSteps DEF PromiseMove, Promise
  <2> QED BY <2>1, <2>2, <2>3
<1>3. CASE NewContainer
  <2>1. phase = "create" /\ DeliveredStays
    BY <1>3 DEF NewContainer, DeliveredStays
  <2>2. CASE phase' = "unwind" /\ status' = "error" /\ container' = container
    BY <1>0, <2>1, <2>2, ContractSteps DEF PromiseMove, Promise, HeldStays
  <2>3. CASE phase' = "stages" /\ container' = "created"
    BY <1>0, <2>1, <2>3, ContractSteps DEF PromiseMove, Promise
  <2> QED BY <1>3, <2>2, <2>3 DEF NewContainer, Return
<1>4. CASE StageRejected
  <2>1. /\ phase = "stages" /\ phase' = "unwind" /\ status' = "error"
        /\ HeldStays /\ DeliveredStays
    BY <1>4 DEF StageRejected, Return, outside, HeldStays, DeliveredStays
  <2> QED BY <1>0, <2>1, ContractSteps DEF PromiseMove, Promise
<1>5. CASE NextStage
  <2>1. /\ phase = "stages" /\ phase' \in {"stages", "labels"}
        /\ HeldStays /\ DeliveredStays
    BY <1>5 DEF NextStage, outside, HeldStays, DeliveredStays
  <2> QED BY <1>0, <2>1, ContractSteps DEF PromiseStutters, Promise
<1>6. CASE Launch \/ PublishStart \/ FirstSignal \/ UNCHANGED vars
  <2>1. UNCHANGED <<phase, status, container, published>>
    BY <1>6 DEF Launch, PublishStart, FirstSignal, vars, ctl, outside
  <2> QED BY <1>0, <2>1, ContractSteps DEF PromiseStutters, Promise, HeldStays,
                                           DeliveredStays
<1>7. CASE SetLabels
  <2>1. phase = "labels" /\ phase' = "publish" /\ HeldStays /\ DeliveredStays
    BY <1>7 DEF SetLabels, HeldStays, DeliveredStays
  <2> QED BY <1>0, <2>1, ContractSteps DEF PromiseMove, Promise
<1>8. CASE PublishReturn
  <2>1. phase = "publish" /\ HeldStays /\ published = 1..idx
    BY <1>8 DEF PublishReturn, HeldStays, Outcome
  <2>2. CASE published' = published \union {idx + 1} /\ ItemDone
    <3>1. idx + 1 \in 1..cfg.pubs /\ idx = (idx + 1) - 1
      <4>1. idx \in Nat /\ cfg.pubs \in Nat /\ idx < cfg.pubs
        BY <1>8, StageFacts DEF PublishReturn, TypeInv, TypeOK, ControlType
      <4> QED BY <4>1
    <3>2. published' = 1..(idx + 1) /\ published = 1..((idx + 1) - 1)
      BY <2>1, <2>2, <3>1, OneMore DEF TypeInv, TypeOK, ControlType
    <3>3. PromiseMove("delivering", "delivering")
      BY <1>0, <2>1, <2>2 DEF PromiseMove, Promise, ItemDone
    <3> QED BY <2>1, <3>1, <3>2, <3>3, ContractSteps
  <2>3. CASE Return("error") /\ DeliveredStays
    BY <1>0, <2>1, <2>3, ContractSteps DEF PromiseMove, Promise, Return
  <2> QED BY <1>8, <2>2, <2>3 DEF PublishReturn, DeliveredStays
<1>9. CASE BuildComplete
  <2>1. /\ phase = "publish" /\ phase' = "unwind" /\ status' = "ok"
        /\ published = 1..cfg.pubs /\ HeldStays /\ DeliveredStays
    BY <1>9 DEF BuildComplete, Return, Outcome, outside, HeldStays, DeliveredStays
  <2> QED BY <1>0, <2>1, ContractSteps DEF PromiseMove, Promise
<1>10. CASE DeleteContainer
  <2>1. phase = "unwind" /\ phase' = "unwind" /\ status' = status /\ DeliveredStays
    BY <1>10 DEF DeleteContainer, TopDefer, ctl, DeliveredStays
  <2>2. defers = DeferStack
    BY <1>10, DeferStacks DEF DeleteContainer, TopDefer, TypeInv, TypeOK, DefersType,
                              DeferStack
  <2>3. container = "created" /\ container' # "created"
    BY <1>10, <2>1, <2>2 DEF DeleteContainer, Unwinding
  <2>4. status # "skipped"
    BY <2>2, DeferStacks DEF Outcome
  <2> QED BY <1>0, <2>1, <2>3, <2>4, ContractSteps DEF Promise
<1>11. CASE PrunePulledParent \/ Exit
  <2>1. /\ phase = "unwind" /\ phase' \in {"unwind", "exit"} /\ status' = status
        /\ HeldStays /\ DeliveredStays
    BY <1>11 DEF PrunePulledParent, Exit, TopDefer, ctl, outside, HeldStays, DeliveredStays
  <2> QED BY <1>0, <2>1, ContractSteps DEF PromiseStutters, Promise
<1>12. CASE SecondSignal
  <2>1. phase' = "killed" /\ HeldStays /\ DeliveredStays
    BY <1>12 DEF SecondSignal, outside, HeldStays, DeliveredStays
  <2> QED BY <1>0, <2>1, ContractSteps DEF Promise
<1> QED
  BY <1>1, <1>2, <1>3, <1>4, <1>5, <1>6, <1>7, <1>8, <1>9, <1>10, <1>11, <1>12
     DEF Next, BuildStep, StageActions, CheckSkip, Deliver, Unwind, Terminated

(* The pipeline implements the contract of a build, for every set of       *)
(* configs and exit codes: it delivers in order, only once the image is    *)
(* complete, and reports success only when every destination has the image *)
(* or the build was skipped (Builder.Build).                               *)
THEOREM BuildImplementsContract == Spec => ImplementsContract
<1>1. Spec => [](TypeInv /\ Outcome /\ Unwinding)
  BY TypeInit, TypeStep, OutcomeInit, OutcomeStep, UnwindingInit, UnwindingStep, PTL
     DEF Spec
<1> QED
  BY <1>1, ContractInit, ContractStep, PTL DEF Spec, ImplementsContract, Contract!Spec
==============================================================================
