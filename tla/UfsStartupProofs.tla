---------------------------- MODULE UfsStartupProofs ----------------------------
(***************************************************************************)
(* What holds of ufs_init for every number of attempts, polls and units,   *)
(* and for all lists of UIC commands: the variables keep their types, the  *)
(* units are looked for over a link that the last attempt has brought up,  *)
(* the enumeration registers what is there, and the whole implements       *)
(* LinkBringUp.                                                            *)
(*                                                                         *)
(* Two invariants carry all of it.  StartInv says of each place in an      *)
(* attempt what has been achieved before it; an attempt that fails goes    *)
(* back to a place that is before everything, which is why FailStep is one *)
(* lemma for all of them.  ScanInv says that the container of the present  *)
(* turn lies behind all containers in use (Turned), and that what a unit   *)
(* was asked, it has executed unless a command went astray (Truth).        *)
(***************************************************************************)
EXTENDS UfsStartup, TLAPS

-------------------------------------------------------------------------------
(* How far an attempt has come                                             *)

(* Labels after a step of an attempt has succeeded.                         *)
AfterPower  == {"active_lanes", "post_gear", "boot_lun", "unit_descs", "scan"}
AfterList   == {"power_mode"} \cup AfterPower
AfterLanes  == {"pre_gear"} \cup AfterList
AfterInit   == {"check_lanes", "list"} \cup AfterLanes
AfterLink   == {"max_gear", "post_link", "active_lanes_1", "nop", "set_init", "read_init"}
                 \cup AfterInit

Past(labels) == pc \in labels \/ result = "ok"

(* The setting that ends ufs_pmc_common.                                    *)
LastSetting == PowerList[Len(PowerList)]

(* Counting and going on.                                                   *)
Course ==
  /\ pc = "out" <=> result # "none"
  /\ pc # "out" => attempts < MaxAttempts
  /\ pc = "host" => attempts = 0 /\ ~linkUp
  /\ pc = "read_init" => polls > 0
  /\ pc = "list" => list # <<>>

(* What an attempt has achieved where it is.                                *)
Progress ==
  /\ Past(AfterLink) => linkUp
  /\ Past(AfterInit) /\ ~lost => devInit = "finished"
  /\ pc = "read_init" /\ ~lost => devInit # "not"
  /\ Past(AfterLanes) \/ (pc = "list" /\ list = PowerList) => lane = lanes[1]
  /\ pc = "list" /\ cmd > 1 /\ res = "ok" /\ ~uicLate => list[cmd - 1] \notin refused
  /\ Past(AfterList) /\ ~uicLate => LastSetting \notin refused
  /\ Past(AfterPower) => fast

StartInv == StartupTypeOK /\ Course /\ Progress

LEMMA ListFacts ==
  /\ LaneList \in Seq(STRING) /\ PowerList \in Seq(STRING)
  /\ Len(LaneList) \in Nat \ {0} /\ Len(PowerList) \in Nat \ {0}
  /\ LaneList # <<>> /\ PowerList # <<>> /\ LaneList # PowerList
<1>1. /\ LaneList \in Seq(STRING) /\ Len(LaneList) > 0
      /\ PowerList \in Seq(STRING) /\ Len(PowerList) > 0
  BY StartupAssumption
<1> QED BY <1>1, StartupAssumption

LEMMA FailEffect ==
  ASSUME StartInv, pc # "out", FailAttempt
  PROVE  /\ attempts' \in 0 .. MaxAttempts
         /\ \/ pc' = "reset" /\ result' = "none" /\ attempts' < MaxAttempts
            \/ pc' = "out" /\ result' = "fail" /\ attempts' = MaxAttempts
         /\ pc' \in Labels /\ result' \in {"none", "ok", "fail"}
         /\ attempts' = attempts + 1
  BY StartupAssumption DEF StartInv, StartupTypeOK, Course, FailAttempt, Retry, Labels

Rest == /\ quirks \subseteq {"broken_hce", "one_lane"}
        /\ lane \in 0 .. 2 /\ flag \in BOOLEAN /\ polls \in 0 .. InitPolls
        /\ list \in {<<>>, LaneList, PowerList} /\ cmd \in 1 .. Len(list) + 1
        /\ res \in {"ok", "fail"}
        /\ linkUp \in BOOLEAN /\ lanes \in LaneCounts /\ fast \in BOOLEAN
        /\ devInit \in {"not", "running", "finished"} /\ bootLunEn \in BootLuns
        /\ uicLate \in BOOLEAN /\ refused \subseteq Settings

(* An attempt that failed has nothing to keep but its count. *)
LEMMA FailStep ==
  ASSUME StartInv, pc # "out", FailAttempt, Rest'
  PROVE  StartInv'
<1>1. /\ attempts' \in 0 .. MaxAttempts
      /\ \/ pc' = "reset" /\ result' = "none" /\ attempts' < MaxAttempts
         \/ pc' = "out" /\ result' = "fail" /\ attempts' = MaxAttempts
      /\ pc' \in Labels /\ result' \in {"none", "ok", "fail"}
  BY FailEffect
<1>2. StartupTypeOK'
  BY <1>1 DEF Rest, StartupTypeOK
<1>3. Course'
  BY <1>1 DEF Course
<1>4. Progress'
  BY <1>1 DEF Progress, Past, AfterPower, AfterList, AfterLanes, AfterInit, AfterLink
<1> QED BY <1>2, <1>3, <1>4 DEF StartInv

(* The steps that only succeed or fail.                                     *)
LEMMA StepStep ==
  ASSUME StartInv, NEW here \in Labels, NEW next \in Labels, Step(here, next),
         here # "out", next \notin {"host", "read_init", "list", "out"},
         next \in AfterLink => here \in AfterLink,
         next \in AfterInit => here \in AfterInit,
         next \in AfterLanes => here \in AfterLanes,
         next \in AfterList => here \in AfterList,
         next \in AfterPower => here \in AfterPower
  PROVE  StartInv'
<1>1. pc = here /\ UNCHANGED <<Locals, link, refused, lost>>
  BY DEF Step, bus
<1>2. Rest'
  BY <1>1 DEF StartInv, StartupTypeOK, Rest, Locals, link
<1>3. CASE FailAttempt
  BY <1>1, <1>2, <1>3, FailStep
<1>4. CASE Goto(next)
  <2>1. pc' = next /\ UNCHANGED <<attempts, result>>
    BY <1>4 DEF Goto
  <2>2. result = "none" /\ attempts < MaxAttempts
    BY <1>1 DEF StartInv, Course
  <2>3. StartupTypeOK'
    BY <1>2, <2>1 DEF StartInv, StartupTypeOK, Rest
  <2>4. Course'
    BY <2>1, <2>2 DEF Course
  <2>5. Progress'
    BY <1>1, <2>1, <2>2 DEF StartInv, Progress, Past, Locals, link
  <2> QED BY <2>3, <2>4, <2>5 DEF StartInv
<1> QED BY <1>3, <1>4 DEF Step

(* Going on within an attempt.                                              *)
LEMMA GoOn ==
  ASSUME StartInv, NEW next \in Labels, Goto(next), pc # "out", Rest',
         next \notin {"host", "out"},
         next = "read_init" => polls' > 0,
         next = "list" => list' # <<>>,
         Progress'
  PROVE  StartInv'
<1>1. pc' = next /\ UNCHANGED <<attempts, result>>
  BY DEF Goto
<1>2. result = "none" /\ attempts < MaxAttempts
  BY DEF StartInv, Course
<1>3. StartupTypeOK'
  BY <1>1 DEF StartInv, StartupTypeOK, Rest
<1>4. Course'
  BY <1>1, <1>2 DEF Course
<1> QED BY <1>3, <1>4 DEF StartInv

LEMMA StartStep ==
  ASSUME StartInv, [Next]_vars PROVE StartInv'
<1> USE StartupAssumption
<1> USE DEF Locals, link, bus
<1>t. Rest /\ Course /\ Progress
  BY DEF StartInv, StartupTypeOK, Rest
<1>l. /\ AfterPower \subseteq Labels /\ AfterList \subseteq Labels
      /\ AfterLink \subseteq Labels
  BY DEF AfterPower, AfterList, AfterLanes, AfterInit, AfterLink, Labels
<1>1. CASE InitHost
  <2>1. Rest' /\ UNCHANGED <<linkUp, devInit, lost, lane, lanes, list, cmd, res, refused, uicLate, fast>>
    BY <1>t, <1>1 DEF InitHost, Rest
  <2>2. CASE Goto("reset")
    <3>1. Progress'
      BY <1>t, <1>1, <2>2 DEF InitHost, Goto, Course, Progress, Past,
             AfterPower, AfterList, AfterLanes, AfterInit, AfterLink
    <3> QED BY <1>1, <2>1, <2>2, <3>1, GoOn DEF InitHost, Labels
  <2>3. CASE ReturnWith("fail")
    <3>1. pc' = "out" /\ result' = "fail" /\ attempts' = attempts
      BY <2>3 DEF ReturnWith
    <3>2. StartupTypeOK'
      BY <2>1, <3>1 DEF StartInv, StartupTypeOK, Rest, Labels
    <3>3. Course' /\ Progress'
      BY <3>1 DEF Course, Progress, Past,
             AfterPower, AfterList, AfterLanes, AfterInit, AfterLink
    <3> QED BY <3>2, <3>3 DEF StartInv
  <2> QED BY <1>1, <2>2, <2>3 DEF InitHost
<1>2. CASE SoftReset
  <2>1. Rest'
    BY <1>t, <1>2 DEF SoftReset, Rest
  <2>2. Progress'
    BY <1>t, <1>2 DEF SoftReset, Goto, Course, Progress, Past,
           AfterPower, AfterList, AfterLanes, AfterInit, AfterLink
  <2> QED BY <1>2, <2>1, <2>2, GoOn DEF SoftReset, Labels
<1>3. CASE Steps
  BY <1>3, StepStep DEF Steps, Labels,
         AfterPower, AfterList, AfterLanes, AfterInit, AfterLink
<1>4. CASE LinkStartup
  <2>1. Rest'
    BY <1>t, <1>4 DEF LinkStartup, Rest
  <2>2. CASE FailAttempt
    BY <1>4, <2>1, <2>2, FailStep DEF LinkStartup
  <2>3. CASE Goto("max_gear") /\ linkUp'
    <3>1. Progress'
      BY <1>t, <1>4, <2>3 DEF LinkStartup, Goto, Course, Progress, Past,
             AfterPower, AfterList, AfterLanes, AfterInit, AfterLink
    <3> QED BY <1>4, <2>1, <2>3, <3>1, GoOn DEF LinkStartup, Labels
  <2> QED BY <1>4, <2>2, <2>3 DEF LinkStartup
<1>5. CASE NopOut
  <2>1. Rest'
    BY <1>t, <1>5 DEF NopOut, Rest
  <2>2. CASE FailAttempt
    BY <1>5, <2>1, <2>2, FailStep DEF NopOut
  <2>3. CASE Goto("set_init")
    <3>1. Progress'
      BY <1>t, <1>5, <2>3 DEF NopOut, Answered, Unseen, Goto, Course, Progress, Past,
             AfterPower, AfterList, AfterLanes, AfterInit, AfterLink
    <3> QED BY <1>5, <2>1, <2>3, <3>1, GoOn DEF NopOut, Labels
  <2> QED BY <1>5, <2>2, <2>3 DEF NopOut
<1>6. CASE SetDeviceInit
  <2>1. Rest'
    BY <1>t, <1>6 DEF SetDeviceInit, Rest
  <2>2. CASE FailAttempt
    BY <1>6, <2>1, <2>2, FailStep DEF SetDeviceInit
  <2>3. CASE Goto("read_init") /\ (devInit' = "running" \/ lost')
    <3>0. linkUp' /\ polls' > 0
      BY <1>t, <1>6, <2>3 DEF SetDeviceInit, Goto, Progress, Past, AfterLink
    <3>1. Progress'
      BY <1>t, <1>6, <2>3, <3>0 DEF SetDeviceInit, Goto, Course, Progress, Past,
             AfterPower, AfterList, AfterLanes, AfterInit, AfterLink
    <3> QED BY <1>6, <2>1, <2>3, <3>0, <3>1, GoOn DEF SetDeviceInit, Labels
  <2> QED BY <1>6, <2>2, <2>3 DEF SetDeviceInit, Silent, GivenUp, Unseen
<1>7. CASE ReadDeviceInit
  <2>0. polls \in 1 .. InitPolls
    BY <1>t, <1>7 DEF ReadDeviceInit, Course, Rest
  <2>1. Rest'
    <3>1. flag' \in BOOLEAN
      BY <1>t, <1>7 DEF ReadDeviceInit, Rest
    <3>2. polls' \in {0, polls - 1}
      BY <1>7 DEF ReadDeviceInit, PollNext
    <3>3. polls' \in 0 .. InitPolls
      BY <2>0, <3>2
    <3> QED BY <1>t, <1>7, <3>1, <3>3 DEF ReadDeviceInit, Rest
  <2>2. CASE FailAttempt
    BY <1>7, <2>1, <2>2, FailStep DEF ReadDeviceInit
  <2>3. CASE Goto("read_init") /\ polls' > 0 /\ (lost' \/ UNCHANGED lost)
    <3>1. Progress'
      BY <1>t, <1>7, <2>3 DEF ReadDeviceInit, Goto, Course, Progress, Past,
             AfterPower, AfterList, AfterLanes, AfterInit, AfterLink
    <3> QED BY <1>7, <2>1, <2>3, <3>1, GoOn DEF ReadDeviceInit, Labels
  <2>4. CASE Goto("check_lanes") /\ (lost' \/ (UNCHANGED lost /\ devInit # "running"))
    <3>1. Progress'
      BY <1>t, <1>7, <2>4 DEF ReadDeviceInit, Goto, Course, Progress, Past, Rest,
             AfterPower, AfterList, AfterLanes, AfterInit, AfterLink
    <3> QED BY <1>7, <2>1, <2>4, <3>1, GoOn DEF ReadDeviceInit, Labels
  <2> QED BY <1>7, <2>0, <2>2, <2>3, <2>4 DEF ReadDeviceInit, PollNext, Silent, GivenUp, Unseen,
        Answered
<1>8. CASE CheckLanes
  <2>1. Rest'
    BY <1>t, <1>8, ListFacts DEF CheckLanes, Rest
  <2>2. CASE FailAttempt
    BY <1>8, <2>1, <2>2, FailStep DEF CheckLanes
  <2>3. CASE Goto("list") /\ list' = LaneList /\ cmd' = 1
    <3>1. Progress'
      BY <1>t, <1>8, <2>3, ListFacts DEF CheckLanes, Goto, Course, Progress, Past,
             AfterPower, AfterList, AfterLanes, AfterInit, AfterLink
    <3> QED BY <1>8, <2>1, <2>3, <3>1, ListFacts, GoOn DEF CheckLanes, Labels
  <2>4. CASE Goto("pre_gear") /\ lane' = lanes[1]
    <3>1. Progress'
      BY <1>t, <1>8, <2>4 DEF CheckLanes, Goto, Course, Progress, Past,
             AfterPower, AfterList, AfterLanes, AfterInit, AfterLink
    <3> QED BY <1>8, <2>1, <2>4, <3>1, GoOn DEF CheckLanes, Labels
  <2> QED BY <1>8, <2>2, <2>3, <2>4 DEF CheckLanes
<1>9. CASE SetAttribute
  <2>0. list \in {LaneList, PowerList} /\ cmd \in 1 .. Len(list) /\ list \in Seq(STRING)
    BY <1>t, <1>9, ListFacts DEF SetAttribute, Course, Rest
  <2>1. list[cmd] \in Settings
    BY <2>0, ListFacts DEF Settings
  <2>e. /\ res' \in {"ok", "fail"} /\ uicLate' \in BOOLEAN /\ (uicLate => uicLate')
        /\ refused' \in {refused \ {list[cmd]}, refused \cup {list[cmd]}}
        /\ (res' = "ok" /\ ~uicLate') => refused' = refused \ {list[cmd]}
    <3>1. CASE Completes(list[cmd])
      <4>1. uicLate' = uicLate /\ uicLate \in BOOLEAN
        BY <1>t, <3>1 DEF Completes, Rest
      <4>2. CASE res' = "ok" /\ refused' = refused \ {list[cmd]}
        BY <4>1, <4>2
      <4>3. CASE res' = "fail" /\ refused' = refused \cup {list[cmd]}
        BY <4>1, <4>3
      <4> QED BY <3>1, <4>2, <4>3 DEF Completes, Taken, Refused
    <3>2. CASE EndsEarly(list[cmd])
      BY <3>2 DEF EndsEarly, Taken, Refused
    <3> QED BY <1>9, <3>1, <3>2 DEF SetAttribute
  <2>2. StartupTypeOK'
    BY <1>t, <1>9, <2>0, <2>1, <2>e, ListFacts DEF SetAttribute, StartInv, StartupTypeOK, Rest
  <2>3. Course'
    BY <1>t, <1>9 DEF SetAttribute, Course
  <2>4. result = "none"
    BY <1>t, <1>9 DEF SetAttribute, Course
  <2>5. Progress'
    BY <1>t, <1>9, <2>0, <2>4, <2>e DEF SetAttribute, Progress, Past,
           AfterPower, AfterList, AfterLanes, AfterInit, AfterLink
  <2> QED BY <2>2, <2>3, <2>5 DEF StartInv
<1>10. CASE ListFailed
  <2>1. Rest'
    BY <1>t, <1>10 DEF ListFailed, NoList, Rest
  <2> QED BY <1>10, <2>1, FailStep DEF ListFailed
<1>11. CASE LanesSet
  <2>1. Rest'
    BY <1>t, <1>11 DEF LanesSet, NoList, Rest
  <2>2. Progress'
    BY <1>t, <1>11 DEF LanesSet, NoList, Goto, Course, Progress, Past,
           AfterPower, AfterList, AfterLanes, AfterInit, AfterLink
  <2> QED BY <1>11, <2>1, <2>2, GoOn DEF LanesSet, Labels
<1>12. CASE PreGearChange
  <2>1. Rest'
    BY <1>t, <1>12, ListFacts DEF PreGearChange, Rest
  <2>2. CASE FailAttempt
    BY <1>12, <2>1, <2>2, FailStep DEF PreGearChange
  <2>3. CASE Goto("list") /\ list' = PowerList /\ cmd' = 1
    <3>1. Progress'
      BY <1>t, <1>12, <2>3, ListFacts DEF PreGearChange, Goto, Course, Progress, Past,
             AfterPower, AfterList, AfterLanes, AfterInit, AfterLink
    <3> QED BY <1>12, <2>1, <2>3, <3>1, ListFacts, GoOn DEF PreGearChange, Labels
  <2> QED BY <1>12, <2>2, <2>3 DEF PreGearChange
<1>13. CASE PowerSet
  <2>1. Rest'
    BY <1>t, <1>13 DEF PowerSet, NoList, Rest
  <2>2. ~uicLate => LastSetting \notin refused
    <3>1. list = PowerList /\ cmd = Len(PowerList) + 1 /\ cmd > 1 /\ res = "ok" /\ pc = "list"
      BY <1>t, <1>13, ListFacts DEF PowerSet, Rest
    <3>2. ~uicLate => list[cmd - 1] \notin refused
      BY <1>t, <3>1 DEF Progress
    <3> QED BY <3>1, <3>2, ListFacts DEF LastSetting
  <2>3. Progress'
    BY <1>t, <1>13, <2>2 DEF PowerSet, NoList, Goto, Course, Progress, Past, LastSetting,
           AfterPower, AfterList, AfterLanes, AfterInit, AfterLink
  <2> QED BY <1>13, <2>1, <2>3, GoOn DEF PowerSet, Labels
<1>14. CASE PowerModeChange
  <2>1. Rest'
    BY <1>t, <1>14 DEF PowerModeChange, Rest
  <2>2. CASE FailAttempt
    BY <1>14, <2>1, <2>2, FailStep DEF PowerModeChange
  <2>3. CASE Goto("active_lanes") /\ fast'
    <3>1. Progress'
      BY <1>t, <1>14, <2>3 DEF PowerModeChange, Goto, Course, Progress, Past,
             AfterPower, AfterList, AfterLanes, AfterInit, AfterLink
    <3> QED BY <1>14, <2>1, <2>3, <3>1, GoOn DEF PowerModeChange, Labels
  <2> QED BY <1>14, <2>2, <2>3 DEF PowerModeChange
<1>15. ASSUME pc \in {"boot_lun", "unit_descs", "scan"}, UNCHANGED <<Locals, link, refused>>,
              lost => lost',
              \/ ReturnWith("fail") \/ ReturnWith("ok")
              \/ Goto("unit_descs") \/ Goto("scan")
       PROVE  StartInv'
  <2>1. Rest' /\ attempts' = attempts
    BY <1>t, <1>15 DEF Rest, ReturnWith, Goto
  <2>2. pc' \in {"boot_lun", "unit_descs", "scan", "out"} /\ result' \in {"none", "ok", "fail"}
        /\ (pc' = "out" <=> result' # "none")
    BY <1>t, <1>15 DEF ReturnWith, Goto, Course
  <2>3. StartupTypeOK'
    BY <2>1, <2>2 DEF StartInv, StartupTypeOK, Rest, Labels
  <2>4. Course'
    BY <1>t, <1>15, <2>1, <2>2 DEF Course
  <2>5. linkUp /\ (~lost => devInit = "finished") /\ lane = lanes[1] /\ fast
        /\ (~uicLate => LastSetting \notin refused)
    BY <1>t, <1>15 DEF Progress, Past,
           AfterPower, AfterList, AfterLanes, AfterInit, AfterLink
  <2>6. Progress'
    BY <1>15, <2>2, <2>5 DEF Progress, Past, LastSetting
  <2> QED BY <2>3, <2>4, <2>6 DEF StartInv
<1>16. CASE ReadBootLunEn
  <2>1. lost => lost'
    BY <1>16 DEF ReadBootLunEn, Answered, Silent, GivenUp, Unseen
  <2>2. Goto("unit_descs") \/ ReturnWith("fail")
    BY <1>16 DEF ReadBootLunEn
  <2> QED BY <1>15, <1>16, <2>1, <2>2 DEF ReadBootLunEn
<1>17. CASE ReadUnitDescs
  BY <1>15, <1>17 DEF ReadUnitDescs, Answered, Silent, GivenUp, Unseen
<1>18. ASSUME UNCHANGED <<driver, link, refused>>, lost => lost' PROVE StartInv'
  BY <1>18 DEF StartInv, StartupTypeOK, Course, Progress, Past, LastSetting, driver
<1>19. CASE Enumerate
  <2>1. lost => lost'
    BY <1>19 DEF Enumerate, ScanNext, StartScan, Found, NotFound, Attention, Sized, BreakOff,
             Reported, Executed, Mistaken, Unseen, Failed
  <2> QED BY <1>18, <1>19, <2>1 DEF Enumerate
<1>20. CASE EndScan
  BY <1>15, <1>20 DEF EndScan
<1>21. CASE Provisioned
  BY <1>18, <1>21 DEF Provisioned, Removal, StartRemoval, RemoveDevice, EndRemoval
<1>22. CASE ResetDone
  <2>1. Rest'
    BY <1>t, <1>22 DEF ResetDone, Rest
  <2>2. PICK next \in {"dme_reset", "hce"} : Goto(next)
    BY <1>22 DEF ResetDone
  <2>3. Progress'
    BY <1>t, <1>22, <2>2 DEF ResetDone, Goto, Course, Progress, Past,
           AfterPower, AfterList, AfterLanes, AfterInit, AfterLink
  <2> QED BY <1>22, <2>1, <2>2, <2>3, GoOn DEF ResetDone, Labels
<1>23. CASE HostEnabled
  <2>1. Rest'
    BY <1>t, <1>23 DEF HostEnabled, Rest
  <2>3. Progress'
    BY <1>t, <1>23 DEF HostEnabled, Goto, Course, Progress, Past,
           AfterPower, AfterList, AfterLanes, AfterInit, AfterLink
  <2> QED BY <1>23, <2>1, <2>3, GoOn DEF HostEnabled, Labels
<1>24. CASE DeviceReady
  BY <1>24 DEF DeviceReady, StartInv, StartupTypeOK, Course, Progress, Past, LastSetting, driver
<1>25. CASE UNCHANGED vars
  BY <1>18, <1>25 DEF vars
<1> QED
  BY <1>1, <1>2, <1>3, <1>4, <1>5, <1>6, <1>7, <1>8, <1>9, <1>10, <1>11, <1>12, <1>13,
     <1>14, <1>16, <1>17, <1>19, <1>20, <1>21, <1>22, <1>23, <1>24, <1>25
  DEF Next, Driver, Device

LEMMA StartInit == Init => StartInv
<1> SUFFICES ASSUME Init PROVE StartInv
  OBVIOUS
<1> USE StartupAssumption
<1>1. pc \in Labels /\ Course
  BY DEF Init, Course, Labels
<1>2. attempts \in 0 .. MaxAttempts /\ result \in {"none", "ok", "fail"}
  BY DEF Init
<1>3. Rest
  <2>1. cmd \in 1 .. Len(list) + 1 /\ polls \in 0 .. InitPolls
    BY DEF Init
  <2>2. quirks \subseteq {"broken_hce", "one_lane"} /\ refused \subseteq Settings
    BY DEF Init
  <2>3. lane \in 0 .. 2 /\ list \in {<<>>, LaneList, PowerList} /\ res \in {"ok", "fail"}
    BY DEF Init
  <2>4. flag \in BOOLEAN /\ linkUp \in BOOLEAN /\ fast \in BOOLEAN /\ uicLate \in BOOLEAN
    BY DEF Init
  <2>5. lanes \in LaneCounts /\ bootLunEn \in BootLuns /\ devInit \in {"not", "running", "finished"}
    BY DEF Init
  <2> QED BY <2>1, <2>2, <2>3, <2>4, <2>5 DEF Rest
<1>5. StartupTypeOK
  BY <1>1, <1>2, <1>3 DEF StartupTypeOK, Rest
<1>4. Progress
  BY DEF Init, Progress, Past, AfterPower, AfterList, AfterLanes, AfterInit, AfterLink
<1> QED BY <1>1, <1>4, <1>5 DEF StartInv

(* For every number of attempts and polls and every device, units are       *)
(* looked for over a link whose lanes and power mode are those of the last  *)
(* attempt; its last setting was taken unless a UIC command was given up in *)
(* a list, and the device was ready unless a query was given up or failed   *)
(* unseen (ufs_init_interface).                                             *)
THEOREM StartsUp == Spec => []StartedUp
<1>1. StartInv => StartedUp
  BY DEF StartInv, Progress, Past, StartedUp, Connected, LastSetting,
         AfterPower, AfterList, AfterLanes, AfterInit, AfterLink
<1> QED BY StartInit, StartStep, <1>1, PTL DEF Spec

-------------------------------------------------------------------------------
(* The enumeration                                                         *)

LEMMA UnitFacts ==
  /\ RpmbLun \notin Luns /\ SsuLun \notin Luns /\ NoUnit \notin Luns
  /\ NumberOfLus \in Nat /\ MaxDevice \in Nat \ {0} /\ RpmbLun # SsuLun
  /\ RpmbDev \in Containers /\ SsuDev \in Containers
  /\ \A u \in Luns : u \in Nat /\ u < MaxDevice
  /\ NoUnit \notin {RpmbLun, SsuLun}
<1>1. NumberOfLus \in 0 .. MaxDevice /\ MaxDevice \in 1 .. 68
  BY ScanAssumption DEF RpmbLun
<1>2. NumberOfLus \in Nat /\ MaxDevice \in Nat \ {0} /\ MaxDevice <= 68 /\ NumberOfLus <= MaxDevice
  BY <1>1
<1> HIDE DEF NumberOfLus
<1>3. \A u \in Luns : u \in Nat /\ u < MaxDevice
  BY <1>2 DEF Luns
<1>4. RpmbLun \notin Luns /\ SsuLun \notin Luns /\ NoUnit \notin Luns
  BY <1>2 DEF Luns, RpmbLun, SsuLun, NoUnit
<1>5. RpmbDev \in Containers /\ SsuDev \in Containers
  BY <1>2 DEF RpmbDev, SsuDev, Containers
<1> QED BY <1>2, <1>3, <1>4, <1>5 DEF RpmbLun, SsuLun, NoUnit

(* The container of the turn is for its unit, and lies behind those that    *)
(* are in use.                                                              *)
Turned ==
  Scanning =>
    /\ lun[sdev] = unit
    /\ unit \in Luns => sdev <= unit
    /\ unit = RpmbLun => sdev = RpmbDev
    /\ unit = SsuLun => sdev = SsuDev
    /\ \A b \in bdevs : b.private < sdev

(* What is known to have been executed.                                     *)
Truth ==
  ~lost =>
    /\ ~late
    /\ asks \in {"sense", "capacity"} => <<unit, "inquiry">> \in answered
    /\ asks = "capacity" => <<unit, "sense">> \in answered

ScanInv ==
  /\ ScanTypeOK /\ ContainersOwn /\ RegisteredTrue
  /\ asks = "idle" => bdevs = {} /\ unit = NoUnit
  /\ asks = "capacity" => unit \in Luns
  /\ Turned /\ Truth

Own(devs, l) ==
  \A b \in devs : l[b.private] = b.name /\ \A c \in devs : c.private = b.private => c = b

(* What a turn or the end of a scan leaves.                                 *)
Placed ==
  /\ unit \in Units /\ sdev \in Containers
  /\ lun \in [Containers -> Units \cup {NoUnit}]
  /\ asks \in {"inquiry", "done"}
  /\ ContainersOwn /\ Turned

LEMMA TurnStep ==
  ASSUME ScanTypeOK, bdevs' \subseteq BlockDevice, Own(bdevs', lun),
         NEW u \in Units, NEW c \in Containers, Turn(u, c),
         \A b \in bdevs' : b.private < c,
         u \in Luns => c <= u, u = RpmbLun => c = RpmbDev, u = SsuLun => c = SsuDev
  PROVE  Placed'
<1>1. /\ asks' = "inquiry" /\ unit' = u /\ sdev' = c
      /\ lun' = [lun EXCEPT ![c] = u] /\ lun \in [Containers -> Units \cup {NoUnit}]
  BY DEF Turn, ScanTypeOK
<1>2. lun' \in [Containers -> Units \cup {NoUnit}] /\ lun'[c] = u
  BY <1>1
<1>3. \A b \in bdevs' : b.private \in Containers /\ b.private # c
  BY DEF BlockDevice, Containers
<1>4. \A b \in bdevs' : lun'[b.private] = lun[b.private]
  BY <1>1, <1>3
<1>5. ContainersOwn'
  BY <1>4 DEF ContainersOwn, Own
<1>6. Turned'
  BY <1>1, <1>2 DEF Turned
<1> QED BY <1>1, <1>2, <1>5, <1>6 DEF Placed

(* The end of a scan: those of the logical units, of RPMB and of SSU follow *)
(* one another, with containers one behind the other.                       *)
LEMMA LeaveStep ==
  ASSUME ScanTypeOK, Turned, bdevs' \subseteq BlockDevice, Own(bdevs', lun), LeaveScan,
         \/ bdevs' = {} /\ unit = NoUnit
         \/ Scanning /\ \A b \in bdevs' : b.private <= sdev
  PROVE  Placed'
<1> USE UnitFacts
<1>0. RpmbLun \in Units /\ SsuLun \in Units
  BY DEF Units
<1>1. CASE unit \notin {RpmbLun, SsuLun} /\ Turn(RpmbLun, RpmbDev)
  <2>1. \A b \in bdevs' : b.private < RpmbDev
    <3> SUFFICES ASSUME NEW b \in bdevs' PROVE b.private < MaxDevice
      BY DEF RpmbDev
    <3>1. Scanning /\ b.private <= sdev /\ unit \in Luns /\ sdev <= unit
      BY <1>1 DEF ScanTypeOK, Units, Turned
    <3>2. b.private \in Nat /\ sdev \in Nat /\ unit \in Nat /\ unit < MaxDevice
      BY <3>1 DEF BlockDevice, Containers, ScanTypeOK
    <3> QED BY <3>1, <3>2
  <2> QED BY <1>0, <1>1, <2>1, TurnStep
<1>2. CASE unit = RpmbLun /\ Turn(SsuLun, SsuDev)
  <2>1. \A b \in bdevs' : b.private < SsuDev
    <3> SUFFICES ASSUME NEW b \in bdevs' PROVE b.private < MaxDevice + 1
      BY DEF SsuDev
    <3>1. b.private <= MaxDevice
      BY <1>2 DEF ScanTypeOK, Turned, RpmbDev
    <3>2. b.private \in Nat
      BY DEF BlockDevice, Containers
    <3> QED BY <3>1, <3>2
  <2> QED BY <1>0, <1>2, <2>1, TurnStep
<1>3. CASE unit = SsuLun /\ asks' = "done" /\ UNCHANGED <<unit, sdev, lun>>
  BY <1>0, <1>3 DEF Placed, ScanTypeOK, ContainersOwn, Own, Turned, Scanning
<1> QED BY <1>1, <1>2, <1>3 DEF LeaveScan

(* The next turn of the scan of the logical units.                          *)
LEMMA NextStep ==
  ASSUME ScanTypeOK, Turned, bdevs' \subseteq BlockDevice, Own(bdevs', lun), Scanning,
         NEW c \in {sdev, sdev + 1}, NextTurn(c), unit \in Luns \/ bdevs' = bdevs,
         \A b \in bdevs' : b.private < c
  PROVE  Placed'
<1> USE UnitFacts
<1>1. CASE unit + 1 \in Luns
  <2>1. unit \in Luns /\ unit \in Nat /\ unit + 1 < MaxDevice /\ unit + 1 \in Nat
    <3>1. unit # RpmbLun /\ unit # SsuLun /\ unit \in Units
      <4>1. unit + 1 < MaxDevice /\ MaxDevice <= RpmbLun
        BY <1>1, ScanAssumption DEF RpmbLun
      <4> QED BY <4>1 DEF RpmbLun, SsuLun, ScanTypeOK
    <3> QED BY <1>1, <3>1 DEF Units
  <2>2. sdev \in Nat /\ sdev <= unit
    BY <2>1 DEF Turned, ScanTypeOK, Containers
  <2>3. c \in Containers /\ c <= unit + 1
    BY <2>1, <2>2 DEF Containers
  <2>4. Turn(unit + 1, c) /\ unit + 1 \in Units
    BY <1>1 DEF NextTurn, Units
  <2> QED BY <1>1, <2>3, <2>4, TurnStep
<1>2. CASE unit + 1 \notin Luns
  <2>1. LeaveScan
    BY <1>2 DEF NextTurn
  <2>2. \A b \in bdevs' : b.private <= sdev
    <3> SUFFICES ASSUME NEW b \in bdevs' PROVE b.private <= sdev
      OBVIOUS
    <3>1. b.private \in Nat /\ sdev \in Nat /\ b.private < c
      BY DEF BlockDevice, Containers, ScanTypeOK
    <3> QED BY <3>1
  <2> QED BY <2>1, <2>2, LeaveStep
<1> QED BY <1>1, <1>2

(* What a command may do.                                                   *)
Kept ==
  /\ gbuf' \in Data /\ late' \in BOOLEAN /\ lost' \in BOOLEAN
  /\ answered \subseteq answered'
  /\ answered' \subseteq Units \X {"inquiry", "sense", "capacity"}
  /\ lost => lost'
  /\ ~lost' => ~late'

LEMMA ReportedEffect ==
  ASSUME ScanTypeOK, Truth, Scanning, NEW what \in {"inquiry", "sense", "capacity"},
         Reported(what)
  PROVE  /\ Kept
         /\ ~lost' => /\ <<unit, what>> \in answered'
                      /\ gbuf' = [of |-> unit, what |-> what]
<1>1. unit \in Units
  BY DEF ScanTypeOK
<1>2. CASE Executed(what)
  <2>1. gbuf' = [of |-> unit, what |-> what] /\ gbuf' \in Data
    BY <1>1, <1>2 DEF Executed, Data
  <2>2. /\ answered' = IF lost THEN answered ELSE answered \cup {<<unit, what>>}
        /\ late' = FALSE /\ lost' = lost
    BY <1>2 DEF Executed
  <2>3. answered' \subseteq Units \X {"inquiry", "sense", "capacity"}
    BY <1>1, <2>2 DEF ScanTypeOK
  <2>4. lost \in BOOLEAN
    BY DEF ScanTypeOK
  <2> QED BY <2>1, <2>2, <2>3, <2>4 DEF Kept
<1>3. CASE Mistaken
  BY <1>3 DEF Mistaken, Kept, ScanTypeOK, Truth
<1>4. CASE Unseen /\ UNCHANGED <<gbuf, answered>>
  BY <1>4 DEF Unseen, Kept, ScanTypeOK, Truth
<1> QED BY <1>2, <1>3, <1>4 DEF Reported

LEMMA FailedEffect ==
  ASSUME ScanTypeOK, Truth, Failed
  PROVE  Kept
BY DEF Failed, Kept, ScanTypeOK, Truth

LEMMA RegisterEffect ==
  ASSUME ScanTypeOK, ContainersOwn, Turned, Scanning, NEW size \in Data, Register(size)
  PROVE  /\ bdevs' \subseteq BlockDevice /\ Own(bdevs', lun)
         /\ \A b \in bdevs' : b.private <= sdev /\ b.private < sdev + 1
<1> DEFINE d == [name |-> unit, private |-> sdev, size |-> size]
<1>1. d \in BlockDevice /\ lun[sdev] = unit /\ bdevs' = bdevs \cup {d}
  BY DEF BlockDevice, ScanTypeOK, Turned, Register
<1>2. \A b \in bdevs : b.private < sdev /\ b.private \in Nat /\ sdev \in Nat
  BY DEF Turned, BlockDevice, Containers, ScanTypeOK
<1>3. d.private = sdev /\ d.name = unit /\ sdev \in Nat
  BY DEF ScanTypeOK, Containers
<1> HIDE DEF d
<1>4. bdevs' \subseteq BlockDevice
  BY <1>1 DEF ScanTypeOK
<1>5. \A b \in bdevs : b.private # sdev
  BY <1>2
<1>6. Own(bdevs', lun)
  BY <1>1, <1>3, <1>5 DEF Own, ContainersOwn
<1>7. \A b \in bdevs' : b.private <= sdev /\ b.private < sdev + 1
  BY <1>1, <1>2, <1>3
<1> QED BY <1>4, <1>6, <1>7

(* A device is registered after all that its unit was asked.                *)
LEMMA RegisteredStep ==
  ASSUME ScanTypeOK, RegisteredTrue, Kept, NEW size, Register(size),
         ~lost' => <<unit, "inquiry">> \in answered' /\ <<unit, "sense">> \in answered',
         ~lost' /\ unit \in Luns => size = [of |-> unit, what |-> "capacity"]
  PROVE  RegisteredTrue'
<1> SUFFICES ASSUME ~lost', NEW b \in bdevs'
             PROVE  /\ <<b.name, "inquiry">> \in answered' /\ <<b.name, "sense">> \in answered'
                    /\ b.name \in Luns => b.size = [of |-> b.name, what |-> "capacity"]
  BY DEF RegisteredTrue
<1>1. ~lost /\ answered \subseteq answered'
  BY DEF Kept
<1>2. CASE b \in bdevs
  BY <1>1, <1>2 DEF RegisteredTrue
<1>3. CASE b = [name |-> unit, private |-> sdev, size |-> size]
  <2>1. b.name = unit /\ b.size = size
    BY <1>3
  <2> QED BY <2>1
<1> QED BY <1>2, <1>3 DEF Register

(* A turn or the end of a scan, after a command.                            *)
LEMMA PlacedStep ==
  ASSUME ScanInv, Kept, Placed', bdevs' \subseteq BlockDevice, RegisteredTrue'
  PROVE  ScanInv'
<1>1. ScanTypeOK'
  BY DEF Placed, Kept, ScanTypeOK
<1>2. Truth'
  BY DEF Placed, Kept, Truth
<1> QED BY <1>1, <1>2 DEF Placed, ScanInv

LEMMA ScanStep ==
  ASSUME ScanInv, ScanNext PROVE ScanInv'
<1> USE UnitFacts
<1> USE DEF bus
<1>0. ScanTypeOK /\ ContainersOwn /\ RegisteredTrue /\ Turned /\ Truth /\ Own(bdevs, lun)
      /\ bdevs \subseteq BlockDevice
  BY DEF ScanInv, ScanTypeOK, ContainersOwn, Own
<1>r. ASSUME Kept, bdevs' = bdevs PROVE RegisteredTrue'
  BY <1>0, <1>r DEF RegisteredTrue, Kept
<1>1. CASE StartScan
  <2>1. bdevs = {} /\ unit = NoUnit /\ bdevs' = {} /\ UNCHANGED <<gbuf, late, lost, answered>>
    BY <1>1 DEF StartScan, ScanInv
  <2>2. Kept
    BY <1>0, <2>1 DEF Kept, ScanTypeOK, Truth
  <2>3. Own(bdevs', lun) /\ bdevs' \subseteq BlockDevice
    BY <2>1 DEF Own
  <2>4. Placed'
    <3>1. CASE 0 \in Luns
      <4>1. Turn(0, 0) /\ 0 \in Units /\ 0 \in Containers
        BY <1>1, <3>1 DEF StartScan, Units, Containers
      <4> QED BY <1>0, <2>1, <2>3, <3>1, <4>1, TurnStep
    <3>2. CASE 0 \notin Luns
      BY <1>0, <1>1, <2>1, <2>3, <3>2, LeaveStep DEF StartScan
    <3> QED BY <3>1, <3>2
  <2> QED BY <1>r, <2>1, <2>2, <2>3, <2>4, PlacedStep
<1>2. CASE Found
  <2>1. Scanning /\ asks' = "sense" /\ UNCHANGED <<unit, sdev, lun, bdevs>> /\ Reported("inquiry")
    BY <1>2 DEF Found, Scanning
  <2>2. Kept /\ (~lost' => <<unit, "inquiry">> \in answered')
    BY <1>0, <2>1, ReportedEffect
  <2>3. ScanTypeOK'
    BY <1>0, <2>1, <2>2 DEF ScanTypeOK, Kept, Scanning
  <2>4. Turned' /\ ContainersOwn'
    BY <1>0, <2>1 DEF Turned, ContainersOwn, Scanning
  <2>5. Truth'
    BY <2>1, <2>2 DEF Truth, Kept
  <2> QED BY <1>r, <2>1, <2>2, <2>3, <2>4, <2>5 DEF ScanInv
<1>3. CASE NotFound
  <2>1. Scanning /\ Failed /\ NextTurn(sdev) /\ bdevs' = bdevs
    BY <1>3 DEF NotFound, Scanning
  <2>2. Kept
    BY <1>0, <2>1, FailedEffect
  <2>3. Placed'
    <3>1. \A b \in bdevs' : b.private < sdev
      BY <1>0, <2>1 DEF Turned
    <3> QED BY <1>0, <2>1, <3>1, NextStep
  <2> QED BY <1>0, <1>r, <2>1, <2>2, <2>3, PlacedStep
<1>4. CASE Attention
  <2>1. Scanning /\ Reported("sense")
    BY <1>4 DEF Attention, Scanning
  <2>2. Kept /\ (~lost' => <<unit, "sense">> \in answered')
    BY <1>0, <2>1, ReportedEffect
  <2>3. ~lost' => <<unit, "inquiry">> \in answered'
    BY <1>0, <1>4, <2>2 DEF Attention, Truth, Kept
  <2>4. CASE unit \in Luns
    <3>1. asks' = "capacity" /\ UNCHANGED <<unit, sdev, lun, bdevs>>
      BY <1>4, <2>4 DEF Attention
    <3>2. ScanTypeOK'
      BY <1>0, <2>1, <2>2, <3>1 DEF ScanTypeOK, Kept, Scanning
    <3>3. Turned' /\ ContainersOwn'
      BY <1>0, <2>1, <3>1 DEF Turned, ContainersOwn, Scanning
    <3>4. Truth'
      BY <2>2, <2>3, <3>1 DEF Truth, Kept
    <3> QED BY <1>r, <2>2, <2>4, <3>1, <3>2, <3>3, <3>4 DEF ScanInv
  <2>5. CASE unit \notin Luns
    <3>1. Register(NoData) /\ LeaveScan
      BY <1>4, <2>5 DEF Attention
    <3>2. NoData \in Data
      BY DEF NoData, Data
    <3>3. bdevs' \subseteq BlockDevice /\ Own(bdevs', lun) /\ \A b \in bdevs' : b.private <= sdev
      BY <1>0, <2>1, <3>1, <3>2, RegisterEffect
    <3>4. Placed'
      BY <1>0, <2>1, <3>1, <3>3, LeaveStep
    <3>5. RegisteredTrue'
      BY <1>0, <2>2, <2>3, <2>5, <3>1, RegisteredStep
    <3> QED BY <2>2, <3>3, <3>4, <3>5, PlacedStep
  <2> QED BY <2>4, <2>5
<1>5. CASE Sized
  <2>1. Scanning /\ Reported("capacity") /\ Register(gbuf') /\ NextTurn(sdev + 1)
        /\ unit \in Luns /\ asks = "capacity"
    BY <1>5 DEF Sized, Scanning, ScanInv
  <2>2. Kept /\ (~lost' => gbuf' = [of |-> unit, what |-> "capacity"])
    BY <1>0, <2>1, ReportedEffect
  <2>3. bdevs' \subseteq BlockDevice /\ Own(bdevs', lun) /\ \A b \in bdevs' : b.private < sdev + 1
    <3>1. gbuf' \in Data
      BY <2>2 DEF Kept
    <3> HIDE DEF Register
    <3> QED BY <1>0, <2>1, <3>1, RegisterEffect
  <2>4. Placed'
    BY <1>0, <2>1, <2>3, NextStep
  <2>5. ~lost' => <<unit, "inquiry">> \in answered' /\ <<unit, "sense">> \in answered'
    BY <1>0, <2>1, <2>2 DEF Truth, Kept
  <2>6. RegisteredTrue'
    BY <1>0, <2>1, <2>2, <2>5, RegisteredStep DEF Kept
  <2> QED BY <2>2, <2>3, <2>4, <2>6, PlacedStep
<1>6. CASE BreakOff
  <2>1. Scanning /\ Failed /\ LeaveScan /\ bdevs' = bdevs
    BY <1>6 DEF BreakOff, Scanning
  <2>2. Kept
    BY <1>0, <2>1, FailedEffect
  <2>3. Placed'
    <3>1. \A b \in bdevs' : b.private <= sdev
      BY <1>0, <2>1 DEF Turned, BlockDevice, Containers, ScanTypeOK
    <3> QED BY <1>0, <2>1, <3>1, LeaveStep
  <2> QED BY <1>0, <1>r, <2>1, <2>2, <2>3, PlacedStep
<1> QED BY <1>1, <1>2, <1>3, <1>4, <1>5, <1>6 DEF ScanNext

LEMMA RemovalStep ==
  ASSUME ScanInv, Removal PROVE ScanInv'
<1>1. /\ asks' \in {"removing", "removed"} /\ bdevs' \subseteq bdevs
      /\ UNCHANGED <<unit, sdev, lun, gbuf, late, lost, answered>>
  BY DEF Removal, StartRemoval, RemoveDevice, EndRemoval, bus
<1>2. ScanTypeOK'
  BY <1>1 DEF ScanInv, ScanTypeOK, Scanning
<1>3. ContainersOwn' /\ RegisteredTrue'
  BY <1>1 DEF ScanInv, ContainersOwn, RegisteredTrue
<1>4. Turned' /\ Truth'
  BY <1>1 DEF ScanInv, Turned, Truth, Scanning
<1> QED BY <1>1, <1>2, <1>3, <1>4 DEF ScanInv

LEMMA ScanInitial == Init => ScanInv
<1> SUFFICES ASSUME Init PROVE ScanInv
  OBVIOUS
<1>1. /\ asks = "idle" /\ unit = NoUnit /\ sdev = 0 /\ gbuf = NoData /\ bdevs = {}
      /\ lun = [c \in Containers |-> NoUnit] /\ answered = {} /\ late = FALSE /\ lost = FALSE
  BY DEF Init, ScanInit
<1>2. gbuf \in Data /\ sdev \in Containers /\ lun \in [Containers -> Units \cup {NoUnit}]
  BY <1>1, UnitFacts DEF NoData, Data, Containers
<1>3. ScanTypeOK
  BY <1>1, <1>2 DEF ScanTypeOK, Scanning
<1> QED
  BY <1>1, <1>3, UnitFacts DEF ScanInv, ContainersOwn, RegisteredTrue, Turned, Truth, Scanning

(* Units are not looked for before the link is up.                          *)
Ordered == pc \notin {"scan", "out"} => asks = "idle"

BusKept == late' \in BOOLEAN /\ lost' \in BOOLEAN /\ (late' => lost')

(* What happens before and after the enumeration leaves its state alone.    *)
LEMMA BusStep ==
  ASSUME ScanInv, UNCHANGED scan, BusKept, asks = "idle" \/ (lost => lost')
  PROVE  ScanInv'
<1> USE DEF scan
<1>1. ScanTypeOK'
  BY DEF ScanInv, ScanTypeOK, BusKept, Scanning
<1>2. CASE asks = "idle"
  BY <1>1, <1>2 DEF ScanInv, ContainersOwn, RegisteredTrue, Turned, Truth, Scanning, BusKept
<1>3. CASE lost => lost'
  BY <1>1, <1>3 DEF ScanInv, ContainersOwn, RegisteredTrue, Turned, Truth, Scanning, BusKept
<1> QED BY <1>2, <1>3

LEMMA EnumerationStep ==
  ASSUME StartInv, ScanInv, Ordered, [Next]_vars PROVE ScanInv' /\ Ordered'
<1>0. pc = "out" <=> result # "none"
  BY DEF StartInv, Course
<1>1. CASE Enumerate
  <2>1. ScanNext /\ pc = "scan" /\ pc' = pc
    BY <1>1 DEF Enumerate, driver
  <2> QED BY <2>1, ScanStep DEF Ordered
<1>2. CASE Provisioned
  <2>1. Removal /\ pc = "out" /\ pc' = pc
    BY <1>2 DEF Provisioned, driver
  <2> QED BY <2>1, RemovalStep DEF Ordered
<1>3. CASE Next /\ ~Enumerate /\ ~Provisioned
  <2>1. UNCHANGED scan
    BY <1>3 DEF Next, Driver, Device, InitHost, SoftReset, Steps, Step, LinkStartup, NopOut,
                SetDeviceInit, ReadDeviceInit, CheckLanes, SetAttribute, ListFailed, LanesSet,
                PreGearChange, PowerSet, PowerModeChange, ReadBootLunEn, ReadUnitDescs, EndScan,
                ResetDone, HostEnabled, DeviceReady
  <2>2. BusKept /\ (pc = "reset" \/ (lost => lost'))
    <3>1. (late \in BOOLEAN /\ lost \in BOOLEAN) /\ (late => lost)
      BY DEF ScanInv, ScanTypeOK, Truth
    <3>2. CASE UNCHANGED bus
      BY <3>1, <3>2 DEF bus, BusKept
    <3>3. CASE Answered \/ GivenUp \/ Silent \/ Unseen
      BY <3>1, <3>3 DEF Answered, GivenUp, Silent, Unseen, BusKept
    <3>4. CASE SoftReset
      BY <3>4 DEF SoftReset, BusKept
    <3> QED
      BY <1>3, <3>2, <3>3, <3>4 DEF Next, Driver, Device, InitHost, Steps, Step, LinkStartup,
                NopOut, SetDeviceInit, ReadDeviceInit, CheckLanes, SetAttribute, ListFailed,
                LanesSet, PreGearChange, PowerSet, PowerModeChange, ReadBootLunEn,
                ReadUnitDescs, EndScan, ResetDone, HostEnabled, DeviceReady
  <2>3. pc \in {"scan", "out"} => pc' \in {"scan", "out"}
    BY <1>3 DEF Next, Driver, Device, InitHost, SoftReset, Steps, Step, LinkStartup, NopOut,
                SetDeviceInit, ReadDeviceInit, CheckLanes, SetAttribute, ListFailed, LanesSet,
                PreGearChange, PowerSet, PowerModeChange, ReadBootLunEn, ReadUnitDescs, EndScan,
                ResetDone, HostEnabled, DeviceReady, ReturnWith, driver
  <2> QED BY <2>1, <2>2, <2>3, BusStep DEF Ordered, scan
<1>4. CASE UNCHANGED vars
  BY <1>4, BusStep DEF vars, driver, scan, bus, Ordered, BusKept, ScanInv, ScanTypeOK, Truth
<1> QED BY <1>1, <1>2, <1>3, <1>4

(* For every number of attempts and units the variables of ufs_init and of  *)
(* the enumeration keep their types; attempts are counted up to MaxAttempts *)
(* and not further (ufs_init).                                              *)
THEOREM StartupTypeCorrect == Spec => []TypeOK
<1>1. Init => Ordered
  BY DEF Init, ScanInit, Ordered
<1>2. StartInv /\ ScanInv => TypeOK
  BY DEF StartInv, ScanInv, TypeOK
<1> QED BY StartInit, StartStep, ScanInitial, EnumerationStep, <1>1, <1>2, PTL DEF Spec

(* For every set of units, and whichever of them do not answer, no two      *)
(* block devices share a container of ufs_dev, and each addresses the unit  *)
(* it is named after (scsi_scan, scsi_scan_ssu).                            *)
THEOREM ContainersNotShared == Spec => []ContainersOwn
<1>1. Init => Ordered
  BY DEF Init, ScanInit, Ordered
<1>2. ScanInv => ContainersOwn
  BY DEF ScanInv
<1> QED BY StartInit, StartStep, ScanInitial, EnumerationStep, <1>1, <1>2, PTL DEF Spec

(* For every set of units, a registered block device is a unit that         *)
(* executed INQUIRY and REQUEST SENSE, with the capacity it reported itself *)
(* (scsi_scan), unless a command was given up or failed unseen.             *)
THEOREM RegisteredAsFound == Spec => []RegisteredTrue
<1>1. Init => Ordered
  BY DEF Init, ScanInit, Ordered
<1>2. ScanInv => RegisteredTrue
  BY DEF ScanInv
<1> QED BY StartInit, StartStep, ScanInitial, EnumerationStep, <1>1, <1>2, PTL DEF Spec

-------------------------------------------------------------------------------
(* The abstract specification                                              *)

(* Within an attempt.                                                       *)
Trying == Labels \ {"host", "reset", "boot_lun", "unit_descs", "scan", "out"}

BringStutter == UNCHANGED <<attempts, LinkState>>

LEMMA FailMapped ==
  ASSUME StartInv, pc \in Trying, FailAttempt
  PROVE  BringUp!Next
<1>1. /\ result = "none"
      /\ \/ pc' = "reset" /\ result' = "none" /\ attempts' < MaxAttempts
         \/ pc' = "out" /\ result' = "fail" /\ attempts' = MaxAttempts
      /\ attempts' = attempts + 1 /\ MaxAttempts \in Nat
  BY FailEffect, StartupAssumption DEF StartInv, Course, Trying
<1>2. LinkState = "trying"
  BY <1>1 DEF LinkState, Connected, Trying
<1>3. LinkState' = IF attempts' < MaxAttempts THEN "off" ELSE "given_up"
  BY <1>1 DEF LinkState, Connected
<1> QED BY <1>1, <1>2, <1>3 DEF BringUp!Next, BringUp!Fail

LEMMA GoMapped ==
  ASSUME StartInv, pc \in Trying, NEW next \in Trying, Goto(next)
  PROVE  BringStutter
<1>1. result = "none" /\ pc' = next /\ UNCHANGED <<attempts, result>>
  BY DEF StartInv, Course, Trying, Goto
<1> QED BY <1>1 DEF LinkState, Connected, Trying, BringStutter

(* The link that is used stays as it is, also when nothing comes of it.     *)
LEMMA UpMapped ==
  ASSUME StartInv, pc \in {"boot_lun", "unit_descs", "scan"}, UNCHANGED linkUp,
         \/ ReturnWith("fail") \/ ReturnWith("ok")
         \/ Goto("unit_descs") \/ Goto("scan")
  PROVE  BringStutter
<1>1. linkUp /\ attempts < MaxAttempts
  BY DEF StartInv, Course, Progress, Past, AfterPower, AfterList, AfterLanes, AfterInit,
         AfterLink
<1>2. /\ pc' \in {"boot_lun", "unit_descs", "scan", "out"} /\ attempts' = attempts
      /\ linkUp'
  BY <1>1 DEF ReturnWith, Goto
<1>3. LinkState = "up" /\ LinkState' = "up"
  BY <1>1, <1>2 DEF LinkState, Connected
<1> QED BY <1>2, <1>3 DEF BringStutter

LEMMA SameMapped ==
  ASSUME UNCHANGED <<pc, attempts, result, linkUp>>
  PROVE  BringStutter
  BY DEF BringStutter, LinkState, Connected

Mapped == BringUp!Next \/ BringStutter

LEMMA BringUpStep ==
  ASSUME StartInv, [Next]_vars
  PROVE  Mapped
<1> USE DEF link, driver
<1>a. ASSUME pc \in Trying, FailAttempt \/ \E next \in Trying : Goto(next) PROVE Mapped
  BY <1>a, FailMapped, GoMapped DEF Mapped
<1>1. CASE InitHost
  <2>0. pc = "host" /\ result = "none" /\ attempts = 0 /\ ~linkUp /\ ~linkUp'
    BY <1>1 DEF InitHost, StartInv, Course
  <2>1. CASE Goto("reset")
    <3>1. pc' = "reset" /\ attempts' = attempts
      BY <2>1 DEF Goto
    <3>2. LinkState = "off" /\ LinkState' = "off"
      BY <2>0, <3>1 DEF LinkState
    <3> QED BY <3>1, <3>2 DEF Mapped, BringStutter
  <2>2. CASE ReturnWith("fail")
    <3>1. pc' = "out" /\ result' = "fail" /\ attempts' = attempts
      BY <2>2 DEF ReturnWith
    <3>2. LinkState = "off" /\ LinkState' = "given_up"
      BY <2>0, <3>1 DEF LinkState, Connected
    <3> QED BY <2>0, <3>1, <3>2 DEF Mapped, BringUp!Next, BringUp!NoHost
  <2> QED BY <1>1, <2>1, <2>2 DEF InitHost
<1>2. CASE SoftReset
  <2>1. /\ pc = "reset" /\ pc' = "swrst" /\ result' = result /\ result = "none"
        /\ attempts' = attempts /\ attempts < MaxAttempts
    BY <1>2 DEF SoftReset, Goto, StartInv, Course
  <2>2. LinkState = "off" /\ LinkState' = "trying"
    BY <2>1 DEF LinkState, Connected
  <2> QED BY <2>1, <2>2 DEF Mapped, BringUp!Next, BringUp!Attempt
<1>3. CASE Steps
  <2>1. CASE Step("post_gear", "boot_lun")
    <3>1. CASE FailAttempt
      BY <1>a, <2>1, <3>1 DEF Step, Trying, Labels
    <3>2. CASE Goto("boot_lun")
      <4>1. pc = "post_gear" /\ pc' = "boot_lun" /\ result = "none" /\ attempts' = attempts
        BY <2>1, <3>2 DEF Step, Goto, StartInv, Course
      <4>2. LinkState = "trying" /\ LinkState' = "up"
        BY <4>1 DEF LinkState, Connected
      <4> QED BY <4>1, <4>2 DEF Mapped, BringUp!Next, BringUp!Succeed
    <3> QED BY <2>1, <3>1, <3>2 DEF Step
  <2>2. CASE ~Step("post_gear", "boot_lun")
    BY <1>3, <1>a, <2>2 DEF Steps, Step, Trying, Labels
  <2> QED BY <2>1, <2>2
<1>4. CASE LinkStartup
  BY <1>4, <1>a DEF LinkStartup, Trying, Labels
<1>5. CASE NopOut
  BY <1>5, <1>a DEF NopOut, Trying, Labels
<1>6. CASE SetDeviceInit
  BY <1>6, <1>a DEF SetDeviceInit, Trying, Labels
<1>7. CASE ReadDeviceInit
  <2>1. FailAttempt \/ Goto("read_init") \/ Goto("check_lanes")
    BY <1>7 DEF ReadDeviceInit, PollNext
  <2> QED BY <1>7, <1>a, <2>1 DEF ReadDeviceInit, Trying, Labels
<1>8. CASE CheckLanes
  BY <1>8, <1>a DEF CheckLanes, Trying, Labels
<1>9. CASE SetAttribute
  BY <1>9, SameMapped DEF SetAttribute, Mapped
<1>10. CASE ListFailed
  BY <1>10, <1>a DEF ListFailed, Trying, Labels
<1>11. CASE LanesSet
  BY <1>11, <1>a DEF LanesSet, Trying, Labels
<1>12. CASE PreGearChange
  BY <1>12, <1>a DEF PreGearChange, Trying, Labels
<1>13. CASE PowerSet
  BY <1>13, <1>a DEF PowerSet, Trying, Labels
<1>14. CASE PowerModeChange
  BY <1>14, <1>a DEF PowerModeChange, Trying, Labels
<1>15. CASE ReadBootLunEn
  BY <1>15, UpMapped DEF ReadBootLunEn, Mapped
<1>16. CASE ReadUnitDescs
  BY <1>16, UpMapped DEF ReadUnitDescs, Mapped
<1>17. CASE Enumerate
  BY <1>17, SameMapped DEF Enumerate, Mapped
<1>18. CASE EndScan
  BY <1>18, UpMapped DEF EndScan, Mapped
<1>19. CASE Provisioned
  BY <1>19, SameMapped DEF Provisioned, Mapped
<1>20. CASE ResetDone
  <2>1. Goto("dme_reset") \/ Goto("hce")
    BY <1>20 DEF ResetDone
  <2> QED BY <1>20, <1>a, <2>1 DEF ResetDone, Trying, Labels
<1>21. CASE HostEnabled
  BY <1>21, <1>a DEF HostEnabled, Trying, Labels
<1>22. CASE DeviceReady
  BY <1>22, SameMapped DEF DeviceReady, Mapped
<1>23. CASE UNCHANGED vars
  BY <1>23, SameMapped DEF vars, Mapped
<1> QED
  BY <1>1, <1>2, <1>3, <1>4, <1>5, <1>6, <1>7, <1>8, <1>9, <1>10, <1>11, <1>12, <1>13,
     <1>14, <1>15, <1>16, <1>17, <1>18, <1>19, <1>20, <1>21, <1>22, <1>23
  DEF Next, Driver, Device

(* For every number of attempts: bringing up the link as ufs_init does is   *)
(* trying it at most MaxAttempts times and using it once it is up.          *)
THEOREM BringsUpLink == Spec => ImplementsBringUp
<1>1. Init => BringUp!Init
  BY DEF Init, BringUp!Init, LinkState
<1>2. StartInv /\ [Next]_vars => [BringUp!Next]_<<attempts, LinkState>>
  BY BringUpStep DEF Mapped, BringStutter
<1> QED BY StartInit, StartStep, <1>1, <1>2, PTL DEF Spec, ImplementsBringUp, BringUp!Spec

=================================================================================
