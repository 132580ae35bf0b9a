------------------------------- MODULE UfsStartup -------------------------------
(***************************************************************************)
(* ufs_init of ufs.c: the host is set up, the link to the device is        *)
(* started with up to three attempts, the boot unit is looked for, and the *)
(* units are enumerated (ScsiScan).                                        *)
(*                                                                         *)
(* An attempt is the row of steps of ufs_init_interface.  Any of them may  *)
(* fail, which throws the attempt away; the next one begins by resetting   *)
(* controller and device, but what the driver itself remembers is not      *)
(* reset.                                                                  *)
(*                                                                         *)
(* A UIC command ends well, or with an error or a time-out, which are the  *)
(* same to the caller (send_uic_cmd); in a list it goes on all the same,   *)
(* and the completion of the command it gave up may end the wait of the    *)
(* next one.  Of a query the caller cannot tell whether it was answered:   *)
(* one that is given up, or whose failure the driver does not see, counts  *)
(* as successful, and a flag or attribute reads as zero then               *)
(* (UfsTransport: "mute" and "masked").  The calibration code              *)
(* (ufs_cal_init and others) is not in the repository; a call of it        *)
(* succeeds or fails.                                                      *)
(*                                                                         *)
(* A definition marked "mutant" is a faulty variant of the one that        *)
(* follows it; no specification uses it.                                   *)
(***************************************************************************)
EXTENDS ScsiScan, Sequences

CONSTANTS
  MaxAttempts,  \* attempts of the do loop of ufs_init
  InitPolls,    \* polls of fDeviceInit in ufs_end_boot_mode
  BoardQuirks,  \* quirks that ufs_board_init sets
  LaneCounts,   \* <<tx, rx>>: lanes a link may have
  BootLuns,     \* values of bBootLunEn a device may have
  LaneList,     \* the UIC commands of ufs_check_2lane,
  PowerList     \* and of ufs_pmc_common, by the settings they make

ASSUME StartupAssumption ==
  /\ MaxAttempts \in Nat \ {0} /\ InitPolls \in Nat \ {0}
  /\ BoardQuirks \subseteq {"broken_hce"}
  /\ LaneCounts \subseteq (0 .. 2) \X (0 .. 2) /\ LaneCounts # {}
  /\ BootLuns \subseteq 0 .. 2
  /\ \A l \in {LaneList, PowerList} : l \in Seq(STRING) /\ Len(l) > 0
  /\ LaneList # PowerList

VARIABLES
  (* The driver *)
  pc,
  attempts,   \* rst_cnt
  result,     \* what ufs_init returned
  quirks,     \* ufs->quirks
  lane,       \* ufs->pmd_cxt.lane
  flag,       \* flags.arry[UPIU_FLAG_ID_DEVICEINIT]
  polls,      \* retry of ufs_end_boot_mode
  list, cmd,  \* list of UIC commands, and position in it
  res,        \* result of the last command of the list
  (* Link and device *)
  linkUp, lanes, fast,
  devInit,    \* initialisation of the device: "not", "running", "finished"
  bootLunEn,
  uicLate,    \* was a UIC command of a list of this attempt given up, so that
              \* its completion may still come?
  (* History *)
  refused     \* settings of this attempt the link did not take

driver == <<pc, attempts, result, quirks, lane, flag, polls, list, cmd, res>>
link   == <<linkUp, lanes, fast, devInit, bootLunEn, uicLate>>
vars   == <<driver, link, refused, scan, bus>>

Init ==
  /\ pc = "host" /\ attempts = 0 /\ result = "none"
  /\ quirks = {} /\ lane = 0 /\ flag = FALSE /\ polls = 0
  /\ list = <<>> /\ cmd = 1 /\ res = "ok"
  /\ linkUp = FALSE /\ lanes \in LaneCounts /\ fast = FALSE /\ devInit = "not"
  /\ bootLunEn \in BootLuns /\ uicLate = FALSE
  /\ refused = {}
  /\ late = FALSE /\ lost = FALSE
  /\ ScanInit

-------------------------------------------------------------------------------
(* Going on and giving up                                                  *)

Goto(l) == pc' = l /\ UNCHANGED <<attempts, result>>

\* ufs_init returns.
ReturnWith(r) == pc' = "out" /\ result' = r /\ UNCHANGED attempts

RetryOnceMore ==                                                  \* mutant
  IF attempts' <= MaxAttempts
  THEN pc' = "reset" /\ UNCHANGED result
  ELSE pc' = "out" /\ result' = "fail"

Retry ==
  IF attempts' < MaxAttempts
  THEN pc' = "reset" /\ UNCHANGED result
  ELSE pc' = "out" /\ result' = "fail"

\* ufs_init_interface fails: the attempt counts, and is repeated unless there
\* were enough of them.
FailAttempt == attempts' = attempts + 1 /\ Retry

\* A command over the bus (UTP) while no data of it are looked at.
Answered == late' = FALSE /\ UNCHANGED lost
GivenUp  == late' = TRUE /\ lost' = TRUE

\* A query that was not answered for all the driver knows: it was given up, the
\* answer to an older request ended its wait, or its failure went unseen.
Silent == GivenUp \/ Unseen

Locals == <<quirks, lane, flag, polls, list, cmd, res>>

\* Locals of ufs_mphy_unipro_setting start from these values, and are gone when
\* it returns.
NoList == list' = <<>> /\ cmd' = 1 /\ res' = "ok"

\* A step that has no effect but to succeed and go on at next, or to fail.
Step(here, next) ==
  /\ pc = here
  /\ Goto(next) \/ FailAttempt
  /\ UNCHANGED <<Locals, link, refused, scan, bus>>

-------------------------------------------------------------------------------
(* The host, and the beginning of an attempt                               *)

\* ufs_init_host, with the quirks of the board.
InitHost ==
  /\ pc = "host"
  /\ \/ Goto("reset") /\ quirks' = BoardQuirks
     \/ ReturnWith("fail") /\ UNCHANGED quirks
  /\ UNCHANGED <<lane, flag, polls, list, cmd, res, link, refused, scan, bus>>

\* ufs_pre_setup resets the controller, which takes back what was given up, and
\* the device; it then waits for the controller without a bound.
SoftReset ==
  /\ pc = "reset"
  /\ Goto("swrst")
  /\ linkUp' = FALSE /\ fast' = FALSE /\ devInit' = "not" /\ refused' = {}
  /\ uicLate' = FALSE
  /\ late' = FALSE /\ lost' = FALSE
  /\ UNCHANGED <<Locals, lanes, bootLunEn, scan>>

\* The controller has reset itself; a broken one is enabled by UIC commands.
ResetDone ==
  /\ pc = "swrst"
  /\ Goto(IF "broken_hce" \in quirks THEN "dme_reset" ELSE "hce")
  /\ UNCHANGED <<Locals, link, refused, scan, bus>>

\* The enable bit reads as one: again a wait without a bound.
HostEnabled ==
  /\ pc = "hce"
  /\ Goto("get_lanes")
  /\ UNCHANGED <<Locals, link, refused, scan, bus>>

-------------------------------------------------------------------------------
(* Link start-up, NOP and fDeviceInit                                      *)

\* DME_LINK_STARTUP.  The lanes of the new link may differ from the last ones.
LinkStartup ==
  /\ pc = "link_startup"
  /\ \/ Goto("max_gear") /\ linkUp' = TRUE /\ lanes' \in LaneCounts
     \/ FailAttempt /\ UNCHANGED <<linkUp, lanes>>
  /\ UNCHANGED <<Locals, fast, devInit, bootLunEn, uicLate, refused, scan, bus>>

\* A NOP that is given up fails, unlike a query.
NopOut ==
  /\ pc = "nop"
  /\ \/ Answered /\ (Goto("set_init") \/ FailAttempt)
     \/ GivenUp /\ FailAttempt
     \/ Unseen /\ Goto("set_init")
  /\ UNCHANGED <<Locals, link, refused, scan>>

\* fDeviceInit is set: the device begins to initialise itself.  If the query was
\* not answered, it may or may not have.
SetDeviceInit ==
  /\ pc = "set_init"
  /\ \/ Answered /\ Goto("read_init") /\ devInit' = "running"
     \/ Silent /\ Goto("read_init") /\ devInit' \in {devInit, "running"}
     \/ Answered /\ FailAttempt /\ UNCHANGED devInit
  /\ flag' = TRUE /\ polls' = IF pc' = "read_init" THEN InitPolls ELSE 0
  /\ UNCHANGED <<quirks, lane, list, cmd, res, linkUp, lanes, fast, bootLunEn,
                 uicLate, refused, scan>>

PollRestarting(f, left) ==                                        \* mutant
  IF f THEN Goto("read_init") /\ polls' = IF left = 0 THEN InitPolls ELSE left
  ELSE Goto("check_lanes") /\ polls' = 0

\* The loop ends when the flag reads as zero or after the last poll.
PollNext(f, left) ==
  IF f /\ left > 0 THEN Goto("read_init") /\ polls' = left
  ELSE /\ IF f THEN FailAttempt ELSE Goto("check_lanes")
       /\ polls' = 0

ReadDeviceInit ==
  /\ pc = "read_init"
  /\ \/ Answered /\ flag' = (devInit = "running") /\ PollNext(flag', polls - 1)
     \/ Silent /\ flag' = FALSE /\ PollNext(flag', polls - 1)
     \/ Answered /\ FailAttempt /\ polls' = 0 /\ UNCHANGED flag
  /\ UNCHANGED <<quirks, lane, list, cmd, res, link, refused, scan>>

\* The device is ready.
DeviceReady ==
  /\ devInit = "running" /\ devInit' = "finished"
  /\ UNCHANGED <<driver, linkUp, lanes, fast, bootLunEn, uicLate, refused, scan, bus>>

-------------------------------------------------------------------------------
(* Lanes and power mode                                                    *)

\* ufs_check_2lane.  With any other lanes it says that it failed, and succeeds.
CheckLanes ==
  /\ pc = "check_lanes"
  /\ \/ FailAttempt /\ UNCHANGED <<lane, list, cmd, res>>
     \/ /\ lanes \in {<<1, 1>>, <<2, 2>>}
        /\ Goto("list") /\ list' = LaneList /\ cmd' = 1 /\ res' = "ok"
        /\ UNCHANGED lane
     \/ /\ lanes \notin {<<1, 1>>, <<2, 2>>}
        /\ Goto("pre_gear") /\ lane' = lanes[1]
        /\ UNCHANGED <<list, cmd, res>>
  /\ UNCHANGED <<quirks, flag, polls, link, refused, scan, bus>>

Taken(s)   == refused' = refused \ {s}
Refused(s) == refused' = refused \cup {s}

\* The command completes with its result.
Completes(s) ==
  /\ \/ res' = "ok" /\ Taken(s)
     \/ res' = "fail" /\ Refused(s)
  /\ UNCHANGED uicLate

\* The wait ends before the command does: after its time, with an error flagged,
\* or with the completion of a command given up before (handle_ufs_uic_int does
\* not tell them apart).  What becomes of the command the driver does not learn.
EndsEarly(s) ==
  /\ res' = "fail" \/ (uicLate /\ res' = "ok")
  /\ Taken(s) \/ Refused(s)
  /\ uicLate' = TRUE

\* ufs_mphy_unipro_setting: "break" after send_uic_cmd leaves the switch, not
\* the loop over the list.
SetAttribute ==
  /\ pc = "list" /\ cmd <= Len(list)
  /\ Completes(list[cmd]) \/ EndsEarly(list[cmd])
  /\ cmd' = cmd + 1
  /\ UNCHANGED <<pc, attempts, result, quirks, lane, flag, polls, list, linkUp,
                 lanes, fast, devInit, bootLunEn, scan, bus>>

\* The list as a whole has the result of its last command.
ListFailed ==
  /\ pc = "list" /\ cmd > Len(list) /\ res = "fail"
  /\ FailAttempt /\ NoList
  /\ UNCHANGED <<quirks, lane, flag, polls, link, refused, scan, bus>>

LanesOnce ==                                                      \* mutant
  /\ pc = "list" /\ cmd > Len(list) /\ res = "ok" /\ list = LaneList
  /\ Goto("pre_gear") /\ NoList
  /\ lane' = IF lane = 0 THEN lanes[1] ELSE lane
  /\ quirks' = IF lanes = <<1, 1>> THEN {"one_lane"} ELSE quirks
  /\ UNCHANGED <<flag, polls, link, refused, scan, bus>>

\* A link with one lane makes the driver forget all other quirks.
LanesSet ==
  /\ pc = "list" /\ cmd > Len(list) /\ res = "ok" /\ list = LaneList
  /\ Goto("pre_gear") /\ NoList
  /\ lane' = lanes[1]
  /\ quirks' = IF lanes = <<1, 1>> THEN {"one_lane"} ELSE quirks
  /\ UNCHANGED <<flag, polls, link, refused, scan, bus>>

\* ufs_pre_gear_change, and the list of ufs_pmc_common.
PreGearChange ==
  /\ pc = "pre_gear"
  /\ \/ Goto("list") /\ list' = PowerList /\ cmd' = 1 /\ res' = "ok"
     \/ FailAttempt /\ UNCHANGED <<list, cmd, res>>
  /\ UNCHANGED <<quirks, lane, flag, polls, link, refused, scan, bus>>

PowerSet ==
  /\ pc = "list" /\ cmd > Len(list) /\ res = "ok" /\ list = PowerList
  /\ Goto("power_mode") /\ NoList
  /\ UNCHANGED <<quirks, lane, flag, polls, link, refused, scan, bus>>

\* The change of the power mode, which the controller status has to confirm.
PowerModeChange ==
  /\ pc = "power_mode"
  /\ \/ Goto("active_lanes") /\ fast' = TRUE
     \/ FailAttempt /\ UNCHANGED fast
  /\ UNCHANGED <<Locals, linkUp, lanes, devInit, bootLunEn, uicLate, refused, scan, bus>>

-------------------------------------------------------------------------------
(* The boot unit, and the enumeration                                      *)

\* ufs_identify_bootlun.  An attribute that was not answered reads as zero.
ReadBootLunEn ==
  /\ pc = "boot_lun"
  /\ \/ Answered /\ bootLunEn # 0 /\ Goto("unit_descs")
     \/ Answered /\ ReturnWith("fail")
     \/ Silent /\ ReturnWith("fail")
  /\ UNCHANGED <<Locals, link, refused, scan>>

\* Eight unit descriptors are read, and only printed.
ReadUnitDescs ==
  /\ pc = "unit_descs"
  /\ \/ Answered \/ Silent
  /\ Goto("scan") \/ ReturnWith("fail")
  /\ UNCHANGED <<Locals, link, refused, scan>>

Enumerate ==
  /\ pc = "scan"
  /\ ScanNext
  /\ UNCHANGED <<driver, link, refused>>

\* The results of the scans are not looked at: r is still 0.
EndScan ==
  /\ pc = "scan" /\ asks = "done"
  /\ ReturnWith("ok")
  /\ UNCHANGED <<Locals, link, refused, scan, bus>>

\* The caller provisions the device and removes the block devices.
Provisioned ==
  /\ pc = "out"
  /\ Removal
  /\ UNCHANGED <<driver, link, refused>>

-------------------------------------------------------------------------------
Steps ==
  \/ Step("dme_reset", "dme_enable") \/ Step("dme_enable", "get_lanes")
  \/ Step("get_lanes", "pre_link") \/ Step("pre_link", "link_startup")
  \/ Step("max_gear", "post_link") \/ Step("post_link", "active_lanes_1")
  \/ Step("active_lanes_1", "nop")
  \/ Step("active_lanes", "post_gear") \/ Step("post_gear", "boot_lun")

Driver ==
  \/ InitHost \/ SoftReset \/ Steps \/ LinkStartup \/ NopOut
  \/ SetDeviceInit \/ ReadDeviceInit
  \/ CheckLanes \/ SetAttribute \/ ListFailed \/ LanesSet
  \/ PreGearChange \/ PowerSet \/ PowerModeChange
  \/ ReadBootLunEn \/ ReadUnitDescs \/ Enumerate \/ EndScan

Device == ResetDone \/ HostEnabled \/ DeviceReady

Next == Driver \/ Device \/ Provisioned

Spec == Init /\ [][Next]_vars

\* The driver has one thread and polls.  Nothing is assumed of the controller
\* and of the device.
FairSpec == Spec /\ WF_vars(Driver)

-------------------------------------------------------------------------------
(* Properties                                                              *)

Labels == {"host", "reset", "swrst", "hce", "dme_reset", "dme_enable", "get_lanes",
           "pre_link", "link_startup", "max_gear", "post_link", "active_lanes_1",
           "nop", "set_init", "read_init", "check_lanes", "list", "pre_gear",
           "power_mode", "active_lanes", "post_gear", "boot_lun", "unit_descs",
           "scan", "out"}

Settings == {LaneList[i] : i \in DOMAIN LaneList}
              \cup {PowerList[i] : i \in DOMAIN PowerList}

StartupTypeOK ==
  /\ pc \in Labels
  /\ attempts \in 0 .. MaxAttempts /\ result \in {"none", "ok", "fail"}
  /\ quirks \subseteq {"broken_hce", "one_lane"}
  /\ lane \in 0 .. 2 /\ flag \in BOOLEAN /\ polls \in 0 .. InitPolls
  /\ list \in {<<>>, LaneList, PowerList} /\ cmd \in 1 .. Len(list) + 1
  /\ res \in {"ok", "fail"}
  /\ linkUp \in BOOLEAN /\ lanes \in LaneCounts /\ fast \in BOOLEAN
  /\ devInit \in {"not", "running", "finished"} /\ bootLunEn \in BootLuns
  /\ uicLate \in BOOLEAN /\ refused \subseteq Settings

TypeOK == StartupTypeOK /\ ScanTypeOK

Connected == pc \in {"boot_lun", "unit_descs", "scan"} \/ result = "ok"

(* When units are looked for, whatever attempts failed before: link, power  *)
(* mode and lanes are those of the last attempt.  The device has finished   *)
(* its initialisation, unless in this attempt a query was given up or       *)
(* failed unseen (fDeviceInit then reads as zero).  Of the settings of the  *)
(* power mode only the last is known to have been taken, and that only if   *)
(* no UIC command of a list was given up (ufs_init_interface).              *)
StartedUp ==
  Connected =>
    /\ linkUp /\ fast /\ lane = lanes[1]
    /\ ~uicLate => PowerList[Len(PowerList)] \notin refused
    /\ ~lost => devInit = "finished"

(* ufs_init returns, or waits for the controller in one of the two loops    *)
(* of ufs_pre_setup that have no bound: no device keeps it in the other     *)
(* loops, and attempts are not repeated for ever.                           *)
InitEnds == <>[](pc \in {"out", "swrst", "hce"})

-------------------------------------------------------------------------------
(* The abstract specification                                              *)

LinkState ==
  IF pc \in {"host", "reset"} THEN "off"
  ELSE IF Connected \/ (pc = "out" /\ linkUp /\ attempts < MaxAttempts) THEN "up"
  ELSE IF pc = "out" THEN "given_up" ELSE "trying"

BringUp == INSTANCE LinkBringUp WITH tries <- attempts, link <- LinkState

(* The row of steps, each of which may fail, with retries of the whole, is  *)
(* an attempt that is repeated at most MaxAttempts times, and not again     *)
(* once it has succeeded.                                                   *)
ImplementsBringUp == BringUp!Spec

===============================================================================
