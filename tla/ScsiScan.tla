-------------------------------- MODULE ScsiScan --------------------------------
(***************************************************************************)
(* The enumeration of SCSI units by scsi.c of the UFS driver: scsi_scan    *)
(* for the logical units, scsi_scan for the RPMB unit, scsi_scan_ssu for   *)
(* the unit that takes START STOP UNIT, and scsi_exit, which takes the     *)
(* block devices away again.                                               *)
(*                                                                         *)
(* Each unit is asked up to three times.  A unit that does not answer      *)
(* INQUIRY is passed over; any later failure ends the scan it belongs to.  *)
(* Units that answer are put in the containers of ufs_dev one after the    *)
(* other, so that container and unit number part as soon as one unit is    *)
(* passed over.                                                            *)
(*                                                                         *)
(* A command is an action here.  What its result is worth is taken from    *)
(* UfsTransport: a command may be executed, be refused, or be given up.    *)
(* It may also be reported as successful although nothing was done: when   *)
(* the answer to a command given up before ends its wait, and when it      *)
(* fails without the driver seeing it (the answers "mute" and "masked").   *)
(*                                                                         *)
(* A definition marked "mutant" is a faulty variant of the one that        *)
(* follows it; no specification uses it.                                   *)
(***************************************************************************)
EXTENDS Naturals, FiniteSets

CONSTANTS
  Enabled,      \* units that LU_conf enables
  MaxDevice     \* SCSI_MAX_DEVICE: containers in ufs_dev

NumberOfLus == Cardinality(Enabled)        \* ufs_number_of_lus

\* Well-known units, and their containers ufs_dev_rpmb and ufs_dev_ssu.
RpmbLun == 68
SsuLun  == 80
RpmbDev == MaxDevice
SsuDev  == MaxDevice + 1

ASSUME ScanAssumption ==
  /\ MaxDevice \in 1 .. RpmbLun
  /\ Enabled \subseteq 0 .. MaxDevice - 1
  /\ NumberOfLus \in 0 .. MaxDevice

Luns       == 0 .. NumberOfLus - 1
Units      == Luns \cup {RpmbLun, SsuLun}
NoUnit     == 255
Containers == 0 .. MaxDevice + 1

\* What g_buf holds: data of one kind, from one unit.
NoData == [of |-> NoUnit, what |-> "none"]
Data   == [of: Units \cup {NoUnit}, what: {"none", "inquiry", "sense", "capacity"}]

VARIABLES
  asks,     \* the command that comes next, or how far the scan is otherwise
  unit,     \* the unit it goes to
  sdev,     \* the container the unit is to be put in
  lun,      \* lun[c]: the unit container c is for
  gbuf,     \* what is in g_buf
  bdevs,    \* registered block devices
  late,     \* is an answer to a command that was given up still to come?
  (* History *)
  lost,     \* did a request go astray since the controller was reset: given up,
            \* or failed without the driver seeing it?
  answered  \* the commands that were executed, unit and kind of data, as long as
            \* none went astray

bus  == <<late, lost>>
scan == <<asks, unit, sdev, lun, gbuf, bdevs, answered>>

BlockDevice == [name: Units, private: Containers, size: Data]

ScanInit ==
  /\ asks = "idle" /\ unit = NoUnit /\ sdev = 0
  /\ lun = [c \in Containers |-> NoUnit] /\ gbuf = NoData /\ bdevs = {}
  /\ answered = {}

-------------------------------------------------------------------------------
(* Which unit comes next                                                   *)

\* One turn of a scan sets up the container before it asks the unit.
Turn(u, c) ==
  /\ asks' = "inquiry" /\ unit' = u /\ sdev' = c
  /\ lun' = [lun EXCEPT ![c] = u]

\* The scan of the logical units, of RPMB and of SSU follow one another
\* whatever they return.
LeaveScan ==
  \/ unit \notin {RpmbLun, SsuLun} /\ Turn(RpmbLun, RpmbDev)
  \/ unit = RpmbLun /\ Turn(SsuLun, SsuDev)
  \/ unit = SsuLun /\ asks' = "done" /\ UNCHANGED <<unit, sdev, lun>>

\* The next turn of the present scan, with container c, if there is one.
NextTurn(c) ==
  IF unit + 1 \in Luns THEN Turn(unit + 1, c) ELSE LeaveScan

StartScan ==
  /\ asks = "idle"
  /\ IF 0 \in Luns THEN Turn(0, 0) ELSE LeaveScan
  /\ UNCHANGED <<gbuf, bdevs, bus, answered>>

-------------------------------------------------------------------------------
(* Commands                                                                *)

\* The unit does what it is asked, and its data are in g_buf.
Executed(what) ==
  /\ gbuf' = [of |-> unit, what |-> what]
  /\ answered' = IF lost THEN answered ELSE answered \cup {<<unit, what>>}
  /\ late' = FALSE /\ UNCHANGED lost

\* The wait is ended by the answer to an older command.
Mistaken == late /\ late' = FALSE /\ UNCHANGED <<gbuf, answered, lost>>

\* The overall status is an error but there is no response, or the response says
\* target failure and the overall status does not: __utp_check_result returns 0,
\* and the status byte is that of a cleared response.
Unseen == late' = FALSE /\ lost' = TRUE

Reported(what) ==
  Executed(what) \/ Mistaken \/ (Unseen /\ UNCHANGED <<gbuf, answered>>)

\* scsi_exec or scsi_parse_status returns an error: the command was refused,
\* or it was given up and may be answered later.
Failed ==
  /\ UNCHANGED <<gbuf, answered>>
  /\ \/ late' = FALSE /\ UNCHANGED lost
     \/ late' = TRUE /\ lost' = TRUE

RegisterAsNext(size) ==                                           \* mutant
  bdevs' = bdevs \cup {[name |-> unit, private |-> sdev + 1, size |-> size]}

Register(size) ==
  bdevs' = bdevs \cup {[name |-> unit, private |-> sdev, size |-> size]}

FoundAnyway ==                                                    \* mutant
  /\ asks = "inquiry"
  /\ Reported("inquiry") \/ Failed
  /\ asks' = "sense"
  /\ UNCHANGED <<unit, sdev, lun, bdevs>>

\* scsi_inquiry: without an answer the unit does not exist.
Found ==
  /\ asks = "inquiry"
  /\ Reported("inquiry")
  /\ asks' = "sense"
  /\ UNCHANGED <<unit, sdev, lun, bdevs>>

NotFound ==
  /\ asks = "inquiry"
  /\ Failed
  /\ NextTurn(sdev)
  /\ UNCHANGED bdevs

\* scsi_mode_sense, which sends REQUEST SENSE, with buffer and length left from
\* INQUIRY.  The well-known units need no READ CAPACITY.
Attention ==
  /\ asks = "sense"
  /\ Reported("sense")
  /\ IF unit \in Luns
     THEN asks' = "capacity" /\ UNCHANGED <<unit, sdev, lun, bdevs>>
     ELSE Register(NoData) /\ LeaveScan

\* scsi_read_capacity_10: the size is computed from what g_buf holds now.
Sized ==
  /\ asks = "capacity"
  /\ Reported("capacity")
  /\ Register(gbuf')
  /\ NextTurn(sdev + 1)

\* A failure of either ends the scan; units that were to follow are not asked.
BreakOff ==
  /\ asks \in {"sense", "capacity"}
  /\ Failed
  /\ LeaveScan
  /\ UNCHANGED bdevs

\* scsi_exit("scsi"), called after provisioning: devices are looked up by their
\* prefix, which all of them have, and removed one by one.
StartRemoval ==
  /\ asks = "done"
  /\ asks' = "removing"
  /\ UNCHANGED <<unit, sdev, lun, gbuf, bdevs, bus, answered>>

RemoveDevice ==
  /\ asks = "removing"
  /\ \E b \in bdevs : bdevs' = bdevs \ {b}
  /\ UNCHANGED <<asks, unit, sdev, lun, gbuf, bus, answered>>

EndRemoval ==
  /\ asks = "removing" /\ bdevs = {}
  /\ asks' = "removed"
  /\ UNCHANGED <<unit, sdev, lun, gbuf, bdevs, bus, answered>>

ScanNext == \/ StartScan \/ Found \/ NotFound \/ Attention \/ Sized \/ BreakOff

Removal == StartRemoval \/ RemoveDevice \/ EndRemoval

-------------------------------------------------------------------------------
(* Properties                                                              *)

Scanning == asks \in {"inquiry", "sense", "capacity"}

ScanTypeOK ==
  /\ asks \in {"idle", "inquiry", "sense", "capacity", "done", "removing", "removed"}
  /\ unit \in Units \cup {NoUnit}
  /\ Scanning => unit \in Units
  /\ sdev \in Containers
  /\ lun \in [Containers -> Units \cup {NoUnit}]
  /\ gbuf \in Data /\ bdevs \subseteq BlockDevice
  /\ late \in BOOLEAN /\ lost \in BOOLEAN
  /\ answered \subseteq Units \X {"inquiry", "sense", "capacity"}

(* Each registered block device has a container of its own, which addresses *)
(* the unit the device is named after, although containers are reused for   *)
(* units that did not answer, and ufs_dev is filled without gaps (sdev++ at *)
(* the end of a turn of scsi_scan only).                                    *)
ContainersOwn ==
  \A b \in bdevs :
    /\ lun[b.private] = b.name
    /\ \A c \in bdevs : c.private = b.private => c = b

(* As long as no command was given up or failed unseen, a registered device *)
(* is a unit that executed all that scsi_scan asked of it, and its size is  *)
(* its own: data that INQUIRY or another unit left in g_buf are not taken   *)
(* for a capacity.                                                          *)
RegisteredTrue ==
  ~lost => \A b \in bdevs :
    /\ <<b.name, "inquiry">> \in answered /\ <<b.name, "sense">> \in answered
    /\ b.name \in Luns => b.size = [of |-> b.name, what |-> "capacity"]

===============================================================================
