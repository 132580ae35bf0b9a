----------------------------- MODULE UfsTransport -----------------------------
(***************************************************************************)
(* One request at a time between the UFS driver of Exynos9820Pkg (ufs.c    *)
(* and the reads and writes of scsi.c) and the UFS host controller.        *)
(*                                                                         *)
(* The driver has one set of descriptors in memory and uses slot 0 of the  *)
(* controller only: it clears the descriptors, writes the request, rings   *)
(* the doorbell and polls the interrupt status until the request is done,  *)
(* a fatal error is flagged or its patience is at an end.  A request that  *)
(* was given up is not taken back: the controller may still fetch it, and  *)
(* answer it, while a later call uses the same memory.                     *)
(*                                                                         *)
(* The controller and the device behind it are not in the repository; they *)
(* are modelled by what the driver relies on.  Response and overall status *)
(* are in memory before the doorbell is cleared, and the interrupt comes   *)
(* after that.                                                             *)
(*                                                                         *)
(* A definition marked "mutant" is a faulty variant of the one that        *)
(* follows it; no specification uses it.                                   *)
(***************************************************************************)
EXTENDS Naturals

CONSTANTS
  Scalars,      \* flags and attributes of the device
  Descriptors,  \* its descriptors
  Blocks,       \* blocks of its logical units
  Values,       \* what any of them may hold
  Zero,         \* the value a cleared response reads as
  Polls,        \* unsuccessful polls before a call gives up, minus one
  Answers       \* the ways the device may answer, some of AllAnswers

Queried == Scalars \cup Descriptors
Regs    == Queried \cup Blocks

(***************************************************************************)
(* "done": the request was executed.  "refused": the overall status is an  *)
(* error and the response says target failure.  "check": a SCSI command    *)
(* with status CHECK CONDITION.  "masked": the overall status is success,  *)
(* the response says target failure.  "mute": the overall status is an     *)
(* error, and there is no response.  __utp_check_result tells the first    *)
(* three apart; for the others see the README.                             *)
(***************************************************************************)
AllAnswers    == {"done", "refused", "check", "masked", "mute"}
HonestAnswers == {"done", "refused", "check"}

ASSUME TransportAssumption ==
  /\ Zero \in Values /\ Polls \in Nat
  /\ Answers \subseteq AllAnswers
  /\ Blocks \cap Queried = {} /\ Scalars \cap Descriptors = {}

\* A request, as a call asks for it and as it is in memory.
Nop      == [op |-> "nop"]
Reads    == [op: {"read"}, reg: Regs]
Writes   == [op: {"write"}, reg: Regs, val: Values]
Requests == {Nop} \cup Reads \cup Writes

IsQuery(r)   == r # Nop /\ r.reg \in Queried
IsCommand(r) == r # Nop /\ r.reg \in Blocks

NoResponse == [type |-> "none", failed |-> FALSE, status |-> "good", val |-> Zero]
Responses  == [type: {"none", "nop_in", "query", "response"}, failed: BOOLEAN,
               status: {"good", "check"}, val: Values]

VARIABLES
  (* The driver *)
  pc, call,     \* where it is; the request of the present or last call
  left,         \* polls left (ufs->timeout)
  waited,       \* what __utp_wait_for_response returned
  result,       \* what the call returned
  host,         \* flags.arry, attributes.arry, descriptors and buffers
  (* Memory both sides see: the descriptors of slot 0 *)
  req, rsp, ocs,
  (* Registers of the controller *)
  doorbell, complete, fatal,
  (* The controller with the request it has fetched, and the device *)
  job, jobReq, jobOwn, dev,
  (* History *)
  executed,     \* how often the request of the present call was executed
  overrun       \* was a request outstanding when the call began?

driver   == <<pc, call, left, waited, result>>
memory   == <<req, rsp, ocs>>
status   == <<doorbell, complete, fatal>>
device   == <<job, jobReq, jobOwn, dev>>
history  == <<executed, overrun>>
vars     == <<driver, host, memory, status, device, history>>

Init ==
  /\ pc = "idle" /\ call = Nop /\ left = 0 /\ waited = "none" /\ result = "none"
  /\ host = [r \in Regs |-> Zero]
  /\ req = Nop /\ rsp = NoResponse /\ ocs = "success"
  /\ doorbell = FALSE /\ complete = FALSE /\ fatal = FALSE
  /\ job = "none" /\ jobReq = Nop /\ jobOwn = FALSE
  /\ dev \in [Regs -> Values]
  /\ executed = 0 /\ overrun = FALSE

-------------------------------------------------------------------------------
(* The driver                                                              *)

\* A call of ufs_utp_nop_process, ufs_utp_query_process or scsi_exec.  What is
\* to be written is put in the driver's copy or in a buffer first.
Begin(r) ==
  /\ pc = "idle"
  /\ pc' = "init" /\ call' = r /\ result' = "none"
  /\ host' = IF r.op = "write" THEN [host EXCEPT ![r.reg] = r.val] ELSE host
  /\ waited' = "none"
  /\ executed' = 0 /\ jobOwn' = FALSE
  /\ overrun' = doorbell
  /\ UNCHANGED <<left, memory, status, job, jobReq, dev>>

\* __utp_init clears request and response.  What is left is a NOP OUT.
ClearDescriptors ==
  /\ pc = "init"
  /\ req' = Nop /\ rsp' = NoResponse
  /\ pc' = IF call = Nop THEN "send" ELSE "describe"
  /\ UNCHANGED <<call, left, waited, result, host, ocs, status, device, history>>

\* __utp_write_utrd reads the length of scsi_cmd, a null pointer for a query, and
\* uses it for commands only.  The load is taken to do nothing (see the README).
Describe ==
  /\ pc = "describe"
  /\ req' = call /\ ocs' = "invalid"
  /\ pc' = "send"
  /\ UNCHANGED <<call, left, waited, result, host, rsp, status, device, history>>

\* A doorbell that is still set from an earlier call just stays set.
Send ==
  /\ pc = "send"
  /\ doorbell' = TRUE /\ left' = Polls
  /\ pc' = "poll"
  /\ UNCHANGED <<call, waited, result, host, memory, complete, fatal, device,
                 history>>

CompletedByInterrupt == complete                                  \* mutant

\* handle_ufs_utp_int: the interrupt alone may be one of an earlier call.
Completed == complete /\ ~doorbell

Waited(w) ==
  /\ waited' = w /\ pc' = "clear" /\ left' = 0
  /\ UNCHANGED <<call, result>>

PollRestarting ==                                                 \* mutant
  /\ pc = "poll" /\ ~fatal /\ ~Completed
  /\ left' = Polls
  /\ UNCHANGED <<pc, call, waited, result, host, memory, status, device, history>>

PollPastZero ==                                                   \* mutant
  /\ pc = "poll" /\ ~fatal /\ ~Completed
  /\ left' = IF left = 0 THEN Polls + 1 ELSE left - 1
  /\ UNCHANGED <<pc, call, waited, result, host, memory, status, device, history>>

PollAgain ==
  /\ pc = "poll" /\ ~fatal /\ ~Completed /\ left > 0
  /\ left' = left - 1
  /\ UNCHANGED <<pc, call, waited, result, host, memory, status, device, history>>

StopPolling ==
  /\ pc = "poll"
  /\ \/ fatal /\ Waited("error")
     \/ ~fatal /\ Completed /\ Waited("ok")
     \/ ~fatal /\ ~Completed /\ left = 0 /\ Waited("timeout")
  /\ UNCHANGED <<host, memory, status, device, history>>

\* All that is set in the interrupt status is cleared, seen or not.  A query
\* goes on whatever the wait returned.
ClearStatus ==
  /\ pc = "clear"
  /\ complete' = FALSE /\ fatal' = FALSE
  /\ IF waited = "ok" \/ IsQuery(call)
     THEN pc' = "check" /\ UNCHANGED result
     ELSE pc' = "idle" /\ result' = waited
  /\ UNCHANGED <<call, left, waited, host, memory, doorbell, device, history>>

\* __utp_check_result: the response counts when the overall status is an error.
TargetFailed == ocs # "success" /\ rsp.failed

\* __utp_query_get_data.  A descriptor is copied as far as it is long: the
\* empty one of a cleared response is not.
QueryData ==
  IF call.op = "read" /\ (call.reg \in Scalars \/ rsp.type = "query")
  THEN [host EXCEPT ![call.reg] = rsp.val] ELSE host

\* scsi_parse_status: ERR_ACCESS_DENIED for every status but GOOD.
ParsedStatus(s) == IF s = "good" THEN "ok" ELSE "denied"

CheckResult ==
  /\ pc = "check"
  /\ pc' = "idle"
  /\ \/ /\ TargetFailed
        /\ result' = "fail" /\ UNCHANGED host
     \/ /\ ~TargetFailed /\ IsQuery(call)
        /\ result' = "ok" /\ host' = QueryData
     \/ /\ ~TargetFailed /\ ~IsQuery(call)
        /\ result' = IF IsCommand(call) THEN ParsedStatus(rsp.status) ELSE "ok"
        /\ UNCHANGED host
  /\ UNCHANGED <<call, left, waited, memory, status, device, history>>

-------------------------------------------------------------------------------
(* The controller and the device                                           *)

Fetch ==
  /\ doorbell /\ job = "none"
  /\ job' = "working" /\ jobReq' = req /\ jobOwn' = (pc \notin {"init", "describe"})
  /\ UNCHANGED <<driver, host, memory, status, dev, history>>

ResponseType == IF jobReq = Nop THEN "nop_in"
                ELSE IF IsQuery(jobReq) THEN "query" ELSE "response"

\* The data of a SCSI read go to the caller's buffer directly.
Execute(does) ==
  /\ dev' = IF does /\ jobReq.op = "write"
            THEN [dev EXCEPT ![jobReq.reg] = jobReq.val] ELSE dev
  /\ host' = IF does /\ jobReq.op = "read" /\ IsCommand(jobReq)
             THEN [host EXCEPT ![jobReq.reg] = dev[jobReq.reg]] ELSE host
  /\ executed' = IF does /\ jobOwn /\ executed < 2 THEN executed + 1 ELSE executed

Answer(a, does) ==
  /\ job = "working"
  /\ a = "done" => does
  /\ a \in {"refused", "check", "masked"} => ~does
  /\ a = "check" => IsCommand(jobReq)
  /\ Execute(does)
  /\ rsp' = IF a = "mute" THEN rsp
            ELSE [type |-> ResponseType, failed |-> a \in {"refused", "masked"},
                  status |-> IF a = "check" THEN "check" ELSE "good",
                  val |-> IF does /\ jobReq.op = "read" /\ IsQuery(jobReq)
                          THEN dev[jobReq.reg] ELSE Zero]
  /\ ocs' = IF a \in {"refused", "mute"} THEN "error" ELSE "success"
  /\ job' = "answered" /\ jobReq' = Nop /\ jobOwn' = FALSE
  /\ UNCHANGED <<driver, req, status, overrun>>

ClearDoorbell ==
  /\ job = "answered"
  /\ doorbell' = FALSE /\ job' = "signal"
  /\ UNCHANGED <<driver, host, memory, complete, fatal, jobReq, jobOwn, dev, history>>

RaiseInterrupt ==
  /\ job = "signal"
  /\ complete' = TRUE /\ job' = "none"
  /\ UNCHANGED <<driver, host, memory, doorbell, fatal, jobReq, jobOwn, dev, history>>

FatalError ==
  /\ ~fatal /\ fatal' = TRUE
  /\ UNCHANGED <<driver, host, memory, doorbell, complete, device, history>>

-------------------------------------------------------------------------------
Driver == \/ ClearDescriptors \/ Describe \/ Send \/ PollAgain \/ StopPolling
          \/ ClearStatus \/ CheckResult

Device == \/ Fetch \/ ClearDoorbell \/ RaiseInterrupt \/ FatalError
          \/ \E a \in Answers, does \in BOOLEAN : Answer(a, does)

Next == Driver \/ Device \/ \E r \in Requests : Begin(r)

Spec == Init /\ [][Next]_vars

\* The driver polls; nothing keeps it from its next step.  Of the device no
\* progress is assumed.
FairSpec == Spec /\ WF_vars(Driver)

-------------------------------------------------------------------------------
(* Properties                                                              *)

TypeOK ==
  /\ pc \in {"idle", "init", "describe", "send", "poll", "clear", "check"}
  /\ call \in Requests /\ left \in 0 .. Polls
  /\ waited \in {"none", "ok", "error", "timeout"}
  /\ result \in {"none", "ok", "error", "timeout", "fail", "denied"}
  /\ host \in [Regs -> Values] /\ dev \in [Regs -> Values]
  /\ req \in Requests /\ rsp \in Responses
  /\ ocs \in {"success", "invalid", "error"}
  /\ doorbell \in BOOLEAN /\ complete \in BOOLEAN /\ fatal \in BOOLEAN
  /\ job \in {"none", "working", "answered", "signal"}
  /\ jobReq \in Requests /\ jobOwn \in BOOLEAN
  /\ executed \in 0 .. 2 /\ overrun \in BOOLEAN

(* Whatever was given up before, and whatever interrupt that left behind: a *)
(* call that began with a clear doorbell and whose wait succeeded reports   *)
(* its own request.  "ok" means that the device executed it, once, and that *)
(* the driver now has what the device has; a failure that the request was   *)
(* not executed (__utp_check_result, scsi_parse_status).                    *)
AnsweredOnce ==
  pc = "idle" /\ waited = "ok" /\ ~overrun =>
    /\ result = "ok" => executed = 1
    /\ result = "ok" /\ call # Nop => host[call.reg] = dev[call.reg]
    /\ result \in {"fail", "denied"} => executed = 0

(* Every call returns, also when the device is dead (the count-down of      *)
(* handle_ufs_int).                                                         *)
CallReturns == (pc # "idle") ~> (pc = "idle")

(* ufs_utp_cmd_process: "submitting COMMAND UPIU, wait for and check        *)
(* RESPONSE UPIU. And then it reports the result": a command that is        *)
(* reported to have succeeded was executed.                                 *)
CommandReportsItsResult ==
  pc = "idle" /\ result = "ok" /\ IsCommand(call) => executed > 0

-------------------------------------------------------------------------------
(* Why AnsweredOnce holds                                                  *)

\* The controller has a request only while the doorbell is set ...
DoorbellKept == job \in {"working", "answered"} => doorbell

\* ... and the response, once there is one, tells what became of it.
Executed ==
  /\ ocs = "success" /\ ~rsp.failed /\ rsp.status = "good" /\ executed = 1
  /\ call.op = "write" => dev[call.reg] = call.val
  /\ call.op = "read" /\ IsQuery(call) => /\ rsp.type = "query"
                                          /\ rsp.val = dev[call.reg]
  /\ call.op = "read" /\ IsCommand(call) => host[call.reg] = dev[call.reg]

NotExecuted ==
  /\ executed = 0
  /\ \/ ocs = "error" /\ rsp.failed
     \/ ocs = "success" /\ IsCommand(call) /\ rsp.status = "check"

Reported == Executed \/ NotExecuted

\* How far a call that began with a clear doorbell has come.
Waiting ==
  /\ req = call
  /\ doorbell /\ job \in {"none", "signal"} => executed = 0
  /\ job = "working" => jobReq = call /\ jobOwn /\ executed = 0
  /\ job = "answered" \/ ~doorbell => Reported

Intact == \/ pc \in {"init", "describe", "send", "poll"}
          \/ pc \in {"clear", "check"} /\ waited = "ok"

CleanCall ==
  /\ Intact /\ call.op = "write" => host[call.reg] = call.val
  /\ pc \in {"init", "describe", "send"} => ~doorbell /\ executed = 0
  /\ pc = "send" => req = call
  /\ pc = "poll" => Waiting
  /\ pc \in {"clear", "check"} /\ waited = "ok" => ~doorbell /\ Reported
  /\ pc = "idle" /\ waited = "ok" => ~doorbell

Progress == DoorbellKept /\ AnsweredOnce /\ (~overrun => CleanCall)

===============================================================================
