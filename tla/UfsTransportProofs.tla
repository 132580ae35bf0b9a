-------------------------- MODULE UfsTransportProofs --------------------------
(***************************************************************************)
(* UfsTransport for any set of registers and values, any time-out and any  *)
(* number of calls: the variables keep their types, and a call that began  *)
(* with a clear doorbell reports its own request.                          *)
(***************************************************************************)
EXTENDS UfsTransport, TLAPS

USE DEF Queried, Regs

-------------------------------------------------------------------------------
(* Requests and responses                                                  *)

LEMMA RequestFacts ==
  /\ Nop \in Requests /\ Nop.op = "nop"
  /\ \A r \in Requests :
       /\ r.op \in {"nop", "read", "write"}
       /\ r = Nop <=> r.op = "nop"
       /\ r.op # "nop" => r.reg \in Regs
       /\ r.op = "write" => r.val \in Values
BY DEF Requests, Nop, Reads, Writes

LEMMA NoResponseType == NoResponse \in Responses
BY TransportAssumption DEF NoResponse, Responses

-------------------------------------------------------------------------------
(* Type correctness, action by action                                      *)

LEMMA InitType == Init => TypeOK
<1> SUFFICES ASSUME Init PROVE TypeOK
  OBVIOUS
<1>1. host \in [Regs -> Values] /\ dev \in [Regs -> Values]
  BY TransportAssumption DEF Init
<1>2. left \in 0 .. Polls
  BY TransportAssumption DEF Init
<1>3. call \in Requests /\ req \in Requests /\ jobReq \in Requests
  BY RequestFacts DEF Init
<1>4. rsp \in Responses
  BY NoResponseType DEF Init
<1>5. executed \in 0 .. 2
  BY DEF Init
<1>6. /\ doorbell \in BOOLEAN /\ complete \in BOOLEAN /\ fatal \in BOOLEAN
      /\ jobOwn \in BOOLEAN /\ overrun \in BOOLEAN
  BY DEF Init
<1>7. /\ pc = "idle" /\ waited = "none" /\ result = "none" /\ ocs = "success"
      /\ job = "none"
  BY DEF Init
<1> QED BY <1>1, <1>2, <1>3, <1>4, <1>5, <1>6, <1>7 DEF TypeOK

LEMMA BeginType == ASSUME TypeOK, NEW r \in Requests, Begin(r) PROVE TypeOK'
<1>1. host' \in [Regs -> Values]
  <2>1. CASE r.op = "write"
    <3>1. r.val \in Values
      BY <2>1, RequestFacts
    <3>2. host' = [host EXCEPT ![r.reg] = r.val]
      BY <2>1 DEF Begin
    <3> QED BY <3>1, <3>2 DEF TypeOK
  <2>2. CASE r.op # "write"
    BY <2>2 DEF TypeOK, Begin
  <2> QED BY <2>1, <2>2
<1>2. executed' \in 0 .. 2 /\ call' \in Requests
  BY DEF Begin
<1>3. jobOwn' \in BOOLEAN /\ overrun' \in BOOLEAN
  BY DEF TypeOK, Begin
<1>4. /\ pc' = "init" /\ waited' = "none" /\ result' = "none"
      /\ UNCHANGED <<left, memory, status, job, jobReq, dev>>
  BY DEF Begin
<1> QED BY <1>1, <1>2, <1>3, <1>4 DEF TypeOK, memory, status

LEMMA DriverType == TypeOK /\ Driver => TypeOK'
<1> SUFFICES ASSUME TypeOK, Driver PROVE TypeOK'
  OBVIOUS
<1> USE DEF TypeOK, driver, memory, status, device, history
<1>1. CASE ClearDescriptors
  BY <1>1, RequestFacts, NoResponseType DEF ClearDescriptors
<1>2. CASE Describe
  BY <1>2 DEF Describe
<1>3. CASE Send
  BY <1>3, TransportAssumption DEF Send
<1>4. CASE PollAgain
  <2>1. left - 1 \in 0 .. Polls
    BY <1>4, TransportAssumption DEF PollAgain
  <2> QED BY <1>4, <2>1 DEF PollAgain
<1>5. CASE StopPolling
  <2>1. 0 \in 0 .. Polls
    BY TransportAssumption
  <2> QED BY <1>5, <2>1 DEF StopPolling, Waited
<1>6. CASE ClearStatus
  <2>1. /\ pc' \in {"check", "idle"}
        /\ result' \in {"none", "ok", "error", "timeout", "fail", "denied"}
    BY <1>6 DEF ClearStatus
  <2>2. complete' \in BOOLEAN /\ fatal' \in BOOLEAN /\ UNCHANGED doorbell
    BY <1>6 DEF ClearStatus
  <2> QED BY <1>6, <2>1, <2>2 DEF ClearStatus
<1>7. CASE CheckResult
  <2>1. QueryData \in [Regs -> Values]
    <3>1. rsp.val \in Values
      BY DEF Responses
    <3> QED BY <3>1 DEF QueryData
  <2>2. host' \in [Regs -> Values]
    BY <1>7, <2>1 DEF CheckResult
  <2>3. result' \in {"ok", "fail", "denied"}
    BY <1>7 DEF CheckResult, ParsedStatus
  <2> QED BY <1>7, <2>2, <2>3 DEF CheckResult
<1> QED BY <1>1, <1>2, <1>3, <1>4, <1>5, <1>6, <1>7 DEF Driver

LEMMA ExecuteType ==
  ASSUME TypeOK, NEW does \in BOOLEAN, Execute(does)
  PROVE  /\ host' \in [Regs -> Values] /\ dev' \in [Regs -> Values]
         /\ executed' \in 0 .. 2
<1>1. dev' \in [Regs -> Values]
  <2>1. CASE does /\ jobReq.op = "write"
    BY <2>1, RequestFacts DEF TypeOK, Execute
  <2>2. CASE ~(does /\ jobReq.op = "write")
    BY <2>2 DEF TypeOK, Execute
  <2> QED BY <2>1, <2>2
<1>2. host' \in [Regs -> Values]
  <2>1. CASE does /\ jobReq.op = "read" /\ IsCommand(jobReq)
    <3>1. dev[jobReq.reg] \in Values
      BY <2>1, RequestFacts DEF TypeOK
    <3> QED BY <2>1, <3>1 DEF TypeOK, Execute
  <2>2. CASE ~(does /\ jobReq.op = "read" /\ IsCommand(jobReq))
    BY <2>2 DEF TypeOK, Execute
  <2> QED BY <2>1, <2>2
<1>3. executed' \in 0 .. 2
  BY DEF TypeOK, Execute
<1> QED BY <1>1, <1>2, <1>3

LEMMA AnswerType ==
  ASSUME TypeOK, NEW a \in Answers, NEW does \in BOOLEAN, Answer(a, does)
  PROVE  TypeOK'
<1>1. Execute(does)
  BY DEF Answer
<1>2. rsp' \in Responses
  <2>1. CASE a = "mute"
    BY <2>1 DEF TypeOK, Answer
  <2>2. CASE a # "mute"
    <3>1. (IF does /\ jobReq.op = "read" /\ IsQuery(jobReq)
           THEN dev[jobReq.reg] ELSE Zero) \in Values
      BY RequestFacts, TransportAssumption DEF TypeOK
    <3>2. ResponseType \in {"none", "nop_in", "query", "response"}
      BY DEF ResponseType
    <3> DEFINE v == IF does /\ jobReq.op = "read" /\ IsQuery(jobReq)
                    THEN dev[jobReq.reg] ELSE Zero
    <3>3. rsp' = [type |-> ResponseType, failed |-> a \in {"refused", "masked"},
                  status |-> IF a = "check" THEN "check" ELSE "good", val |-> v]
      BY <2>2, Zenon DEF Answer
    <3>4. v \in Values
      BY <3>1
    <3> HIDE DEF v
    <3> QED BY <3>2, <3>3, <3>4 DEF Responses
  <2> QED BY <2>1, <2>2
<1>3. ocs' \in {"success", "invalid", "error"}
  BY DEF Answer
<1>4. /\ host' \in [Regs -> Values] /\ dev' \in [Regs -> Values]
      /\ executed' \in 0 .. 2
  BY <1>1, ExecuteType
<1>5. /\ job' = "answered" /\ jobReq' = Nop /\ jobOwn' = FALSE
      /\ UNCHANGED <<driver, req, status, overrun>>
  BY DEF Answer
<1>6. jobReq' \in Requests /\ jobOwn' \in BOOLEAN
  BY <1>5, RequestFacts
<1> QED BY <1>2, <1>3, <1>4, <1>5, <1>6 DEF TypeOK, driver, status

LEMMA DeviceType == TypeOK /\ Device => TypeOK'
<1> SUFFICES ASSUME TypeOK, Device PROVE TypeOK'
  OBVIOUS
<1>1. CASE Fetch
  BY <1>1 DEF Fetch, TypeOK, driver, memory, status, history
<1>2. CASE ClearDoorbell
  <2>1. doorbell' \in BOOLEAN /\ job' \in {"none", "working", "answered", "signal"}
    BY <1>2 DEF ClearDoorbell
  <2> QED BY <1>2, <2>1 DEF ClearDoorbell, TypeOK, driver, memory, history
<1>3. CASE RaiseInterrupt
  BY <1>3 DEF RaiseInterrupt, TypeOK, driver, memory, history
<1>4. CASE FatalError
  BY <1>4 DEF FatalError, TypeOK, driver, memory, device, history
<1>5. CASE \E a \in Answers, does \in BOOLEAN : Answer(a, does)
  BY <1>5, AnswerType
<1> QED BY <1>1, <1>2, <1>3, <1>4, <1>5 DEF Device

LEMMA StepType == TypeOK /\ [Next]_vars => TypeOK'
<1> SUFFICES ASSUME TypeOK, [Next]_vars PROVE TypeOK'
  OBVIOUS
<1>1. CASE Driver
  BY <1>1, DriverType
<1>2. CASE Device
  BY <1>2, DeviceType
<1>3. CASE \E r \in Requests : Begin(r)
  BY <1>3, BeginType
<1>4. CASE UNCHANGED vars
  BY <1>4 DEF vars, driver, memory, status, device, history, TypeOK
<1> QED BY <1>1, <1>2, <1>3, <1>4 DEF Next

(* The variables keep their types; in particular the count-down of          *)
(* handle_ufs_int never passes zero.                                        *)
THEOREM TransportTypeCorrect == Spec => []TypeOK
<1>1. Init => TypeOK
  BY InitType
<1>2. TypeOK /\ [Next]_vars => TypeOK'
  BY StepType
<1> QED BY <1>1, <1>2, PTL DEF Spec

-------------------------------------------------------------------------------
(* A call that began with a clear doorbell, action by action               *)

LEMMA InitProgress == Init => Progress
BY RequestFacts DEF Init, Progress, DoorbellKept, AnsweredOnce, CleanCall, Intact

LEMMA BeginProgress ==
  ASSUME TypeOK, Progress, NEW r \in Requests, Begin(r) PROVE Progress'
<1>1. /\ pc' = "init" /\ call' = r /\ executed' = 0
      /\ UNCHANGED <<doorbell, job>>
  BY DEF Begin, status
<1>2. ~overrun' => ~doorbell'
  BY DEF Begin, status
<1>3. r.op = "write" => host'[r.reg] = r.val
  BY RequestFacts DEF Begin, TypeOK
<1> QED
  BY <1>1, <1>2, <1>3 DEF Progress, DoorbellKept, AnsweredOnce, CleanCall, Intact

LEMMA KindsApart ==
  \A r \in Requests : /\ r # Nop => IsQuery(r) \/ IsCommand(r)
                      /\ ~(IsQuery(r) /\ IsCommand(r))
BY RequestFacts, TransportAssumption DEF IsQuery, IsCommand

\* What the driver has when __utp_check_result finds a request executed.
LEMMA CheckedData ==
  ASSUME TypeOK, CheckResult, Executed, call # Nop, result' = "ok",
         call.op = "write" => host[call.reg] = call.val
  PROVE  host'[call.reg] = dev[call.reg]
<1>1. call \in Requests /\ call.reg \in Regs /\ call.op \in {"read", "write"}
  BY RequestFacts DEF TypeOK
<1>2. host' = IF IsQuery(call) THEN QueryData ELSE host
  BY DEF CheckResult
<1>3. CASE call.op = "write"
  BY <1>2, <1>3 DEF QueryData, Executed
<1>4. CASE call.op = "read" /\ IsCommand(call)
  BY <1>1, <1>2, <1>4, KindsApart DEF Executed
<1>5. CASE call.op = "read" /\ IsQuery(call)
  BY <1>1, <1>2, <1>5 DEF QueryData, Executed, TypeOK
<1> QED BY <1>1, <1>3, <1>4, <1>5, KindsApart

LEMMA DriverProgress == TypeOK /\ Progress /\ Driver => Progress'
<1> SUFFICES ASSUME TypeOK, Progress, Driver PROVE Progress'
  OBVIOUS
<1> USE DEF Progress, DoorbellKept, Intact, CleanCall, driver, memory, status,
            device, history
<1>1. CASE ClearDescriptors
  BY <1>1 DEF ClearDescriptors, AnsweredOnce
<1>2. CASE Describe
  BY <1>2 DEF Describe, AnsweredOnce
<1>3. CASE Send
  BY <1>3 DEF Send, AnsweredOnce, Waiting
<1>4. CASE PollAgain
  BY <1>4 DEF PollAgain, AnsweredOnce, Waiting, Reported, Executed, NotExecuted
<1>5. CASE StopPolling
  BY <1>5 DEF StopPolling, Waited, Completed, AnsweredOnce, Waiting, Reported,
              Executed, NotExecuted
<1>6. CASE ClearStatus
  BY <1>6, RequestFacts
  DEF ClearStatus, AnsweredOnce, Reported, Executed, NotExecuted, TypeOK
<1>7. CASE CheckResult
  <2>1. /\ pc' = "idle" /\ waited' = waited /\ overrun' = overrun /\ call' = call
        /\ executed' = executed /\ dev' = dev /\ UNCHANGED <<doorbell, job>>
    BY <1>7 DEF CheckResult
  <2>2. ASSUME waited = "ok", ~overrun
        PROVE  ~doorbell /\ AnsweredOnce'
    <3>1. ~doorbell /\ Reported /\ (call.op = "write" => host[call.reg] = call.val)
      BY <1>7, <2>2 DEF CheckResult
    <3>2. ASSUME Executed, result' = "ok", call # Nop
          PROVE  host'[call.reg] = dev[call.reg]
      BY <1>7, <3>1, <3>2, CheckedData
    <3>3. Executed => result' = "ok" /\ executed = 1
      BY <1>7 DEF CheckResult, Executed, TargetFailed, ParsedStatus
    <3>4. NotExecuted => result' # "ok" /\ executed = 0
      BY <1>7, KindsApart DEF CheckResult, NotExecuted, TargetFailed, ParsedStatus, TypeOK
    <3> QED BY <2>1, <3>1, <3>2, <3>3, <3>4 DEF AnsweredOnce, Reported
  <2> QED BY <2>1, <2>2 DEF AnsweredOnce
<1> QED BY <1>1, <1>2, <1>3, <1>4, <1>5, <1>6, <1>7 DEF Driver

LEMMA AnswerProgress ==
  ASSUME Answers \subseteq HonestAnswers, TypeOK, Progress,
         NEW a \in Answers, NEW does \in BOOLEAN, Answer(a, does)
  PROVE  Progress'
<1>a. a \in {"refused", "check"} => ~does
  BY Zenon DEF Answer
<1>1. /\ job = "working" /\ job' = "answered" /\ doorbell /\ doorbell' = doorbell
      /\ UNCHANGED <<pc, call, waited, result, req, overrun>>
  BY DEF Answer, Progress, DoorbellKept, driver, status
<1>2. ASSUME pc = "idle", waited = "ok", ~overrun
      PROVE  FALSE
  BY <1>1, <1>2 DEF Progress, CleanCall
<1>3. ASSUME ~overrun, pc = "poll"
      PROVE  Reported' /\ (call.op = "write" => host'[call.reg] = call.val)
  <2>1. jobReq = call /\ jobOwn /\ executed = 0 /\ req = call
    BY <1>1, <1>3 DEF Progress, CleanCall, Waiting
  <2>2. call.op = "write" => host'[call.reg] = call.val
    BY <1>3, <2>1 DEF Answer, Execute, Progress, CleanCall, Intact
  <2>3. CASE a = "done"
    <3>1. does /\ executed' = 1 /\ ocs' = "success"
      BY <2>1, <2>3 DEF Answer, Execute
    <3>2. ~rsp'.failed /\ rsp'.status = "good"
      BY <2>3 DEF Answer
    <3>3. call.op = "write" => dev'[call.reg] = call.val
      BY <2>1, <3>1, RequestFacts DEF Answer, Execute, TypeOK
    <3>4. ASSUME call.op = "read", IsQuery(call)
          PROVE  rsp'.type = "query" /\ rsp'.val = dev'[call.reg]
      <4>1. dev' = dev
        BY <2>1, <3>4 DEF Answer, Execute
      <4>2. rsp'.val = dev[call.reg]
        BY <2>1, <2>3, <3>1, <3>4 DEF Answer
      <4>3. rsp'.type = "query"
        BY <2>1, <2>3, <3>4 DEF Answer, ResponseType, IsQuery
      <4> QED BY <4>1, <4>2, <4>3
    <3>5. ASSUME call.op = "read", IsCommand(call)
          PROVE  host'[call.reg] = dev'[call.reg]
      BY <2>1, <3>1, <3>5, RequestFacts DEF Answer, Execute, TypeOK
    <3> QED BY <1>1, <2>2, <3>1, <3>2, <3>3, <3>4, <3>5
        DEF Reported, Executed, IsQuery, IsCommand
  <2>4. CASE a = "refused"
    <3>1. ~does
      BY <1>a, <2>4
    <3>2. executed' = 0
      BY <2>1, <3>1 DEF Answer, Execute
    <3>3. ocs' = "error"
      BY <2>4 DEF Answer
    <3>4. rsp'.failed
      BY <2>4 DEF Answer
    <3> QED BY <1>1, <2>2, <3>2, <3>3, <3>4 DEF Reported, NotExecuted
  <2>5. CASE a = "check"
    <3>1. ~does
      BY <1>a, <2>5
    <3>2. executed' = 0
      BY <2>1, <3>1 DEF Answer, Execute
    <3>3. ocs' = "success" /\ rsp'.status = "check"
      BY <2>5 DEF Answer
    <3>4. IsCommand(call)
      BY <2>1, <2>5 DEF Answer
    <3> QED BY <1>1, <2>2, <3>2, <3>3, <3>4
        DEF Reported, NotExecuted, IsCommand
  <2> QED BY <2>2, <2>3, <2>4, <2>5 DEF HonestAnswers
<1> QED
  BY <1>1, <1>2, <1>3
  DEF Progress, DoorbellKept, AnsweredOnce, CleanCall, Intact, Waiting, TypeOK

LEMMA DeviceProgress ==
  ASSUME Answers \subseteq HonestAnswers, TypeOK, Progress, Device
  PROVE  Progress'
<1> USE DEF Progress, DoorbellKept, AnsweredOnce, CleanCall, Intact, Waiting,
            driver, memory, status, history
<1>1. CASE Fetch
  BY <1>1 DEF Fetch
<1>2. CASE ClearDoorbell
  BY <1>2 DEF ClearDoorbell, Reported, Executed, NotExecuted
<1>3. CASE RaiseInterrupt
  BY <1>3 DEF RaiseInterrupt, Reported, Executed, NotExecuted
<1>4. CASE FatalError
  BY <1>4 DEF FatalError, device, Reported, Executed, NotExecuted
<1>5. CASE \E a \in Answers, does \in BOOLEAN : Answer(a, does)
  BY <1>5, AnswerProgress
<1> QED BY <1>1, <1>2, <1>3, <1>4, <1>5 DEF Device

LEMMA StepProgress ==
  ASSUME Answers \subseteq HonestAnswers, TypeOK, Progress, [Next]_vars
  PROVE  Progress'
<1>1. CASE Driver
  BY <1>1, DriverProgress
<1>2. CASE Device
  BY <1>2, DeviceProgress
<1>3. CASE \E r \in Requests : Begin(r)
  BY <1>3, BeginProgress
<1>4. CASE UNCHANGED vars
  BY <1>4
  DEF vars, driver, memory, status, device, history, Progress, DoorbellKept,
      AnsweredOnce, CleanCall, Intact, Waiting, Reported, Executed, NotExecuted
<1> QED BY <1>1, <1>2, <1>3, <1>4 DEF Next

(* Whatever calls were given up before, a call that found the doorbell      *)
(* clear and did not time out reports its own request, executed once, if    *)
(* the device reports its failures in one of the ways the driver looks for. *)
THEOREM CallsAnsweredOnce ==
  ASSUME Answers \subseteq HonestAnswers
  PROVE  Spec => []AnsweredOnce
<1>1. Init => TypeOK /\ Progress
  BY InitType, InitProgress
<1>2. TypeOK /\ Progress /\ [Next]_vars => TypeOK' /\ Progress'
  BY StepType, StepProgress
<1>3. TypeOK /\ Progress => AnsweredOnce
  BY DEF Progress
<1> QED BY <1>1, <1>2, <1>3, PTL DEF Spec

===============================================================================
