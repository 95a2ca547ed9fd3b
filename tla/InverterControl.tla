--------------------------- MODULE InverterControl ---------------------------
(***************************************************************************)
(* server/main.c: the MODBUS thread, the console (main thread) and the     *)
(* request callbacks that the TCP client threads run, around the status    *)
(* and flag variables they share without a lock, and around the inverter's *)
(* three holding registers, which only messages can reach.                 *)
(*                                                                         *)
(* One step of the MODBUS thread is the code between two register          *)
(* transactions or two accesses to shared data.  Every transaction may     *)
(* fail; the number of failures (and of changes made at the inverter's own *)
(* panel) in a behaviour is bounded by MaxFaults.                          *)
(***************************************************************************)
EXTENDS OffPeakWindow

CONSTANTS
    Clients,            \* connected remote clients, one thread each
    ClientRequests,     \* the requests they make, of Requests
    ConsoleRequests,    \* the requests typed at the console: g, b, f
    ManualAmps,         \* numbers typed after a
    MayQuit,            \* TRUE iff q may be typed
    Times,              \* the times of day <<hour, minute>> at which a pass starts
    PanelValues,        \* values found in or dialled into each register
    MaxFaults,          \* bound on failures and panel changes
    CheckModeTimeout,   \* CHECK_MODE_TIMEOUT
    MaxPassTime         \* the most time units one pass of PROCESS takes

Requests  == {"Grid", "Batts", "Boost"}
Registers == {"CFG_MODE", "MAX_UTIL_AMPS", "UTIL_END_HOUR"}
(* The amps are the console's as well.                                      *)
Determined == {"CFG_MODE", "UTIL_END_HOUR"}

ASSUME ConstantsAssumption ==
    /\ ClientRequests \subseteq Requests
    /\ ConsoleRequests \subseteq Requests
    /\ ManualAmps \subseteq 1..80
    /\ MayQuit \in BOOLEAN
    /\ Times \subseteq Hours \X Minutes
    /\ PanelValues \in [Registers -> SUBSET Nat]
    /\ MaxFaults \in Nat

(* Why CHECK_MODE_TIMEOUT has to be as long as it is: see FreshReadback.    *)
ASSUME TimeoutAssumption ==
    /\ CheckModeTimeout \in Nat
    /\ MaxPassTime \in 0..CheckModeTimeout

GW_CFG_MODE_BATTS         == 0
GW_CFG_MODE_GRID          == 2
GW_CFG_UTIL_TIME_ANY_TIME == 0
GW_CFG_UTIL_TIME_OFFPEAK  == 4
(* Mutant: the total instead of the utility maximum of the inverter.        *)
TotalAmpsMax              == 100
GW_CFG_UTIL_AMPS_MAX      == 80
GW_CFG_UTIL_AMPS_MOD      == 40
GW_HREG_MAX_UTIL_AMPS     == 38

SystemStates == {"PEAK", "BYPASS", "OFF_PEAK", "BOOST"}
Charging     == {"OFF_PEAK", "BOOST"}

StateFor == [Grid |-> "BYPASS", Batts |-> "PEAK", Boost |-> "BOOST"]

utils_GetOffpeakChargingAmps == GW_CFG_UTIL_AMPS_MOD

(* The value the code writes to register r, or wants to read there, while   *)
(* the system state is s.                                                   *)
Wanted(r, s) ==
    [CFG_MODE      |-> IF s = "PEAK" THEN GW_CFG_MODE_BATTS ELSE GW_CFG_MODE_GRID,
     UTIL_END_HOUR |-> IF s \in Charging THEN GW_CFG_UTIL_TIME_ANY_TIME
                                         ELSE GW_CFG_UTIL_TIME_OFFPEAK,
     MAX_UTIL_AMPS |-> IF s = "BOOST" THEN GW_CFG_UTIL_AMPS_MAX
                                      ELSE utils_GetOffpeakChargingAmps][r]

VARIABLES
    (* shared by the threads of the program *)
    modbusState,    \* INIT, PROCESS, DEINIT or DIE
    ctx,            \* the libmodbus context: null, created or connected
    nSystemState,
    nChargeCurrent,
    manual,         \* bManualSwitchTo{Grid,Batts,Boost}
    age,            \* time(NULL) - slModeWriteTime, up to CheckModeTimeout + 1
    (* the MODBUS thread *)
    pc,
    ret,            \* where to go on after a sequence of register writes
    todo,           \* the registers it has still to write
    inPeak,         \* IsPeak(lHour, lMin) of this pass
    readOk,         \* no read of this pass has failed
    seen,           \* nInverterMode, nChargeAmps and nEndHour, as read back
    busy,           \* time units since this pass began
    (* the console and the remote clients *)
    bRunning,
    keyed,          \* the amps the console is writing, 0 if none
    lent,           \* the context that write was given: none, null, current
                    \* (it is ctx still) or freed
    handler,        \* the request callback a client's thread is in, and where
    crashed,        \* the use of a freed context has ended the process
    (* the inverter *)
    reg,            \* its holding registers
    dirty,          \* history: of the registers a state determines, those whose
                    \* last write was lost, that were dialled at the panel, or
                    \* not written since start-up
    faults          \* failures and panel changes so far

locals    == <<ret, todo, inPeak, readOk, seen, busy>>
lifecycle == <<modbusState, ctx>>
control   == <<nSystemState, nChargeCurrent, manual, age>>
console   == <<bRunning, keyed, lent>>
users     == <<console, handler, crashed>>
inverter  == <<reg, dirty, faults>>
vars      == <<pc, locals, lifecycle, control, users, inverter>>

ReadPoints    == {"input"} \cup Registers
ProcessPoints == {"sample", "decide", "gate", "window", "check", "checkEnd",
                  "checkAmps", "write", "writeAmps"} \cup ReadPoints \cup Requests
Points        == {"top", "init", "new", "connect", "reinit", "deinit", "done"}
                 \cup ProcessPoints

NoCallback == [request |-> "none", at |-> "none"]

Init ==
    /\ modbusState = "INIT" /\ ctx = "null"
    /\ nSystemState = "PEAK" /\ nChargeCurrent = 0
    /\ manual = [k \in Requests |-> FALSE]
    /\ age = CheckModeTimeout + 1
    /\ pc = "top" /\ ret = "top" /\ todo = {}
    /\ inPeak \in BOOLEAN /\ readOk = TRUE /\ busy = 0
    /\ seen = [r \in Registers |-> 0]
    /\ bRunning = TRUE /\ keyed = 0 /\ lent = "none" /\ crashed = FALSE
    /\ handler = [c \in Clients |-> NoCallback]
    /\ reg \in [Registers -> UNION {PanelValues[r] : r \in Registers}]
    /\ \A r \in Registers : reg[r] \in PanelValues[r]
    /\ dirty = Determined
    /\ faults = 0

(* A transaction fails, and is one of the MaxFaults that do.                *)
Fault == faults < MaxFaults /\ faults' = faults + 1

-----------------------------------------------------------------------------
(* The MODBUS thread outside PROCESS.                                       *)

(* Mutant: the switch has no case for DEINIT.                               *)
DispatchNoDeinit ==
    /\ pc = "top"
    /\ pc' = [INIT |-> "init", PROCESS |-> "sample",
              DEINIT |-> "top", DIE |-> "done"][modbusState]
    /\ UNCHANGED <<locals, lifecycle, control, users, inverter>>

(* while(modbusState != DIE) switch(modbusState)                            *)
Dispatch ==
    /\ pc = "top"
    /\ pc' = [INIT |-> "init", PROCESS |-> "sample",
              DEINIT |-> "deinit", DIE |-> "done"][modbusState]
    /\ UNCHANGED <<locals, lifecycle, control, users, inverter>>

(* INIT announces PROCESS before it has a context.                          *)
AnnounceProcess ==
    /\ pc = "init"
    /\ pc' = "new"
    /\ modbusState' = "PROCESS"
    /\ UNCHANGED <<locals, ctx, control, users, inverter>>

NewContext ==
    /\ pc = "new"
    /\ \/ pc' = "connect" /\ ctx' = "created" /\ UNCHANGED faults
       \/ pc' = "reinit" /\ ctx' = "null" /\ Fault
    /\ UNCHANGED <<locals, modbusState, control, users, reg, dirty>>

Connect ==
    /\ pc = "connect"
    /\ \/ pc' = "top" /\ ctx' = "connected" /\ UNCHANGED faults
       \/ pc' = "reinit" /\ UNCHANGED ctx /\ Fault
    /\ UNCHANGED <<locals, modbusState, control, users, reg, dirty>>

(* modbus_free: whoever was given the context holds a dangling pointer.     *)
Free == ctx' = "null" /\ lent' = IF lent = "current" THEN "freed" ELSE lent

(* Mutant: reinit() leaves modbusState as INIT announced it.                *)
ReinitInPlace ==
    /\ pc = "reinit"
    /\ pc' = "top"
    /\ Free
    /\ UNCHANGED <<locals, modbusState, control, bRunning, keyed, handler, crashed>>
    /\ UNCHANGED inverter

(* reinit() assigns modbusState whatever another thread has put there.      *)
Reinit ==
    /\ pc = "reinit"
    /\ pc' = "top"
    /\ Free
    /\ modbusState' = "INIT"
    /\ UNCHANGED <<locals, control, bRunning, keyed, handler, crashed, inverter>>

(* Mutant: the thread dies without freeing the context.                     *)
DeinitKeepContext ==
    /\ pc = "deinit"
    /\ pc' = "top"
    /\ modbusState' = "DIE"
    /\ UNCHANGED <<locals, ctx, control, users, inverter>>

Deinit ==
    /\ pc = "deinit"
    /\ pc' = "top"
    /\ Free
    /\ modbusState' = "DIE"
    /\ UNCHANGED <<locals, control, bRunning, keyed, handler, crashed, inverter>>

-----------------------------------------------------------------------------
(* One pass of PROCESS: look at the clock and read everything back.         *)

SampleTime ==
    /\ pc = "sample"
    /\ pc' = "input"
    /\ \E t \in Times : inPeak' = IsPeak(t[1], t[2])
    /\ readOk' = TRUE
    /\ busy' = 0
    /\ UNCHANGED <<ret, todo, seen, lifecycle, control, users, inverter>>

(* The eight blocks of input registers; the first error ends the loop but   *)
(* not the pass.  Their values are telemetry and decide nothing.            *)
ReadInputRegisters ==
    /\ pc = "input"
    /\ pc' = "CFG_MODE"
    /\ \/ UNCHANGED <<readOk, faults>>
       \/ readOk' = FALSE /\ Fault
    /\ UNCHANGED <<ret, todo, inPeak, seen, busy>>
    /\ UNCHANGED <<lifecycle, control, users, reg, dirty>>

AfterRead == [CFG_MODE |-> "MAX_UTIL_AMPS", MAX_UTIL_AMPS |-> "UTIL_END_HOUR",
              UTIL_END_HOUR |-> "decide"]

(* Each holding register is read by itself; a failure leaves the previous   *)
(* value of its global in place and the next register is read all the same. *)
ReadHoldingRegister(r) ==
    /\ pc = r
    /\ pc' = AfterRead[r]
    /\ \/ seen' = [seen EXCEPT ![r] = reg[r]] /\ UNCHANGED <<readOk, faults>>
       \/ readOk' = FALSE /\ Fault /\ UNCHANGED seen
    /\ UNCHANGED <<ret, todo, inPeak, busy>>
    /\ UNCHANGED <<lifecycle, control, users, reg, dirty>>

(* Mutant: a failed read opens the device again.                            *)
DecideOnReadsAnew ==
    /\ pc = "decide"
    /\ pc' = IF readOk THEN "gate" ELSE "reinit"
    /\ UNCHANGED <<locals, lifecycle, control, users, inverter>>

(* Any failed read abandons the pass; the context is kept as it is.         *)
DecideOnReads ==
    /\ pc = "decide"
    /\ pc' = IF readOk THEN "gate" ELSE "top"
    /\ UNCHANGED <<locals, lifecycle, control, users, inverter>>

Gate ==
    /\ pc = "gate"
    /\ pc' = IF modbusState = "PROCESS" THEN "Grid" ELSE "top"
    /\ UNCHANGED <<locals, lifecycle, control, users, inverter>>

-----------------------------------------------------------------------------
(* Changing state: SwitchToPeak, SwitchToBypass, SwitchToOffPeak and        *)
(* SwitchToBoost assign first and then write two or three registers.        *)

WriteThenGo(registers, next) ==
    todo' = registers /\ pc' = "write" /\ ret' = next

(* Mutant: the time of the mode write is not recorded.                      *)
SwitchToUntimed(s, next) ==
    /\ nSystemState' = s
    /\ WriteThenGo(IF s \in Charging THEN Registers
                                     ELSE {"CFG_MODE", "UTIL_END_HOUR"}, next)
    /\ UNCHANGED <<nChargeCurrent, age>>

(* Mutant: leaving a charging state does not limit the charging times.      *)
SwitchToUnlimited(s, next) ==
    /\ nSystemState' = s
    /\ age' = 0
    /\ WriteThenGo(IF s \in Charging THEN Registers ELSE {"CFG_MODE"}, next)
    /\ UNCHANGED nChargeCurrent

SwitchTo(s, next) ==
    /\ nSystemState' = s
    /\ age' = 0
    /\ WriteThenGo(IF s \in Charging THEN Registers
                                     ELSE {"CFG_MODE", "UTIL_END_HOUR"}, next)
    /\ UNCHANGED nChargeCurrent

StayAndGo(next) ==
    pc' = next /\ UNCHANGED <<ret, todo, nSystemState, nChargeCurrent, age>>

(* A write lands or is lost; the code prints the error and goes on alike.   *)
Send(r, value) ==
    \/ /\ ctx = "connected"
       /\ reg' = [reg EXCEPT ![r] = value]
       /\ dirty' = dirty \ {r}
       /\ UNCHANGED faults
    \/ dirty' = dirty \cup ({r} \cap Determined) /\ Fault /\ UNCHANGED reg

Written(r) ==
    /\ todo' = todo \ {r}
    /\ IF todo = {r} THEN pc' = ret /\ ret' = "top"
                      ELSE pc' = "write" /\ UNCHANGED ret

WriteMode ==
    /\ pc = "write" /\ "CFG_MODE" \in todo
    /\ Send("CFG_MODE", Wanted("CFG_MODE", nSystemState))
    /\ Written("CFG_MODE")
    /\ UNCHANGED <<inPeak, readOk, seen, busy, lifecycle, control, users>>

(* LimitChargingTimes, UnlimitChargingTimes                                 *)
WriteEndHour ==
    /\ pc = "write" /\ "CFG_MODE" \notin todo /\ "UTIL_END_HOUR" \in todo
    /\ Send("UTIL_END_HOUR", Wanted("UTIL_END_HOUR", nSystemState))
    /\ Written("UTIL_END_HOUR")
    /\ UNCHANGED <<inPeak, readOk, seen, busy, lifecycle, control, users>>

(* SetOvernightAmps, SetBoostAmps: the assignment, then the write.          *)
SetChargeCurrent ==
    /\ pc = "write" /\ todo = {"MAX_UTIL_AMPS"}
    /\ pc' = "writeAmps"
    /\ nChargeCurrent' = Wanted("MAX_UTIL_AMPS", nSystemState)
    /\ UNCHANGED <<locals, lifecycle, nSystemState, manual, age, users, inverter>>

(* nChargeCurrent is read again for the write: the console may have assigned *)
(* it since, or assign it once the value has been read.                      *)
WriteAmps ==
    /\ pc = "writeAmps"
    /\ \E amps \in {Wanted("MAX_UTIL_AMPS", nSystemState), nChargeCurrent} :
          Send("MAX_UTIL_AMPS", amps)
    /\ Written("MAX_UTIL_AMPS")
    /\ UNCHANGED <<inPeak, readOk, seen, busy, lifecycle, control, users>>

-----------------------------------------------------------------------------
(* One pass of PROCESS: what the readings and the flags lead to.            *)

AfterRequest == [Grid |-> "Batts", Batts |-> "Boost", Boost |-> "window"]

(* Mutant: requests are served during off-peak too.                         *)
ServeManualAnytime(k) ==
    /\ pc = k
    /\ manual[k]
    /\ manual' = [manual EXCEPT ![k] = FALSE]
    /\ SwitchTo(StateFor[k], AfterRequest[k])
    /\ UNCHANGED <<inPeak, readOk, seen, busy, lifecycle, users, inverter>>

(* Manual switching: the three flags are tested in a fixed order, and each  *)
(* one found set is cleared and served, the later overriding the earlier.   *)
ServeManual(k) ==
    /\ pc = k
    /\ nSystemState # "OFF_PEAK" /\ manual[k]
    /\ manual' = [manual EXCEPT ![k] = FALSE]
    /\ SwitchTo(StateFor[k], AfterRequest[k])
    /\ UNCHANGED <<inPeak, readOk, seen, busy, lifecycle, users, inverter>>

SkipManual(k) ==
    /\ pc = k
    /\ nSystemState = "OFF_PEAK" \/ ~manual[k]
    /\ StayAndGo(AfterRequest[k])
    /\ UNCHANGED <<inPeak, readOk, seen, busy, manual, lifecycle, users, inverter>>

(* Mutant: off-peak is entered from PEAK only.                              *)
FollowWindowFromPeak ==
    /\ pc = "window"
    /\ \/ /\ inPeak /\ nSystemState = "OFF_PEAK"
          /\ SwitchTo("PEAK", "check")
       \/ /\ ~inPeak /\ nSystemState = "PEAK"
          /\ SwitchTo("OFF_PEAK", "check")
       \/ /\ IF inPeak THEN nSystemState # "OFF_PEAK" ELSE nSystemState # "PEAK"
          /\ StayAndGo("check")
    /\ UNCHANGED <<inPeak, readOk, seen, busy, manual, lifecycle, users, inverter>>

(* Peak/off-peak switching.                                                 *)
FollowWindow ==
    /\ pc = "window"
    /\ \/ /\ inPeak /\ nSystemState = "OFF_PEAK"
          /\ SwitchTo("PEAK", "check")
       \/ /\ ~inPeak /\ nSystemState # "OFF_PEAK"
          /\ SwitchTo("OFF_PEAK", "check")
       \/ /\ inPeak <=> (nSystemState # "OFF_PEAK")
          /\ StayAndGo("check")
    /\ UNCHANGED <<inPeak, readOk, seen, busy, manual, lifecycle, users, inverter>>

CheckDue == age > CheckModeTimeout

Mismatch(r) == seen[r] # Wanted(r, nSystemState)

(* Final state check, against what was read at the start of the pass.       *)
CheckMode ==
    /\ pc = "check"
    /\ \/ ~CheckDue /\ StayAndGo("top")
       \/ CheckDue /\ Mismatch("CFG_MODE") /\ SwitchTo(nSystemState, "checkEnd")
       \/ CheckDue /\ ~Mismatch("CFG_MODE") /\ StayAndGo("checkEnd")
    /\ UNCHANGED <<inPeak, readOk, seen, busy, manual, lifecycle, users, inverter>>

(* Mutant: only the mode is checked, not the charging times.                *)
CheckEndHourNever ==
    /\ pc = "checkEnd"
    /\ pc' = "checkAmps"
    /\ UNCHANGED <<locals, lifecycle, control, users, inverter>>

CheckEndHour ==
    /\ pc = "checkEnd"
    /\ IF Mismatch("UTIL_END_HOUR")
          THEN WriteThenGo({"UTIL_END_HOUR"}, "checkAmps")
          ELSE pc' = "checkAmps" /\ UNCHANGED <<ret, todo>>
    /\ UNCHANGED <<inPeak, readOk, seen, busy, control, lifecycle, users, inverter>>

(* The amps are compared with nChargeCurrent, which the console assigns too. *)
CheckAmps ==
    /\ pc = "checkAmps"
    /\ IF nSystemState \in Charging /\ nChargeCurrent # seen["MAX_UTIL_AMPS"]
          THEN WriteThenGo({"MAX_UTIL_AMPS"}, "top")
          ELSE pc' = "top" /\ UNCHANGED <<ret, todo>>
    /\ UNCHANGED <<inPeak, readOk, seen, busy, control, lifecycle, users, inverter>>

ModbusThread == ~crashed /\
    (\/ Dispatch \/ AnnounceProcess \/ NewContext \/ Connect \/ Reinit \/ Deinit
     \/ SampleTime \/ ReadInputRegisters \/ DecideOnReads \/ Gate
     \/ \E r \in Registers : ReadHoldingRegister(r)
     \/ \E k \in Requests : ServeManual(k) \/ SkipManual(k)
     \/ FollowWindow \/ CheckMode \/ CheckEndHour \/ CheckAmps
     \/ WriteMode \/ WriteEndHour \/ SetChargeCurrent \/ WriteAmps)

-----------------------------------------------------------------------------
(* The console.  It is not at its prompt while SetManualAmps is writing.    *)

AtPrompt == bRunning /\ keyed = 0 /\ ~crashed

(* g, b and f set their own flag and leave the other two as they are.       *)
TypeRequest(k) ==
    /\ AtPrompt
    /\ manual' = [manual EXCEPT ![k] = TRUE]
    /\ UNCHANGED <<pc, locals, lifecycle, nSystemState, nChargeCurrent, age>>
    /\ UNCHANGED <<users, inverter>>

(* a: SetManualAmps compares the amps with the address of the register,      *)
(* assigns them and calls modbus_write_register with the context there is.   *)
(* (ctx changes only while the thread does not look at nChargeCurrent, so    *)
(* the assignment and the reading of ctx are one step.)                     *)
TypeAmps(n) ==
    /\ AtPrompt
    /\ n <= GW_HREG_MAX_UTIL_AMPS
    /\ nChargeCurrent' = n
    /\ keyed' = n
    /\ lent' = IF ctx = "null" THEN "null" ELSE "current"
    /\ UNCHANGED <<pc, locals, lifecycle, nSystemState, manual, age>>
    /\ UNCHANGED <<bRunning, handler, crashed, inverter>>

(* The write itself: without a connected context it fails.  With one freed   *)
(* meanwhile its outcome is undefined: it may also reach the inverter, when  *)
(* a new context lies where the old one was.                                *)
WriteManualAmps ==
    /\ keyed # 0
    /\ \/ /\ lent # "null"
          /\ \E amps \in {keyed, nChargeCurrent} : Send("MAX_UTIL_AMPS", amps)
       \/ /\ lent # "current" \/ ctx # "connected"
          /\ UNCHANGED inverter
    /\ keyed' = 0 /\ lent' = "none"
    /\ UNCHANGED <<pc, locals, lifecycle, control, bRunning, handler, crashed>>

(* Or the use of the freed context ends the process.                        *)
CrashOnFreedContext ==
    /\ lent = "freed"
    /\ crashed' = TRUE
    /\ keyed' = 0 /\ lent' = "none"
    /\ UNCHANGED <<pc, locals, lifecycle, control, bRunning, handler, inverter>>

(* q: then the main thread only waits for the MODBUS thread to return.      *)
Quit ==
    /\ MayQuit /\ AtPrompt
    /\ bRunning' = FALSE
    /\ modbusState' = "DEINIT"
    /\ UNCHANGED <<pc, locals, ctx, control, keyed, lent, handler, crashed, inverter>>

-----------------------------------------------------------------------------
(* The callbacks _tcpserver_SetGrid, _SetBatts and _SetBoost, each run by   *)
(* its client's thread: the three flags are assigned one after another.     *)

AfterFlag == [Grid |-> "Batts", Batts |-> "Boost", Boost |-> "none"]

CallBack(c, k) ==
    /\ handler[c] = NoCallback /\ ~crashed
    /\ handler' = [handler EXCEPT ![c] = [request |-> k, at |-> "Grid"]]
    /\ UNCHANGED <<pc, locals, lifecycle, control, console, crashed, inverter>>

(* Mutant: a callback sets its own flag, like the console, and clears none. *)
AssignFlagOnly(c) ==
    LET k == handler[c].at IN
    /\ k # "none" /\ ~crashed
    /\ manual' = [manual EXCEPT ![k] = @ \/ k = handler[c].request]
    /\ handler' = [handler EXCEPT ![c] =
                     IF k = "Boost" THEN NoCallback
                     ELSE [request |-> handler[c].request, at |-> AfterFlag[k]]]
    /\ UNCHANGED <<pc, locals, lifecycle, nSystemState, nChargeCurrent, age>>
    /\ UNCHANGED <<console, crashed, inverter>>

(* Mutant: every callback clears the boost flag, SetBoost included.         *)
AssignFlagNoBoost(c) ==
    LET k == handler[c].at IN
    /\ k # "none" /\ ~crashed
    /\ manual' = [manual EXCEPT ![k] = (k = handler[c].request /\ k # "Boost")]
    /\ handler' = [handler EXCEPT ![c] =
                     IF k = "Boost" THEN NoCallback
                     ELSE [request |-> handler[c].request, at |-> AfterFlag[k]]]
    /\ UNCHANGED <<pc, locals, lifecycle, nSystemState, nChargeCurrent, age>>
    /\ UNCHANGED <<console, crashed, inverter>>

AssignFlag(c) ==
    LET k == handler[c].at IN
    /\ k # "none" /\ ~crashed
    /\ manual' = [manual EXCEPT ![k] = (k = handler[c].request)]
    /\ handler' = [handler EXCEPT ![c] =
                     IF k = "Boost" THEN NoCallback
                     ELSE [request |-> handler[c].request, at |-> AfterFlag[k]]]
    /\ UNCHANGED <<pc, locals, lifecycle, nSystemState, nChargeCurrent, age>>
    /\ UNCHANGED <<console, crashed, inverter>>

-----------------------------------------------------------------------------
(* Time, and the inverter's panel.  A pass of PROCESS does not outlast      *)
(* MaxPassTime.                                                             *)

Tick ==
    /\ age <= CheckModeTimeout
    /\ pc \in ProcessPoints => busy < MaxPassTime
    /\ age' = age + 1
    /\ busy' = IF pc \in ProcessPoints THEN busy + 1 ELSE busy
    /\ UNCHANGED <<pc, ret, todo, inPeak, readOk, seen, lifecycle>>
    /\ UNCHANGED <<nSystemState, nChargeCurrent, manual, users, inverter>>

DialPanel(r) ==
    /\ Fault
    /\ \E v \in PanelValues[r] : reg' = [reg EXCEPT ![r] = v]
    /\ dirty' = dirty \cup ({r} \cap Determined)
    /\ UNCHANGED <<pc, locals, lifecycle, control, users>>

Next ==
    \/ ModbusThread
    \/ \E k \in ConsoleRequests : TypeRequest(k)
    \/ \E n \in ManualAmps : TypeAmps(n)
    \/ WriteManualAmps \/ CrashOnFreedContext \/ Quit
    \/ \E c \in Clients : AssignFlag(c) \/ \E k \in ClientRequests : CallBack(c, k)
    \/ Tick
    \/ \E r \in Registers : DialPanel(r)

(* A thread that can step does; nobody has to type, call or fail.           *)
Fairness ==
    /\ WF_vars(ModbusThread)
    /\ WF_vars(WriteManualAmps)
    /\ \A c \in Clients : WF_vars(AssignFlag(c))
    /\ WF_vars(Tick)

Spec == Init /\ [][Next]_vars /\ Fairness
-----------------------------------------------------------------------------
(* Properties.                                                              *)

TypeOK ==
    /\ modbusState \in {"INIT", "PROCESS", "DEINIT", "DIE"}
    /\ ctx \in {"null", "created", "connected"}
    /\ nSystemState \in SystemStates
    /\ nChargeCurrent \in 0..80
    /\ manual \in [Requests -> BOOLEAN]
    /\ age \in 0..(CheckModeTimeout + 1)
    /\ pc \in Points
    /\ ret \in {"top", "check", "checkEnd", "checkAmps", "Batts", "Boost", "window"}
    /\ todo \in SUBSET Registers
    /\ inPeak \in BOOLEAN /\ readOk \in BOOLEAN
    /\ seen \in [Registers -> Nat]
    /\ busy \in 0..MaxPassTime
    /\ bRunning \in BOOLEAN
    /\ keyed \in 0..80
    /\ lent \in {"none", "null", "current", "freed"}
    /\ crashed \in BOOLEAN
    /\ handler \in [Clients -> [request : Requests \cup {"none"},
                                at : Requests \cup {"none"}]]
    /\ reg \in [Registers -> Nat]
    /\ dirty \in SUBSET Determined
    /\ faults \in 0..MaxFaults

(* Every transaction of the MODBUS thread uses a connected context, although *)
(* modbusState says PROCESS before there is one and the console may assign   *)
(* it at any moment; and once the thread has returned the context is freed.  *)
ContextWhenUsed ==
    /\ pc \in ProcessPoints => ctx = "connected"
    /\ pc = "done" => ctx = "null" /\ ~bRunning

(* Unless something went wrong with it, a register the state determines has *)
(* the state's value whenever no write to it is outstanding.  In particular  *)
(* charging at any hour is enabled in OFF_PEAK and BOOST only.               *)
RegistersFollowState ==
    \A r \in Determined :
        \/ r \in dirty
        \/ pc = "write" /\ r \in todo
        \/ reg[r] = Wanted(r, nSystemState)

(* The final check acts on the state that the clock of this pass requires:   *)
(* a manual request served in the same pass never outlives the window test.  *)
StateFollowsWindow ==
    pc \in {"check", "checkEnd", "checkAmps"} =>
        (nSystemState = "OFF_PEAK" <=> ~inPeak)

(* The purpose of CHECK_MODE_TIMEOUT: when the check compares the mode it    *)
(* read with the one it wants, the reading is not older than the last        *)
(* change of mode.  So a register that is as written is never written again. *)
FreshReadback ==
    pc = "check" /\ CheckDue /\ Mismatch("CFG_MODE") =>
        "CFG_MODE" \in dirty

(* The three flags and the state behave as ModeControl promises.             *)
Abstract == INSTANCE ModeControl WITH
    state   <- nSystemState,
    offPeak <- ~inPeak,
    pending <- {k \in Requests : manual[k]}

ImplementsModeControl == Abstract!Spec

Settled ==
    /\ \A r \in Determined : reg[r] = Wanted(r, nSystemState)
    /\ nSystemState \in Charging => reg["MAX_UTIL_AMPS"] = nChargeCurrent

(* After the last failure or panel change the inverter is brought into line  *)
(* with the state and, except while a change of state is being written,      *)
(* stays so, whatever users request meanwhile.                               *)
EventuallySettled == <>[](pc \in {"write", "writeAmps"} \/ Settled \/ pc = "done")

(* The callbacks clear the two flags they do not set so that the newest      *)
(* request replaces the others: between callbacks of one client no two       *)
(* requests are pending.                                                     *)
OneRequestPending ==
    (\A c \in Clients : handler[c] = NoCallback) =>
        \A j, k \in Requests : manual[j] /\ manual[k] => j = k

(* The newest request is served: once a callback has begun, the controller    *)
(* reaches the state it asks for (though an older flag may be served after    *)
(* it), unless a callback of another kind begins, or the controller has been *)
(* told to end, or has crashed.                                             *)
RequestActedOn ==
    \A k \in ClientRequests :
        (\E c \in Clients : handler[c] = [request |-> k, at |-> "Grid"]) ~>
            \/ nSystemState = StateFor[k]
            \/ \E c \in Clients : handler[c].at = "Grid" /\ handler[c].request # k
            \/ ~bRunning \/ crashed

(* The console uses the context behind the MODBUS thread's back.  Once it is  *)
(* connected, no failed pass and no quit frees it under a write of the       *)
(* console: only amps typed while the thread was still trying to connect can *)
(* meet a freed context.                                                    *)
ConsoleKeepsContext ==
    [][lent = "current" /\ ctx = "connected" => ctx' = "connected"]_vars

(* A quit that arrives when the inverter is connected is never taken back:    *)
(* reinit(), which overwrites DEINIT, cannot come any more, and the context  *)
(* stays what the pass is using until the thread frees it and dies.          *)
QuitStands ==
    [][modbusState = "DEINIT" /\ ctx = "connected" =>
          \/ UNCHANGED <<modbusState, ctx>>
          \/ modbusState' = "DIE" /\ ctx' = "null"]_vars

(* A quit that arrives when the inverter is connected ends the MODBUS        *)
(* thread: nothing overwrites DEINIT any more.                               *)
QuitFromProcess ==
    ~bRunning /\ ctx = "connected" /\ modbusState = "DEINIT" ~> pc = "done"

(* The console's "q - Quit" ends the MODBUS thread, for which main waits.    *)
QuitTerminates == ~bRunning ~> pc = "done"

(* "State changes will override it again": nothing but a change of state     *)
(* (SwitchTo, which makes age 0) replaces the amps typed at the console.     *)
OverrideKept ==
    [][nChargeCurrent' # nChargeCurrent => keyed' # keyed \/ age <= busy]_vars
==============================================================================
