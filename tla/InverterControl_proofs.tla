------------------------ MODULE InverterControl_proofs ------------------------
(***************************************************************************)
(* Proofs about InverterControl, for every set of clients, every set of    *)
(* times, every bound on faults and every timeout that is not shorter than *)
(* a pass.                                                                 *)
(***************************************************************************)
EXTENDS InverterControl, TLAPS

(* The strengthening of the safety properties that is inductive, in parts.  *)

(* A sequence of register writes is under way exactly when something is     *)
(* left to write, the amps last.                                            *)
WritesInv ==
    /\ pc = "write" => todo # {}
    /\ pc = "writeAmps" => todo = {"MAX_UTIL_AMPS"}
    /\ pc \notin {"write", "writeAmps"} => todo = {}

(* Where the thread is, what modbusState says and what context there is.    *)
ContextInv ==
    /\ pc \in ProcessPoints => ctx = "connected" /\ modbusState \in {"PROCESS", "DEINIT"}
    /\ pc = "top" /\ modbusState = "PROCESS" => ctx = "connected"
    /\ pc = "deinit" => modbusState = "DEINIT"
    /\ modbusState = "DEINIT" => ~bRunning
    /\ modbusState = "DIE" => pc \in {"top", "done"} /\ ctx = "null" /\ ~bRunning
    /\ pc = "done" => modbusState = "DIE"

RegistersInv ==
    \A r \in Determined :
        r \in dirty \/ r \in todo \/ reg[r] = Wanted(r, nSystemState)

(* From the window test to the end of the pass the state fits the clock.    *)
WindowInv ==
    \/ pc \in {"check", "checkEnd", "checkAmps"}
    \/ pc \in {"write", "writeAmps"} /\ ret \in {"check", "checkEnd", "checkAmps"}
    => (nSystemState = "OFF_PEAK" <=> ~inPeak)

(* In a pass that has read the mode, either the state changed in this very  *)
(* pass or the reading is what the state wants.                             *)
ReadbackInv ==
    /\ pc \in ProcessPoints \ ({"sample", "decide"} \cup ReadPoints) => readOk
    /\ "CFG_MODE" \in todo => age <= busy
    /\ pc \in ProcessPoints \ {"sample", "input", "CFG_MODE"} /\ readOk =>
          \/ age <= busy
          \/ "CFG_MODE" \in dirty
          \/ seen["CFG_MODE"] = Wanted("CFG_MODE", nSystemState)

IInv == TypeOK /\ WritesInv /\ ContextInv /\ RegistersInv /\ WindowInv /\ ReadbackInv

-----------------------------------------------------------------------------
(* What the code writes is a register value, and the amps are legal amps.   *)
LEMMA WantedType ==
    ASSUME NEW s \in SystemStates
    PROVE  /\ \A r \in Registers : Wanted(r, s) \in Nat
           /\ Wanted("MAX_UTIL_AMPS", s) \in 0..80
BY DEF Wanted, Registers, SystemStates, Charging, utils_GetOffpeakChargingAmps,
       GW_CFG_MODE_BATTS, GW_CFG_MODE_GRID, GW_CFG_UTIL_TIME_ANY_TIME,
       GW_CFG_UTIL_TIME_OFFPEAK, GW_CFG_UTIL_AMPS_MAX, GW_CFG_UTIL_AMPS_MOD

(* What a write leaves behind.                                              *)
LEMMA SendType ==
    ASSUME TypeOK, NEW r \in Registers, NEW value \in Nat, Send(r, value)
    PROVE  /\ reg' \in [Registers -> Nat]
           /\ dirty' \in SUBSET Determined
           /\ faults' \in 0..MaxFaults
<1> USE DEF TypeOK, Fault, Determined, Registers
<1>1. CASE ctx = "connected" /\ reg' = [reg EXCEPT ![r] = value] /\ dirty' = dirty \ {r} /\ UNCHANGED faults
  BY <1>1
<1>2. CASE dirty' = dirty \cup ({r} \cap {"CFG_MODE", "UTIL_END_HOUR"}) /\ Fault /\ UNCHANGED reg
  BY <1>2, ConstantsAssumption
<1> QED
  BY <1>1, <1>2 DEF Send

(* Every step keeps the types. *)
LEMMA TypeStep ==
    ASSUME TypeOK, WritesInv, [Next]_vars
    PROVE  TypeOK'
<1> USE DEF TypeOK, locals, lifecycle, control, users, console, inverter, Determined, Free, Points, ProcessPoints, ReadPoints, Registers, Requests, SystemStates, Charging
<1>1. CASE Dispatch
    BY <1>1, ConstantsAssumption, TimeoutAssumption, WantedType DEF Dispatch
<1>2. CASE AnnounceProcess
    BY <1>2, ConstantsAssumption, TimeoutAssumption, WantedType DEF AnnounceProcess
<1>3. CASE NewContext
    BY <1>3, ConstantsAssumption, TimeoutAssumption, WantedType DEF NewContext, Fault
<1>4. CASE Connect
    BY <1>4, ConstantsAssumption, TimeoutAssumption, WantedType DEF Connect, Fault
<1>5. CASE Reinit
    BY <1>5, ConstantsAssumption, TimeoutAssumption, WantedType DEF Reinit
<1>6. CASE Deinit
    BY <1>6, ConstantsAssumption, TimeoutAssumption, WantedType DEF Deinit
<1>7. CASE SampleTime
    BY <1>7, ConstantsAssumption, TimeoutAssumption, WantedType DEF SampleTime, IsPeak
<1>8. CASE ReadInputRegisters
  <2>1. CASE UNCHANGED <<readOk, faults>>
    BY <1>8, <2>1 DEF ReadInputRegisters
  <2>2. CASE readOk' = FALSE /\ Fault
    <3>1. readOk' \in BOOLEAN
      BY <2>2, Zenon
    <3> QED BY <1>8, <2>2, <3>1, ConstantsAssumption DEF ReadInputRegisters, Fault
  <2> QED BY <1>8, <2>1, <2>2 DEF ReadInputRegisters
<1>9. CASE DecideOnReads
    BY <1>9, ConstantsAssumption, TimeoutAssumption, WantedType DEF DecideOnReads
<1>10. CASE Gate
    BY <1>10, ConstantsAssumption, TimeoutAssumption, WantedType DEF Gate
<1>11. ASSUME NEW r \in Registers, ReadHoldingRegister(r) PROVE TypeOK'
  <2>1. CASE readOk' = readOk
    BY <1>11, <2>1, ConstantsAssumption DEF ReadHoldingRegister, Fault, AfterRead
  <2>2. CASE readOk' = FALSE /\ Fault /\ UNCHANGED seen
    <3>1. readOk' \in BOOLEAN
      BY <2>2, Zenon
    <3> QED BY <1>11, <2>2, <3>1, ConstantsAssumption
         DEF ReadHoldingRegister, Fault, AfterRead
  <2> QED BY <1>11, <2>1, <2>2 DEF ReadHoldingRegister
<1>12. ASSUME NEW k \in Requests, ServeManual(k) PROVE TypeOK'
    BY <1>12, ConstantsAssumption, TimeoutAssumption, WantedType DEF ServeManual, SwitchTo, WriteThenGo, AfterRequest, StateFor
<1>13. ASSUME NEW k \in Requests, SkipManual(k) PROVE TypeOK'
    BY <1>13, ConstantsAssumption, TimeoutAssumption, WantedType DEF SkipManual, StayAndGo, AfterRequest
<1>14. CASE FollowWindow
  <2>1. CASE SwitchTo("PEAK", "check")
    BY <1>14, <2>1, TimeoutAssumption DEF FollowWindow, SwitchTo, WriteThenGo
  <2>2. CASE SwitchTo("OFF_PEAK", "check")
    BY <1>14, <2>2, TimeoutAssumption DEF FollowWindow, SwitchTo, WriteThenGo
  <2>3. CASE StayAndGo("check")
    BY <1>14, <2>3 DEF FollowWindow, StayAndGo
  <2> QED BY <1>14, <2>1, <2>2, <2>3 DEF FollowWindow
<1>15. CASE CheckMode
  <2>1. CASE SwitchTo(nSystemState, "checkEnd")
    BY <1>15, <2>1, TimeoutAssumption DEF CheckMode, SwitchTo, WriteThenGo
  <2>2. CASE StayAndGo("top") \/ StayAndGo("checkEnd")
    <3>1. pc' \in {"top", "checkEnd"}
      BY <2>2 DEF StayAndGo
    <3>2. UNCHANGED <<ret, todo, nSystemState, nChargeCurrent, age>>
      BY <2>2 DEF StayAndGo
    <3> QED BY <1>15, <3>1, <3>2 DEF CheckMode
  <2> QED BY <1>15, <2>1, <2>2 DEF CheckMode
<1>16. CASE CheckEndHour
  <2>1. CASE Mismatch("UTIL_END_HOUR")
    BY <1>16, <2>1 DEF CheckEndHour, WriteThenGo
  <2>2. CASE ~Mismatch("UTIL_END_HOUR")
    <3>1. pc' = "checkAmps" /\ UNCHANGED <<ret, todo>>
      BY <1>16, <2>2 DEF CheckEndHour
    <3> QED BY <1>16, <3>1 DEF CheckEndHour
  <2> QED BY <2>1, <2>2
<1>17. CASE CheckAmps
  <2> DEFINE differ == nSystemState \in Charging /\ nChargeCurrent # seen["MAX_UTIL_AMPS"]
  <2>1. CASE differ
    BY <1>17, <2>1 DEF CheckAmps, WriteThenGo
  <2>2. CASE ~differ
    <3>1. pc' = "top" /\ UNCHANGED <<ret, todo>>
      BY <1>17, <2>2 DEF CheckAmps
    <3> QED BY <1>17, <3>1 DEF CheckAmps
  <2> QED BY <2>1, <2>2
<1>18. CASE WriteMode
  <2>1. /\ reg' \in [Registers -> Nat] /\ dirty' \in SUBSET Determined
        /\ faults' \in 0..MaxFaults
    BY <1>18, SendType, WantedType DEF WriteMode
  <2>2. /\ pc' \in Points /\ todo' \in SUBSET Registers
        /\ ret' \in {"top", "check", "checkEnd", "checkAmps", "Batts", "Boost", "window"}
    BY <1>18 DEF WriteMode, Written
  <2> QED BY <1>18, <2>1, <2>2 DEF WriteMode
<1>19. CASE WriteEndHour
  <2>1. /\ reg' \in [Registers -> Nat] /\ dirty' \in SUBSET Determined
        /\ faults' \in 0..MaxFaults
    BY <1>19, SendType, WantedType DEF WriteEndHour
  <2>2. /\ pc' \in Points /\ todo' \in SUBSET Registers
        /\ ret' \in {"top", "check", "checkEnd", "checkAmps", "Batts", "Boost", "window"}
    BY <1>19 DEF WriteEndHour, Written
  <2> QED BY <1>19, <2>1, <2>2 DEF WriteEndHour
<1>20. CASE SetChargeCurrent
    BY <1>20, ConstantsAssumption, TimeoutAssumption, WantedType DEF SetChargeCurrent
<1>21. CASE WriteAmps
  <2>1. /\ reg' \in [Registers -> Nat] /\ dirty' \in SUBSET Determined
        /\ faults' \in 0..MaxFaults
    BY <1>21, SendType, WantedType DEF WriteAmps
  <2>2. /\ pc' \in Points /\ todo' \in SUBSET Registers
        /\ ret' \in {"top", "check", "checkEnd", "checkAmps", "Batts", "Boost", "window"}
    BY <1>21 DEF WriteAmps, Written
  <2> QED BY <1>21, <2>1, <2>2 DEF WriteAmps
<1>22. ASSUME NEW k \in ConsoleRequests, TypeRequest(k) PROVE TypeOK'
    BY <1>22, ConstantsAssumption, TimeoutAssumption, WantedType DEF TypeRequest, AtPrompt
<1>23. ASSUME NEW n \in ManualAmps, TypeAmps(n) PROVE TypeOK'
    BY <1>23, ConstantsAssumption, TimeoutAssumption, WantedType DEF TypeAmps, AtPrompt, GW_HREG_MAX_UTIL_AMPS
<1>31. CASE CrashOnFreedContext
  <2>1. crashed' \in BOOLEAN
    BY <1>31, Zenon DEF CrashOnFreedContext
  <2> QED BY <1>31, <2>1 DEF CrashOnFreedContext
<1>24. CASE WriteManualAmps
  <2>1. /\ reg' \in [Registers -> Nat] /\ dirty' \in SUBSET Determined
        /\ faults' \in 0..MaxFaults
    <3>1. ASSUME NEW amps \in {keyed, nChargeCurrent}, Send("MAX_UTIL_AMPS", amps)
          PROVE  /\ reg' \in [Registers -> Nat] /\ dirty' \in SUBSET Determined
                 /\ faults' \in 0..MaxFaults
      <4>1. amps \in Nat
        OBVIOUS
      <4> QED BY <3>1, <4>1, SendType
    <3>2. CASE UNCHANGED inverter
      BY <3>2
    <3> QED BY <1>24, <3>1, <3>2 DEF WriteManualAmps
  <2> QED BY <1>24, <2>1 DEF WriteManualAmps
<1>25. CASE Quit
  <2>1. bRunning' \in BOOLEAN
    BY <1>25, Zenon DEF Quit
  <2> QED BY <1>25, <2>1 DEF Quit
<1>26. ASSUME NEW c \in Clients, AssignFlag(c) PROVE TypeOK'
    BY <1>26, ConstantsAssumption, TimeoutAssumption, WantedType DEF AssignFlag, AfterFlag, NoCallback
<1>27. ASSUME NEW c \in Clients, NEW k \in ClientRequests, CallBack(c, k) PROVE TypeOK'
    BY <1>27, ConstantsAssumption, TimeoutAssumption, WantedType DEF CallBack, NoCallback
<1>28. CASE Tick
    BY <1>28, ConstantsAssumption, TimeoutAssumption, WantedType DEF Tick
<1>29. ASSUME NEW r \in Registers, DialPanel(r) PROVE TypeOK'
    BY <1>29, ConstantsAssumption, TimeoutAssumption, WantedType DEF DialPanel, Fault
<1>30. CASE UNCHANGED vars
    BY <1>30 DEF vars
<1> QED
    BY <1>1, <1>2, <1>3, <1>4, <1>5, <1>6, <1>7, <1>8, <1>9, <1>10, <1>11, <1>12, <1>13, <1>14, <1>15, <1>16, <1>17, <1>18, <1>19, <1>20, <1>21, <1>22, <1>23, <1>24, <1>25, <1>26, <1>27, <1>28, <1>29, <1>30, <1>31 DEF Next, ModbusThread

(* Users, time and the panel leave the thread and the state where they are. *)
LEMMA QuietStep ==
    ASSUME TypeOK, [Next]_vars, ~ModbusThread
    PROVE  /\ UNCHANGED <<pc, ret, todo, inPeak, readOk, seen, ctx, nSystemState>>
           /\ \/ UNCHANGED <<modbusState, bRunning>>
              \/ bRunning /\ ~bRunning' /\ modbusState' = "DEINIT"
           /\ \/ UNCHANGED <<age, busy>>
              \/ age' = age + 1 /\ busy' = IF pc \in ProcessPoints THEN busy + 1 ELSE busy
           /\ \A r \in Determined :
                 r \in dirty' \/ (reg'[r] = reg[r] /\ r \notin dirty)
<1> USE DEF locals, lifecycle, control, users, console, inverter, Determined
<1> DEFINE Goal ==
     /\ UNCHANGED <<pc, ret, todo, inPeak, readOk, seen, ctx, nSystemState>>
     /\ \/ UNCHANGED <<modbusState, bRunning>>
        \/ bRunning /\ ~bRunning' /\ modbusState' = "DEINIT"
     /\ \/ UNCHANGED <<age, busy>>
        \/ age' = age + 1 /\ busy' = IF pc \in ProcessPoints THEN busy + 1 ELSE busy
     /\ \A r \in Determined :
           r \in dirty' \/ (reg'[r] = reg[r] /\ r \notin dirty)
<1>1. ASSUME NEW k \in ConsoleRequests, TypeRequest(k) PROVE Goal
  BY <1>1 DEF TypeRequest
<1>2. ASSUME NEW n \in ManualAmps, TypeAmps(n) PROVE Goal
  BY <1>2 DEF TypeAmps
<1>3. CASE WriteManualAmps
  BY <1>3 DEF WriteManualAmps, Send, Fault, TypeOK, Registers
<1>10. CASE CrashOnFreedContext
  BY <1>10 DEF CrashOnFreedContext
<1>4. CASE Quit
  BY <1>4 DEF Quit, AtPrompt
<1>5. ASSUME NEW c \in Clients, AssignFlag(c) PROVE Goal
  BY <1>5 DEF AssignFlag
<1>6. ASSUME NEW c \in Clients, NEW k \in ClientRequests, CallBack(c, k) PROVE Goal
  BY <1>6 DEF CallBack
<1>7. CASE Tick
  BY <1>7 DEF Tick
<1>8. ASSUME NEW r \in Registers, DialPanel(r) PROVE Goal
  BY <1>8 DEF DialPanel, TypeOK, Registers
<1>9. CASE UNCHANGED vars
  BY <1>9 DEF vars
<1> QED
  BY <1>1, <1>2, <1>3, <1>4, <1>5, <1>6, <1>7, <1>8, <1>9, <1>10 DEF Next

(* The bookkeeping of outstanding writes.                                   *)
LEMMA WritesStep ==
    ASSUME TypeOK, WritesInv, [Next]_vars
    PROVE  WritesInv'
<1> USE DEF TypeOK, WritesInv, Registers, Requests, Charging, ReadPoints, locals
<1>1. CASE Dispatch
  BY <1>1 DEF Dispatch
<1>2. CASE AnnounceProcess
  BY <1>2 DEF AnnounceProcess
<1>3. CASE NewContext
  BY <1>3 DEF NewContext
<1>4. CASE Connect
  BY <1>4 DEF Connect
<1>5. CASE Reinit
  BY <1>5 DEF Reinit
<1>6. CASE Deinit
  BY <1>6 DEF Deinit
<1>7. CASE SampleTime
  BY <1>7 DEF SampleTime
<1>8. CASE ReadInputRegisters
  BY <1>8 DEF ReadInputRegisters
<1>9. CASE DecideOnReads
  BY <1>9 DEF DecideOnReads
<1>10. CASE Gate
  BY <1>10 DEF Gate
<1>11. ASSUME NEW r \in Registers, ReadHoldingRegister(r) PROVE WritesInv'
  BY <1>11 DEF ReadHoldingRegister, AfterRead
<1>12. ASSUME NEW k \in Requests, ServeManual(k) PROVE WritesInv'
  BY <1>12 DEF ServeManual, SwitchTo, WriteThenGo, AfterRequest
<1>13. ASSUME NEW k \in Requests, SkipManual(k) PROVE WritesInv'
  BY <1>13 DEF SkipManual, StayAndGo, AfterRequest
<1>14. CASE FollowWindow
  BY <1>14 DEF FollowWindow, SwitchTo, WriteThenGo, StayAndGo
<1>15. CASE CheckMode
  BY <1>15 DEF CheckMode, SwitchTo, WriteThenGo, StayAndGo
<1>16. CASE CheckEndHour
  BY <1>16 DEF CheckEndHour, WriteThenGo
<1>17. CASE CheckAmps
  BY <1>17 DEF CheckAmps, WriteThenGo
<1>18. CASE WriteMode
  BY <1>18 DEF WriteMode, Written
<1>19. CASE WriteEndHour
  BY <1>19 DEF WriteEndHour, Written
<1>20. CASE SetChargeCurrent
  BY <1>20 DEF SetChargeCurrent
<1>21. CASE WriteAmps
  BY <1>21 DEF WriteAmps, Written
<1>22. CASE ~ModbusThread
  BY <1>22, QuietStep
<1> QED
  BY <1>1, <1>2, <1>3, <1>4, <1>5, <1>6, <1>7, <1>8, <1>9, <1>10, 
     <1>11, <1>12, <1>13, <1>14, <1>15, <1>16, <1>17, <1>18, <1>19, <1>20, <1>21, <1>22
  DEF ModbusThread

(* The life of the context.                                                 *)
LEMMA ContextStep ==
    ASSUME TypeOK, WritesInv, ContextInv, [Next]_vars
    PROVE  ContextInv'
<1> USE DEF TypeOK, ContextInv, ProcessPoints, ReadPoints, Registers, Requests, lifecycle, users, console, Free
<1>1. CASE Dispatch
  BY <1>1 DEF Dispatch
<1>2. CASE AnnounceProcess
  BY <1>2 DEF AnnounceProcess
<1>3. CASE NewContext
  BY <1>3 DEF NewContext
<1>4. CASE Connect
  BY <1>4 DEF Connect
<1>5. CASE Reinit
  BY <1>5 DEF Reinit
<1>6. CASE Deinit
  BY <1>6 DEF Deinit
<1>7. CASE SampleTime
  BY <1>7 DEF SampleTime
<1>8. CASE ReadInputRegisters
  BY <1>8 DEF ReadInputRegisters
<1>9. CASE DecideOnReads
  BY <1>9 DEF DecideOnReads
<1>10. CASE Gate
  BY <1>10 DEF Gate
<1>11. ASSUME NEW r \in Registers, ReadHoldingRegister(r) PROVE ContextInv'
  BY <1>11 DEF ReadHoldingRegister, AfterRead
<1>12. ASSUME NEW k \in Requests, ServeManual(k) PROVE ContextInv'
  BY <1>12 DEF ServeManual, SwitchTo, WriteThenGo, AfterRequest
<1>13. ASSUME NEW k \in Requests, SkipManual(k) PROVE ContextInv'
  BY <1>13 DEF SkipManual, StayAndGo, AfterRequest
<1>14. CASE FollowWindow
  BY <1>14 DEF FollowWindow, SwitchTo, WriteThenGo, StayAndGo
<1>15. CASE CheckMode
  BY <1>15 DEF CheckMode, SwitchTo, WriteThenGo, StayAndGo
<1>16. CASE CheckEndHour
  BY <1>16 DEF CheckEndHour, WriteThenGo
<1>17. CASE CheckAmps
  BY <1>17 DEF CheckAmps, WriteThenGo
<1>18. CASE WriteMode
  BY <1>18 DEF WriteMode, Written
<1>19. CASE WriteEndHour
  BY <1>19 DEF WriteEndHour, Written
<1>20. CASE SetChargeCurrent
  BY <1>20 DEF SetChargeCurrent
<1>21. CASE WriteAmps
  BY <1>21 DEF WriteAmps, Written
<1>22. CASE ~ModbusThread
  BY <1>22, QuietStep
<1> QED
  BY <1>1, <1>2, <1>3, <1>4, <1>5, <1>6, <1>7, <1>8, <1>9, <1>10, 
     <1>11, <1>12, <1>13, <1>14, <1>15, <1>16, <1>17, <1>18, <1>19, <1>20, <1>21, <1>22
  DEF ModbusThread

(* Registers and the state.                                                 *)
LEMMA RegistersStep ==
    ASSUME TypeOK, WritesInv, RegistersInv, [Next]_vars
    PROVE  RegistersInv'
<1> USE DEF TypeOK, WritesInv, RegistersInv, Registers, Determined, locals, control, inverter
<1>1. CASE Dispatch
  BY <1>1 DEF Dispatch
<1>2. CASE AnnounceProcess
  BY <1>2 DEF AnnounceProcess
<1>3. CASE NewContext
  BY <1>3 DEF NewContext
<1>4. CASE Connect
  BY <1>4 DEF Connect
<1>5. CASE Reinit
  BY <1>5 DEF Reinit
<1>6. CASE Deinit
  BY <1>6 DEF Deinit
<1>7. CASE SampleTime
  BY <1>7 DEF SampleTime
<1>8. CASE ReadInputRegisters
  BY <1>8 DEF ReadInputRegisters
<1>9. CASE DecideOnReads
  BY <1>9 DEF DecideOnReads
<1>10. CASE Gate
  BY <1>10 DEF Gate
<1>11. ASSUME NEW r \in Registers, ReadHoldingRegister(r) PROVE RegistersInv'
  BY <1>11 DEF ReadHoldingRegister, AfterRead
<1>12. ASSUME NEW k \in Requests, ServeManual(k) PROVE RegistersInv'
  BY <1>12 DEF ServeManual, SwitchTo, WriteThenGo, AfterRequest
<1>13. ASSUME NEW k \in Requests, SkipManual(k) PROVE RegistersInv'
  BY <1>13 DEF SkipManual, StayAndGo, AfterRequest
<1>14. CASE FollowWindow
  BY <1>14 DEF FollowWindow, SwitchTo, WriteThenGo, StayAndGo
<1>15. CASE CheckMode
  BY <1>15 DEF CheckMode, SwitchTo, WriteThenGo, StayAndGo
<1>16. CASE CheckEndHour
  BY <1>16 DEF CheckEndHour, WriteThenGo
<1>17. CASE CheckAmps
  BY <1>17 DEF CheckAmps, WriteThenGo
<1>18. CASE WriteMode
  BY <1>18 DEF WriteMode, Written, Send
<1>19. CASE WriteEndHour
  BY <1>19 DEF WriteEndHour, Written, Send
<1>20. CASE SetChargeCurrent
  BY <1>20 DEF SetChargeCurrent
<1>21. CASE WriteAmps
  BY <1>21 DEF WriteAmps, Written, Send
<1>22. CASE ~ModbusThread
  BY <1>22, QuietStep
<1> QED
  BY <1>1, <1>2, <1>3, <1>4, <1>5, <1>6, <1>7, <1>8, <1>9, <1>10, 
     <1>11, <1>12, <1>13, <1>14, <1>15, <1>16, <1>17, <1>18, <1>19, <1>20, <1>21, <1>22
  DEF ModbusThread

(* The state and the clock.                                                 *)
LEMMA WindowStep ==
    ASSUME TypeOK, WindowInv, [Next]_vars
    PROVE  WindowInv'
<1> USE DEF TypeOK, WindowInv, Registers, Requests, ReadPoints, locals, control
<1>1. CASE Dispatch
  BY <1>1 DEF Dispatch
<1>2. CASE AnnounceProcess
  BY <1>2 DEF AnnounceProcess
<1>3. CASE NewContext
  BY <1>3 DEF NewContext
<1>4. CASE Connect
  BY <1>4 DEF Connect
<1>5. CASE Reinit
  BY <1>5 DEF Reinit
<1>6. CASE Deinit
  BY <1>6 DEF Deinit
<1>7. CASE SampleTime
  BY <1>7 DEF SampleTime
<1>8. CASE ReadInputRegisters
  BY <1>8 DEF ReadInputRegisters
<1>9. CASE DecideOnReads
  BY <1>9 DEF DecideOnReads
<1>10. CASE Gate
  BY <1>10 DEF Gate
<1>11. ASSUME NEW r \in Registers, ReadHoldingRegister(r) PROVE WindowInv'
  BY <1>11 DEF ReadHoldingRegister, AfterRead
<1>12. ASSUME NEW k \in Requests, ServeManual(k) PROVE WindowInv'
  BY <1>12 DEF ServeManual, SwitchTo, WriteThenGo, AfterRequest
<1>13. ASSUME NEW k \in Requests, SkipManual(k) PROVE WindowInv'
  BY <1>13 DEF SkipManual, StayAndGo, AfterRequest
<1>14. CASE FollowWindow
  BY <1>14 DEF FollowWindow, SwitchTo, WriteThenGo, StayAndGo
<1>15. CASE CheckMode
  BY <1>15 DEF CheckMode, SwitchTo, WriteThenGo, StayAndGo
<1>16. CASE CheckEndHour
  BY <1>16 DEF CheckEndHour, WriteThenGo
<1>17. CASE CheckAmps
  BY <1>17 DEF CheckAmps, WriteThenGo
<1>18. CASE WriteMode
  BY <1>18 DEF WriteMode, Written
<1>19. CASE WriteEndHour
  BY <1>19 DEF WriteEndHour, Written
<1>20. CASE SetChargeCurrent
  BY <1>20 DEF SetChargeCurrent
<1>21. CASE WriteAmps
  BY <1>21 DEF WriteAmps, Written
<1>22. CASE ~ModbusThread
  BY <1>22, QuietStep
<1> QED
  BY <1>1, <1>2, <1>3, <1>4, <1>5, <1>6, <1>7, <1>8, <1>9, <1>10, 
     <1>11, <1>12, <1>13, <1>14, <1>15, <1>16, <1>17, <1>18, <1>19, <1>20, <1>21, <1>22
  DEF ModbusThread

(* What was read back, and how long ago the state changed.                 *)
LEMMA ReadbackStep ==
    ASSUME TypeOK, WritesInv, RegistersInv, ReadbackInv, [Next]_vars
    PROVE  ReadbackInv'
<1> USE DEF TypeOK, WritesInv, RegistersInv, ReadbackInv, ProcessPoints, ReadPoints, Registers, Requests, Charging, Determined, locals, control, inverter
<1>1. CASE Dispatch
  BY <1>1 DEF Dispatch
<1>2. CASE AnnounceProcess
  BY <1>2 DEF AnnounceProcess
<1>3. CASE NewContext
  BY <1>3 DEF NewContext
<1>4. CASE Connect
  BY <1>4 DEF Connect
<1>5. CASE Reinit
  BY <1>5 DEF Reinit
<1>6. CASE Deinit
  BY <1>6 DEF Deinit
<1>7. CASE SampleTime
  BY <1>7 DEF SampleTime
<1>8. CASE ReadInputRegisters
  BY <1>8 DEF ReadInputRegisters
<1>9. CASE DecideOnReads
  BY <1>9 DEF DecideOnReads
<1>10. CASE Gate
  BY <1>10 DEF Gate
<1>11. ASSUME NEW r \in Registers, ReadHoldingRegister(r) PROVE ReadbackInv'
  BY <1>11 DEF ReadHoldingRegister, AfterRead
<1>12. ASSUME NEW k \in Requests, ServeManual(k) PROVE ReadbackInv'
  BY <1>12 DEF ServeManual, SwitchTo, WriteThenGo, AfterRequest
<1>13. ASSUME NEW k \in Requests, SkipManual(k) PROVE ReadbackInv'
  BY <1>13 DEF SkipManual, StayAndGo, AfterRequest
<1>14. CASE FollowWindow
  BY <1>14 DEF FollowWindow, SwitchTo, WriteThenGo, StayAndGo
<1>15. CASE CheckMode
  BY <1>15 DEF CheckMode, SwitchTo, WriteThenGo, StayAndGo
<1>16. CASE CheckEndHour
  BY <1>16 DEF CheckEndHour, WriteThenGo
<1>17. CASE CheckAmps
  BY <1>17 DEF CheckAmps, WriteThenGo
<1>18. CASE WriteMode
  BY <1>18 DEF WriteMode, Written, Send
<1>19. CASE WriteEndHour
  BY <1>19 DEF WriteEndHour, Written, Send
<1>20. CASE SetChargeCurrent
  BY <1>20 DEF SetChargeCurrent
<1>21. CASE WriteAmps
  BY <1>21 DEF WriteAmps, Written, Send
<1>22. CASE ~ModbusThread
  BY <1>22, QuietStep
<1> QED
  BY <1>1, <1>2, <1>3, <1>4, <1>5, <1>6, <1>7, <1>8, <1>9, <1>10, 
     <1>11, <1>12, <1>13, <1>14, <1>15, <1>16, <1>17, <1>18, <1>19, <1>20, <1>21, <1>22
  DEF ModbusThread

-----------------------------------------------------------------------------
(* The invariant, and what follows from it.                                 *)

LEMMA InitIInv ==
    ASSUME Init
    PROVE  IInv
<1> USE DEF Init
<1>1. TypeOK
  <2>1. reg \in [Registers -> Nat]
    BY ConstantsAssumption
  <2>2. inPeak \in BOOLEAN /\ readOk \in BOOLEAN /\ bRunning \in BOOLEAN /\ crashed \in BOOLEAN
    BY Zenon
  <2> QED
    BY <2>1, <2>2, ConstantsAssumption, TimeoutAssumption
    DEF TypeOK, SystemStates, Points, NoCallback
<1>2. WritesInv
  BY DEF WritesInv
<1>3. ContextInv
  BY DEF ContextInv, ProcessPoints, ReadPoints, Registers, Requests
<1>4. RegistersInv
  BY DEF RegistersInv, Registers
<1>5. WindowInv
  BY DEF WindowInv
<1>6. ReadbackInv
  BY DEF ReadbackInv, ProcessPoints, ReadPoints, Registers, Requests
<1> QED
  BY <1>1, <1>2, <1>3, <1>4, <1>5, <1>6 DEF IInv

LEMMA StepIInv ==
    ASSUME IInv, [Next]_vars
    PROVE  IInv'
BY TypeStep, WritesStep, ContextStep, RegistersStep, WindowStep, ReadbackStep DEF IInv

LEMMA SpecIInv == Spec => []IInv
<1>1. Init => IInv
  BY InitIInv
<1>2. IInv /\ [Next]_vars => IInv'
  BY StepIInv
<1> QED
  BY <1>1, <1>2, PTL DEF Spec

(* Every variable keeps its type; the charge current stays within what the  *)
(* inverter can do.                                                         *)
THEOREM TypeCorrectness == Spec => []TypeOK
<1>1. IInv => TypeOK
  BY DEF IInv
<1> QED
  BY <1>1, SpecIInv, PTL

(* The MODBUS thread never uses a context that is not connected, whatever   *)
(* fails and whenever the operator quits, and frees it before it returns.   *)
THEOREM ContextSafety == Spec => []ContextWhenUsed
<1>1. IInv => ContextWhenUsed
  BY DEF IInv, ContextInv, ContextWhenUsed
<1> QED
  BY <1>1, SpecIInv, PTL

(* While the thread has still to connect there is no connected context, and   *)
(* reinit(), which is where INIT comes from, belongs to that time only.        *)
QuitInv ==
    /\ modbusState = "INIT" => ctx # "connected" /\ pc \in {"top", "init"}
    /\ pc \in {"init", "new", "connect", "reinit"} => ctx # "connected"

(* A pass goes from point to point and back to the top, and leaves alone what  *)
(* the console and main look at.                                             *)
LEMMA PassStep ==
    ASSUME TypeOK, ModbusThread,
           ~(Dispatch \/ AnnounceProcess \/ NewContext \/ Connect \/ Reinit \/ Deinit)
    PROVE  pc' \in ProcessPoints \cup {"top"} /\ UNCHANGED <<modbusState, ctx>>
<1> USE DEF lifecycle, ProcessPoints, ReadPoints, Registers, Requests
<1> DEFINE Goal == pc' \in ProcessPoints \cup {"top"} /\ UNCHANGED <<modbusState, ctx>>
<1>1. CASE SampleTime \/ ReadInputRegisters \/ DecideOnReads \/ Gate
  BY <1>1 DEF SampleTime, ReadInputRegisters, DecideOnReads, Gate
<1>2. ASSUME NEW r \in Registers, ReadHoldingRegister(r) PROVE Goal
  BY <1>2 DEF ReadHoldingRegister, AfterRead
<1>3. ASSUME NEW k \in Requests, ServeManual(k) \/ SkipManual(k) PROVE Goal
  BY <1>3 DEF ServeManual, SkipManual, SwitchTo, WriteThenGo, StayAndGo, AfterRequest
<1>4. CASE FollowWindow \/ CheckMode \/ CheckEndHour \/ CheckAmps
  BY <1>4 DEF FollowWindow, CheckMode, CheckEndHour, CheckAmps, SwitchTo, WriteThenGo, StayAndGo
<1>5. CASE WriteMode \/ WriteEndHour \/ SetChargeCurrent \/ WriteAmps
  BY <1>5 DEF WriteMode, WriteEndHour, SetChargeCurrent, WriteAmps, Written, TypeOK
<1> QED
  BY <1>1, <1>2, <1>3, <1>4, <1>5 DEF ModbusThread

(* DEINIT with a connected context is final, once nothing connects.           *)
LEMMA QuitStep ==
    ASSUME IInv, QuitInv, [Next]_vars
    PROVE  /\ QuitInv'
           /\ modbusState = "DEINIT" /\ ctx = "connected" =>
                 \/ UNCHANGED <<modbusState, ctx>>
                 \/ modbusState' = "DIE" /\ ctx' = "null"
<1> USE DEF QuitInv, lifecycle, Free
<1>1. CASE Dispatch
  BY <1>1 DEF Dispatch, IInv, TypeOK, ContextInv
<1>2. CASE AnnounceProcess
  BY <1>2 DEF AnnounceProcess
<1>3. CASE NewContext \/ Connect
  BY <1>3 DEF NewContext, Connect
<1>4. CASE Reinit \/ Deinit
  BY <1>4 DEF Reinit, Deinit
<1>5. CASE ModbusThread /\ ~(Dispatch \/ AnnounceProcess \/ NewContext \/ Connect \/ Reinit \/ Deinit)
  <2>1. pc' \in ProcessPoints \cup {"top"} /\ UNCHANGED <<modbusState, ctx>>
    BY <1>5, PassStep DEF IInv
  <2>2. pc' \notin {"init", "new", "connect", "reinit"}
    BY <2>1 DEF ProcessPoints, ReadPoints, Registers, Requests
  <2>3. modbusState = "INIT" => pc' = "top"
    BY <1>5 DEF ModbusThread, SampleTime, ReadInputRegisters, DecideOnReads, Gate,
                ReadHoldingRegister, ServeManual, SkipManual, FollowWindow, CheckMode,
                CheckEndHour, CheckAmps, WriteMode, WriteEndHour, SetChargeCurrent, WriteAmps,
                Registers, Requests
  <2> QED
    BY <2>1, <2>2, <2>3
<1>6. CASE ~ModbusThread
  <2>1. UNCHANGED <<pc, ctx>>
    BY <1>6, QuietStep DEF IInv
  <2>2. modbusState' = modbusState \/ modbusState' = "DEINIT"
    BY <1>6, QuietStep DEF IInv
  <2>3. modbusState = "DEINIT" => modbusState' = "DEINIT"
    BY <2>2
  <2> QED
    BY <2>1, <2>2, <2>3
<1> QED
  BY <1>1, <1>2, <1>3, <1>4, <1>5, <1>6

(* A quit that arrives when the inverter is connected is never taken back,     *)
(* whatever fails and whoever asks for what; the context stays the one that   *)
(* the pass is using until the thread frees it and dies.                      *)
THEOREM QuitSafety == Spec => QuitStands
<1>1. Init => QuitInv
  BY DEF Init, QuitInv
<1>2. IInv /\ QuitInv /\ [Next]_vars => QuitInv'
  BY QuitStep
<1>3. IInv /\ QuitInv /\ [Next]_vars =>
          [modbusState = "DEINIT" /\ ctx = "connected" =>
              \/ UNCHANGED <<modbusState, ctx>>
              \/ modbusState' = "DIE" /\ ctx' = "null"]_vars
  BY QuitStep
<1> QED
  BY <1>1, <1>2, <1>3, SpecIInv, PTL DEF Spec, QuitStands

(* A write of the console is under way only while main has not been told to   *)
(* quit: main does the writing.                                             *)
ConsoleInv ==
    /\ keyed # 0 => bRunning
    /\ lent # "none" => keyed # 0

LEMMA ConsoleStep ==
    ASSUME IInv, ConsoleInv, [Next]_vars
    PROVE  ConsoleInv'
<1> USE DEF ConsoleInv, users, console
<1>1. CASE Reinit \/ Deinit
  BY <1>1 DEF Reinit, Deinit, Free
<1>2. CASE ModbusThread /\ ~(Reinit \/ Deinit)
  <2>1. UNCHANGED users
    BY <1>2 DEF ModbusThread, Dispatch, AnnounceProcess, NewContext, Connect, SampleTime,
                ReadInputRegisters, DecideOnReads, Gate, ReadHoldingRegister, ServeManual,
                SkipManual, FollowWindow, CheckMode, CheckEndHour, CheckAmps, WriteMode,
                WriteEndHour, SetChargeCurrent, WriteAmps
  <2> QED
    BY <2>1
<1>3. ASSUME NEW k \in ConsoleRequests, TypeRequest(k) PROVE ConsoleInv'
  BY <1>3 DEF TypeRequest
<1>4. ASSUME NEW n \in ManualAmps, TypeAmps(n) PROVE ConsoleInv'
  BY <1>4, ConstantsAssumption DEF TypeAmps, AtPrompt
<1>5. CASE WriteManualAmps \/ CrashOnFreedContext
  BY <1>5 DEF WriteManualAmps, CrashOnFreedContext
<1>6. CASE Quit
  BY <1>6 DEF Quit, AtPrompt
<1>7. ASSUME NEW c \in Clients,
             AssignFlag(c) \/ \E k \in ClientRequests : CallBack(c, k)
      PROVE  ConsoleInv'
  BY <1>7 DEF AssignFlag, CallBack
<1>8. CASE Tick \/ \E r \in Registers : DialPanel(r)
  BY <1>8 DEF Tick, DialPanel
<1>9. CASE UNCHANGED vars
  BY <1>9 DEF vars
<1> QED
  BY <1>1, <1>2, <1>3, <1>4, <1>5, <1>6, <1>7, <1>8, <1>9 DEF Next

(* Amps typed once the inverter is connected are never written through a      *)
(* freed context, whatever fails and even when the next key is q.            *)
THEOREM ConsoleSafety == Spec => ConsoleKeepsContext
<1>1. Init => QuitInv /\ ConsoleInv
  BY DEF Init, QuitInv, ConsoleInv
<1>2. IInv /\ QuitInv /\ ConsoleInv /\ [Next]_vars => QuitInv' /\ ConsoleInv'
  BY QuitStep, ConsoleStep
<1>3. IInv /\ QuitInv /\ ConsoleInv /\ [Next]_vars =>
          [lent = "current" /\ ctx = "connected" => ctx' = "connected"]_vars
  <2> SUFFICES ASSUME IInv, QuitInv, ConsoleInv, [Next]_vars,
                      lent = "current", ctx = "connected"
               PROVE  ctx' = "connected"
    OBVIOUS
  <2>1. CASE Dispatch \/ AnnounceProcess
    BY <2>1 DEF Dispatch, AnnounceProcess, lifecycle
  <2>2. CASE NewContext \/ Connect \/ Reinit
    BY <2>2 DEF NewContext, Connect, Reinit, QuitInv
  <2>3. CASE Deinit
    BY <2>3 DEF Deinit, IInv, ContextInv, ConsoleInv
  <2>4. CASE ModbusThread /\ ~(Dispatch \/ AnnounceProcess \/ NewContext \/ Connect \/ Reinit \/ Deinit)
    BY <2>4, PassStep DEF IInv
  <2>5. CASE ~ModbusThread
    BY <2>5, QuietStep DEF IInv
  <2> QED
    BY <2>1, <2>2, <2>3, <2>4, <2>5
<1> QED
  BY <1>1, <1>2, <1>3, SpecIInv, PTL DEF Spec, ConsoleKeepsContext

(* Mode and end hour have the state's values unless a fault hit them.       *)
THEOREM RegisterSafety == Spec => []RegistersFollowState
<1>1. IInv => RegistersFollowState
  <2> SUFFICES ASSUME IInv, NEW r \in Determined,
                      r \notin dirty, ~(pc = "write" /\ r \in todo)
               PROVE  reg[r] = Wanted(r, nSystemState)
    BY DEF RegistersFollowState
  <2>1. r \notin todo
    BY DEF IInv, WritesInv, Determined
  <2> QED
    BY <2>1 DEF IInv, RegistersInv
<1> QED
  BY <1>1, SpecIInv, PTL

(* The final check always finds the state that the clock requires.          *)
THEOREM WindowSafety == Spec => []StateFollowsWindow
<1>1. IInv => StateFollowsWindow
  BY DEF IInv, WindowInv, StateFollowsWindow
<1> QED
  BY <1>1, SpecIInv, PTL

(* A pass no longer than CHECK_MODE_TIMEOUT is all it takes for the final   *)
(* check never to act on a mode read before the last change of mode.        *)
THEOREM FreshReadbackSafety == Spec => []FreshReadback
<1>1. IInv => FreshReadback
  <2> SUFFICES ASSUME IInv, pc = "check", CheckDue, Mismatch("CFG_MODE")
               PROVE  "CFG_MODE" \in dirty
    BY DEF FreshReadback
  <2>1. ~(age <= busy)
    BY TimeoutAssumption DEF IInv, TypeOK, CheckDue
  <2>2. pc \in ProcessPoints \ {"sample", "input", "CFG_MODE"} /\ readOk
    BY DEF IInv, ReadbackInv, ProcessPoints, ReadPoints, Registers, Requests
  <2> QED
    BY <2>1, <2>2 DEF IInv, ReadbackInv, Mismatch
<1> QED
  BY <1>1, SpecIInv, PTL

-----------------------------------------------------------------------------
(* One client, and a console at which nobody requests a mode.               *)

(* What a callback has done so far: of the flags that it has assigned only   *)
(* its own can be set; before it starts, at most one is.                    *)
Assigned(c, k) ==
    \/ handler[c].at = "Batts" /\ k = "Grid"
    \/ handler[c].at = "Boost" /\ k \in {"Grid", "Batts"}

CallbackInv ==
    \A c \in Clients :
        /\ handler[c].at = "none" <=> handler[c] = NoCallback
        /\ \A k \in Requests : Assigned(c, k) /\ manual[k] => k = handler[c].request

(* The MODBUS thread and the panel, the clock and the other commands of the  *)
(* console set no flag.                                                     *)
LEMMA FlagsStep ==
    ASSUME TypeOK, ConsoleRequests = {}, [Next]_vars,
           ~ \E c \in Clients : AssignFlag(c) \/ \E k \in ClientRequests : CallBack(c, k)
    PROVE  /\ \A k \in Requests : manual'[k] => manual[k]
           /\ UNCHANGED handler
<1> USE DEF TypeOK, locals, control, users, console, inverter
<1> DEFINE Goal == (\A k \in Requests : manual'[k] => manual[k]) /\ UNCHANGED handler
<1>1. ASSUME NEW k \in Requests, ServeManual(k) PROVE Goal
  BY <1>1 DEF ServeManual, SwitchTo, WriteThenGo
<1>2. ASSUME NEW k \in Requests, SkipManual(k) PROVE Goal
  BY <1>2 DEF SkipManual, StayAndGo
<1>3. CASE Dispatch \/ AnnounceProcess \/ NewContext \/ Connect \/ Reinit \/ Deinit
  BY <1>3 DEF Dispatch, AnnounceProcess, NewContext, Connect, Reinit, Deinit
<1>4. CASE SampleTime \/ ReadInputRegisters \/ DecideOnReads \/ Gate
  BY <1>4 DEF SampleTime, ReadInputRegisters, DecideOnReads, Gate
<1>5. ASSUME NEW r \in Registers, ReadHoldingRegister(r) PROVE Goal
  BY <1>5 DEF ReadHoldingRegister
<1>6. CASE FollowWindow \/ CheckMode \/ CheckEndHour \/ CheckAmps
  BY <1>6 DEF FollowWindow, CheckMode, CheckEndHour, CheckAmps, SwitchTo, WriteThenGo, StayAndGo
<1>7. CASE WriteMode \/ WriteEndHour \/ SetChargeCurrent \/ WriteAmps
  BY <1>7 DEF WriteMode, WriteEndHour, SetChargeCurrent, WriteAmps, Written
<1>8. ASSUME NEW n \in ManualAmps, TypeAmps(n) PROVE Goal
  BY <1>8 DEF TypeAmps
<1>9. CASE WriteManualAmps \/ CrashOnFreedContext \/ Quit \/ Tick
  BY <1>9 DEF WriteManualAmps, CrashOnFreedContext, Quit, Tick
<1>10. ASSUME NEW r \in Registers, DialPanel(r) PROVE Goal
  BY <1>10 DEF DialPanel
<1>11. CASE UNCHANGED vars
  BY <1>11 DEF vars
<1> QED
  BY <1>1, <1>2, <1>3, <1>4, <1>5, <1>6, <1>7, <1>8, <1>9, <1>10, <1>11 DEF Next, ModbusThread

LEMMA CallbackStep ==
    ASSUME TypeOK, ConsoleRequests = {}, \A c, d \in Clients : c = d,
           CallbackInv, OneRequestPending, [Next]_vars
    PROVE  CallbackInv' /\ OneRequestPending'
<1> USE DEF CallbackInv, OneRequestPending, Assigned, NoCallback, Requests
<1>1. ASSUME NEW c \in Clients, AssignFlag(c) PROVE CallbackInv' /\ OneRequestPending'
  <2>1. handler'[c].at = "none" <=> handler'[c] = NoCallback
    BY <1>1 DEF AssignFlag, TypeOK, AfterFlag
  <2>2. ASSUME NEW k \in Requests, Assigned(c, k)', manual'[k]
        PROVE  k = handler'[c].request
    <3>1. PICK r \in Requests \cup {"none"}, a \in Requests :
             /\ handler[c].request = r /\ handler[c].at = a
             /\ handler' = [handler EXCEPT ![c] =
                              IF a = "Boost" THEN NoCallback
                              ELSE [request |-> r, at |-> AfterFlag[a]]]
             /\ manual' = [manual EXCEPT ![a] = (a = r)]
      BY <1>1 DEF AssignFlag, TypeOK
    <3>2. a # "Boost" /\ handler'[c] = [request |-> r, at |-> AfterFlag[a]]
      BY <2>2, <3>1 DEF TypeOK
    <3>3. CASE k = a
      BY <2>2, <3>1, <3>2, <3>3 DEF TypeOK
    <3>4. CASE k # a
      BY <2>2, <3>1, <3>2, <3>4 DEF TypeOK, AfterFlag
    <3> QED
      BY <3>3, <3>4
  <2>3. handler'[c] = NoCallback => \A j, k \in Requests : manual'[j] /\ manual'[k] => j = k
    BY <1>1 DEF AssignFlag, TypeOK, AfterFlag
  <2> QED
    BY <2>1, <2>2, <2>3, \A d \in Clients : d = c
<1>2. ASSUME NEW c \in Clients, NEW k \in ClientRequests, CallBack(c, k)
      PROVE CallbackInv' /\ OneRequestPending'
  <2>1. handler'[c] = [request |-> k, at |-> "Grid"]
    BY <1>2 DEF CallBack, TypeOK
  <2> QED
    BY <2>1, \A d \in Clients : d = c
<1>3. CASE ~ \E c \in Clients : AssignFlag(c) \/ \E k \in ClientRequests : CallBack(c, k)
  BY <1>3, FlagsStep
<1> QED
  BY <1>1, <1>2, <1>3

(* One client, and nobody at the console: its newest request has replaced    *)
(* the others whenever no callback is running.                              *)
THEOREM OneRequestSafety ==
    ASSUME ConsoleRequests = {}, \A c, d \in Clients : c = d
    PROVE  Spec => []OneRequestPending
<1>1. Init => CallbackInv /\ OneRequestPending
  BY DEF Init, CallbackInv, OneRequestPending, Assigned, NoCallback
<1>2. IInv /\ CallbackInv /\ OneRequestPending /\ [Next]_vars => (CallbackInv /\ OneRequestPending)'
  BY CallbackStep DEF IInv
<1> QED
  BY <1>1, <1>2, SpecIInv, PTL DEF Spec

-----------------------------------------------------------------------------
(* InverterControl implements ModeControl.                                  *)

LEMMA StepSimulation ==
    ASSUME IInv, [Next]_vars
    PROVE  [Abstract!Next]_(Abstract!vars)
<1> DEFINE Same == UNCHANGED <<nSystemState, inPeak, manual>>
<1> USE DEF locals, lifecycle, control, users, console, inverter
<1>1. Same => UNCHANGED Abstract!vars
  BY DEF Abstract!vars
<1>2. CASE Dispatch \/ AnnounceProcess \/ NewContext \/ Connect \/ Reinit \/ Deinit
  <2>1. Same
    BY <1>2 DEF Dispatch, AnnounceProcess, NewContext, Connect, Reinit, Deinit
  <2> QED BY <1>1, <2>1
<1>3. CASE ReadInputRegisters \/ DecideOnReads \/ Gate \/ \E r \in Registers : ReadHoldingRegister(r)
  <2>1. Same
    BY <1>3 DEF ReadInputRegisters, DecideOnReads, Gate, ReadHoldingRegister
  <2> QED BY <1>1, <2>1
<1>4. CASE SampleTime
  <2>1. inPeak' \in BOOLEAN
    BY <1>4, TypeStep DEF IInv, TypeOK
  <2>2. Abstract!LookAtClock
    BY <1>4, <2>1 DEF SampleTime, Abstract!LookAtClock
  <2> QED BY <2>2 DEF Abstract!Next
<1>5. ASSUME NEW k \in Requests, ServeManual(k)
      PROVE  [Abstract!Next]_(Abstract!vars)
  <2>1. {j \in Requests : manual'[j]} = {j \in Requests : manual[j]} \ {k}
    BY <1>5 DEF ServeManual, IInv, TypeOK
  <2>2. Abstract!Serve(k)
    BY <1>5, <2>1 DEF ServeManual, SwitchTo, Abstract!Serve, StateFor, Abstract!StateFor
  <2> QED BY <2>2 DEF Abstract!Next, Abstract!Requests, Requests
<1>6. ASSUME NEW k \in Requests, SkipManual(k)
      PROVE  [Abstract!Next]_(Abstract!vars)
  <2>1. Same
    BY <1>6 DEF SkipManual, StayAndGo
  <2> QED BY <1>1, <2>1
<1>7. CASE FollowWindow
  <2>1. CASE StayAndGo("check")
    <3>1. Same
      BY <1>7, <2>1 DEF FollowWindow, StayAndGo
    <3> QED BY <1>1, <3>1
  <2>2. CASE inPeak /\ nSystemState = "OFF_PEAK" /\ SwitchTo("PEAK", "check")
    <3>1. Abstract!LeaveOffPeak
      BY <1>7, <2>2 DEF FollowWindow, SwitchTo, Abstract!LeaveOffPeak
    <3> QED BY <3>1 DEF Abstract!Next
  <2>3. CASE ~inPeak /\ nSystemState # "OFF_PEAK" /\ SwitchTo("OFF_PEAK", "check")
    <3>1. Abstract!EnterOffPeak
      BY <1>7, <2>3 DEF FollowWindow, SwitchTo, Abstract!EnterOffPeak
    <3> QED BY <3>1 DEF Abstract!Next
  <2> QED BY <1>7, <2>1, <2>2, <2>3 DEF FollowWindow
<1>8. CASE CheckMode \/ CheckEndHour \/ CheckAmps
  <2>1. Same
    BY <1>8 DEF CheckMode, CheckEndHour, CheckAmps, SwitchTo, StayAndGo
  <2> QED BY <1>1, <2>1
<1>9. CASE WriteMode \/ WriteEndHour \/ SetChargeCurrent \/ WriteAmps
  <2>1. Same
    BY <1>9 DEF WriteMode, WriteEndHour, SetChargeCurrent, WriteAmps
  <2> QED BY <1>1, <2>1
<1>10. ASSUME NEW k \in ConsoleRequests, TypeRequest(k)
       PROVE  [Abstract!Next]_(Abstract!vars)
  <2>1. k \in Requests
    BY ConstantsAssumption
  <2>2. {j \in Requests : manual'[j]} = {j \in Requests : manual[j]} \cup {k}
    BY <1>10, <2>1 DEF TypeRequest, IInv, TypeOK
  <2>3. Abstract!Ask(k)
    BY <1>10, <2>2 DEF TypeRequest, Abstract!Ask
  <2> QED BY <2>1, <2>3 DEF Abstract!Next, Abstract!Requests, Requests
<1>11. CASE WriteManualAmps \/ CrashOnFreedContext \/ Quit \/ Tick
  <2>1. Same
    BY <1>11 DEF WriteManualAmps, CrashOnFreedContext, Quit, Tick
  <2> QED BY <1>1, <2>1
<1>12. ASSUME NEW n \in ManualAmps, TypeAmps(n)
       PROVE  [Abstract!Next]_(Abstract!vars)
  <2>1. Same
    BY <1>12 DEF TypeAmps
  <2> QED BY <1>1, <2>1
<1>13. ASSUME NEW c \in Clients, AssignFlag(c)
       PROVE  [Abstract!Next]_(Abstract!vars)
  <2>1. PICK k \in Requests : k = handler[c].at
    BY <1>13 DEF AssignFlag, IInv, TypeOK
  <2>2. CASE k = handler[c].request
    <3>1. {j \in Requests : manual'[j]} = {j \in Requests : manual[j]} \cup {k}
      BY <1>13, <2>1, <2>2 DEF AssignFlag, IInv, TypeOK
    <3>2. Abstract!Ask(k)
      BY <1>13, <3>1 DEF AssignFlag, Abstract!Ask
    <3> QED BY <2>1, <3>2 DEF Abstract!Next, Abstract!Requests, Requests
  <2>3. CASE k # handler[c].request
    <3>1. {j \in Requests : manual'[j]} = {j \in Requests : manual[j]} \ {k}
      BY <1>13, <2>1, <2>3 DEF AssignFlag, IInv, TypeOK
    <3>2. Abstract!Withdraw(k)
      BY <1>13, <3>1 DEF AssignFlag, Abstract!Withdraw
    <3> QED BY <2>1, <3>2 DEF Abstract!Next, Abstract!Requests, Requests
  <2> QED BY <2>2, <2>3
<1>14. ASSUME NEW c \in Clients, NEW k \in ClientRequests, CallBack(c, k)
       PROVE  [Abstract!Next]_(Abstract!vars)
  <2>1. Same
    BY <1>14 DEF CallBack
  <2> QED BY <1>1, <2>1
<1>15. ASSUME NEW r \in Registers, DialPanel(r)
       PROVE  [Abstract!Next]_(Abstract!vars)
  <2>1. Same
    BY <1>15 DEF DialPanel
  <2> QED BY <1>1, <2>1
<1>16. CASE UNCHANGED vars
  <2>1. Same
    BY <1>16 DEF vars
  <2> QED BY <1>1, <2>1
<1> QED
  BY <1>2, <1>3, <1>4, <1>5, <1>6, <1>7, <1>8, <1>9, <1>10, <1>11, <1>12, <1>13,
     <1>14, <1>15, <1>16
  DEF Next, ModbusThread

(* The state changes only as ModeControl allows: into and out of OFF_PEAK   *)
(* with the clock, otherwise only to serve a pending request.               *)
THEOREM Refinement == Spec => ImplementsModeControl
<1>1. Init => Abstract!Init
  <2> SUFFICES ASSUME Init PROVE Abstract!Init
    OBVIOUS
  <2>1. {k \in Requests : manual[k]} = {}
    BY DEF Init
  <2>2. (~inPeak) \in BOOLEAN
    OBVIOUS
  <2> QED BY <2>1, <2>2 DEF Init, Abstract!Init
<1>2. IInv /\ [Next]_vars => [Abstract!Next]_(Abstract!vars)
  BY StepSimulation
<1> QED
  BY <1>1, <1>2, SpecIInv, PTL DEF Spec, ImplementsModeControl, Abstract!Spec
===============================================================================
