--------------------------- MODULE ManagerProofs ---------------------------
(***************************************************************************)
(* Proofs about module Manager, for every number of callers, sources,      *)
(* handles and packets.  Everything rests on one inductive invariant, Inv: *)
(* what the holder of m.mu knows at each point of its critical section     *)
(* (LockInv, CallInv), how m.src, w.handle and the kernel's table of       *)
(* handles agree (RegistryInv), and what a goroutine that has read         *)
(* w.handle may conclude from it (EngineInv).                              *)
(***************************************************************************)
EXTENDS Manager, TLAPS

(* The kernel captures for the registered source only, through the value   *)
(* in its w.handle; m.running mirrors m.src; a source that is not          *)
(* registered has w.handle = 0.                                            *)
RegistryInv ==
  /\ \A h \in Handles : table[h] # None => table[h] = src /\ handle[src] = h
  /\ \A s \in Sources : handle[s] # None => s = src
  /\ running <=> src # None
  /\ src # None => conf[src] \in Configs /\ eng[src] # "none"

(* Between closing the handle and clearing the fields the registered       *)
(* source is dead; before and after it is live.                            *)
PhaseInv ==
  /\ \A c \in Callers : pc[c] = "clear" => src # None /\ \A h \in Handles : table[h] = None
  /\ \A c \in Callers : pc[c] \in {"new", "open"} => src = None
  /\ src # None /\ (\A c \in Callers : pc[c] # "clear") =>
       handle[src] \in Handles /\ table[handle[src]] = src

(* A goroutine in its send loop has a packet left to send.                 *)
WorkInv == \A s \in Sources : eng[s] \in {"send", "inject"} => left[s] > 0

(* Only Apply and Stop close the source, only Apply opens one.             *)
OpInv == \A c \in Callers :
  /\ pc[c] \in {"clear", "new", "open"} => req[c].op # "Running"
  /\ pc[c] \in {"new", "open"} => req[c].op = "Apply"

(* What the call under way has established when it reaches each point.     *)
CallInv == \A c \in Callers :
  /\ pc[c] = "open" => req[c].cfg \notin Invalid /\ res[c] = "ok"
  /\ pc[c] \in {"locked", "clear"} => Registered = shown
  /\ pc[c] = "unlock" =>
       \/ /\ req[c].op = "Running"
          /\ Registered = shown
          /\ res[c] = IF shown = None THEN "false" ELSE "true"
       \/ /\ req[c].op = "Stop"
          /\ src = None
          /\ res[c] = "ok"
       \/ /\ req[c].op = "Apply"
          /\ src = None
          /\ res[c] = "error"
       \/ /\ req[c].op = "Apply"
          /\ src # None
          /\ conf[src] = req[c].cfg
          /\ req[c].cfg \notin Invalid
          /\ res[c] = "ok"

(* While its source is live, a goroutine carries the right handle value    *)
(* into the driver and waits on its own queue.                             *)
EngineInv == \A s \in Sources : s \in Live =>
  /\ eng[s] \in {"recv", "inject"} => reg[s] = handle[s]
  /\ eng[s] = "wait" => at[s] = s

(* The goroutine of a live source only leaves Run when a receive fails.    *)
ReaderInv == \A s \in Sources : s \in Live => eng[s] # "exit"

(* A goroutine that has taken another source's packet belongs to a source  *)
(* that is closed for good, and will not get as far as a queue again.      *)
StrayInv == \A p \in Packets : by[p] # None =>
  /\ fate[p] # "unsent"
  /\ by[p] # via[p] =>
       /\ by[p] # src /\ handle[by[p]] = None
       /\ eng[by[p]] \notin {"none", "wait"}
       /\ eng[by[p]] = "recv" => reg[by[p]] = None

Inv ==
  /\ TypeOK
  /\ WorkInv
  /\ MutualExclusion
  /\ OpInv
  /\ RegistryInv
  /\ PhaseInv
  /\ CallInv
  /\ EngineInv
  /\ ReaderInv
  /\ StrayInv

-----------------------------------------------------------------------------
(* Types.                                                                  *)

(* Every variable keeps its type: no step of a caller, of an engine        *)
(* goroutine or of the network stack leaves the state space of the code.   *)
LEMMA TypeStep == TypeOK /\ WorkInv /\ [Next]_vars => TypeOK' /\ WorkInv'
<1> SUFFICES ASSUME TypeOK, WorkInv, [Next]_vars
             PROVE  TypeOK' /\ WorkInv'
  OBVIOUS
<1> USE ConstantsAssumption DEF TypeOK, WorkInv, Go, Step, Requests, Results, CallerPC, EnginePC, Fates
<1>1. ASSUME NEW c \in Callers, NEW r \in Requests, Invoke(c, r)
      PROVE  TypeOK' /\ WorkInv'
  BY <1>1 DEF Invoke, managerVars, driverVars, engineVars, packetVars
<1>2. ASSUME NEW c \in Callers, Lock(c)
      PROVE  TypeOK' /\ WorkInv'
  BY <1>2 DEF Lock, Registered, driverVars, engineVars, packetVars
<1>3. ASSUME NEW c \in Callers, ReadRunning(c)
      PROVE  TypeOK' /\ WorkInv'
  BY <1>3 DEF ReadRunning, managerVars, driverVars, engineVars, packetVars
<1>4. ASSUME NEW c \in Callers, CloseHandle(c)
      PROVE  TypeOK' /\ WorkInv'
  BY <1>4 DEF CloseHandle, managerVars, engineVars
<1>5. ASSUME NEW c \in Callers, ClearSource(c)
      PROVE  TypeOK' /\ WorkInv'
  BY <1>5 DEF ClearSource, engineVars, packetVars
<1>6. ASSUME NEW c \in Callers, NewEngine(c)
      PROVE  TypeOK' /\ WorkInv'
  BY <1>6 DEF NewEngine, managerVars, driverVars, engineVars, packetVars
<1>7. ASSUME NEW c \in Callers, OpenFails(c)
      PROVE  TypeOK' /\ WorkInv'
  BY <1>7 DEF OpenFails, managerVars, driverVars, engineVars, packetVars
<1>8. ASSUME NEW c \in Callers, NEW s \in Sources, NEW h \in Handles, OpenSource(c, s, h)
      PROVE  TypeOK' /\ WorkInv'
  BY <1>8 DEF OpenSource, packetVars
<1>9. ASSUME NEW c \in Callers, Unlock(c)
      PROVE  TypeOK' /\ WorkInv'
  BY <1>9 DEF Unlock, driverVars, engineVars, packetVars
<1>10. ASSUME NEW s \in Sources, RecvLoad(s)
       PROVE  TypeOK' /\ WorkInv'
  BY <1>10 DEF RecvLoad, managerVars, callerVars, driverVars, packetVars
<1>11. ASSUME NEW s \in Sources, RecvIssue(s)
       PROVE  TypeOK' /\ WorkInv'
  BY <1>11 DEF RecvIssue, Target, managerVars, callerVars, driverVars, packetVars
<1>12. ASSUME NEW s \in Sources, NEW p \in Packets, RecvPacket(s, p)
       PROVE  TypeOK' /\ WorkInv'
  BY <1>12 DEF RecvPacket, managerVars, callerVars, driverVars
<1>13. ASSUME NEW s \in Sources, RecvClosed(s)
       PROVE  TypeOK' /\ WorkInv'
  BY <1>13 DEF RecvClosed, managerVars, callerVars, driverVars, packetVars
<1>14. ASSUME NEW s \in Sources, RecvFault(s)
       PROVE  TypeOK' /\ WorkInv'
  BY <1>14 DEF RecvFault, managerVars, callerVars, driverVars, packetVars
<1>15. ASSUME NEW s \in Sources, NEW n \in 0..MaxOut, Process(s, n)
       PROVE  TypeOK' /\ WorkInv'
  <2>1. n \in Nat /\ (n # 0 => n > 0)
    BY <1>15
  <2>2. TypeOK'
    BY <1>15, <2>1 DEF Process, managerVars, callerVars, driverVars
  <2>3. WorkInv'
    BY <1>15, <2>1 DEF Process
  <2> QED
    BY <2>2, <2>3
<1>16. ASSUME NEW s \in Sources, SendLoad(s)
       PROVE  TypeOK' /\ WorkInv'
  BY <1>16 DEF SendLoad, managerVars, callerVars, driverVars, packetVars
<1>17. ASSUME NEW s \in Sources, SendIssue(s) \/ SendFault(s)
       PROVE  TypeOK' /\ WorkInv'
  <2>1. SendNext(s) /\ left[s] \in Nat /\ left[s] > 0
    BY <1>17 DEF SendIssue, SendFault, SendNext
  <2>2. left' \in [Sources -> Nat]
    BY <2>1 DEF SendNext
  <2>3. fate' \in [Packets -> Fates]
    BY <1>17 DEF SendIssue, SendFault
  <2>4. TypeOK'
    BY <2>1, <2>2, <2>3 DEF SendNext, managerVars, callerVars, driverVars
  <2>5. WorkInv'
    BY <2>1 DEF SendNext
  <2> QED
    BY <2>4, <2>5
<1>18. ASSUME NEW p \in Packets, Capture(p)
       PROVE  TypeOK' /\ WorkInv'
  BY <1>18 DEF Capture, Live, managerVars, callerVars, driverVars, engineVars
<1>19. CASE UNCHANGED vars
  BY <1>19 DEF vars, managerVars, callerVars, driverVars, engineVars, packetVars
<1> QED
  BY <1>1, <1>2, <1>3, <1>4, <1>5, <1>6, <1>7, <1>8, <1>9, <1>10, <1>11, <1>12,
     <1>13, <1>14, <1>15, <1>16, <1>17, <1>18, <1>19 DEF Next, CallerStep, EngineStep, Fault
-----------------------------------------------------------------------------
(* Frames: what the engine goroutines and the network leave alone.         *)

(* A step of one goroutine leaves the callers, the driver and the other    *)
(* goroutines alone.                                                       *)
LEMMA EngineFrame ==
  ASSUME TypeOK, NEW s \in Sources, EngineStep(s) \/ Fault(s)
  PROVE  /\ UNCHANGED <<mu, src, running, pc, req, res, handle, table, conf, shown>>
         /\ \A t \in Sources : t # s => /\ eng'[t] = eng[t]
                                        /\ reg'[t] = reg[t]
                                        /\ at'[t] = at[t]
                                        /\ held'[t] = held[t]
         /\ eng[s] # "none" /\ eng'[s] # "none"
<1> USE DEF TypeOK, Step, managerVars, callerVars, driverVars, packetVars
<1>1. CASE RecvLoad(s)
  BY <1>1 DEF RecvLoad
<1>2. CASE RecvIssue(s)
  BY <1>2 DEF RecvIssue
<1>3. ASSUME NEW p \in Packets, RecvPacket(s, p)
      PROVE  /\ UNCHANGED <<mu, src, running, pc, req, res, handle, table, conf, shown>>
             /\ \A t \in Sources : t # s => /\ eng'[t] = eng[t]
                                            /\ reg'[t] = reg[t]
                                            /\ at'[t] = at[t]
                                            /\ held'[t] = held[t]
             /\ eng[s] # "none" /\ eng'[s] # "none"
  BY <1>3 DEF RecvPacket
<1>4. CASE RecvClosed(s) \/ RecvFault(s)
  BY <1>4 DEF RecvClosed, RecvFault
<1>5. ASSUME NEW n \in 0..MaxOut, Process(s, n)
      PROVE  /\ UNCHANGED <<mu, src, running, pc, req, res, handle, table, conf, shown>>
             /\ \A t \in Sources : t # s => /\ eng'[t] = eng[t]
                                            /\ reg'[t] = reg[t]
                                            /\ at'[t] = at[t]
                                            /\ held'[t] = held[t]
             /\ eng[s] # "none" /\ eng'[s] # "none"
  BY <1>5 DEF Process
<1>6. CASE SendLoad(s)
  BY <1>6 DEF SendLoad
<1>7. CASE SendIssue(s) \/ SendFault(s)
  BY <1>7 DEF SendIssue, SendFault, SendNext
<1> QED
  BY <1>1, <1>2, <1>3, <1>4, <1>5, <1>6, <1>7 DEF EngineStep, Fault

-----------------------------------------------------------------------------
(* The lock.                                                               *)

(* Whoever enters the critical section found the mutex free.               *)
LEMMA MutexStep == TypeOK /\ MutualExclusion /\ [Next]_vars => MutualExclusion'
<1> SUFFICES ASSUME TypeOK, MutualExclusion, [Next]_vars
             PROVE  MutualExclusion'
  OBVIOUS
<1> USE ConstantsAssumption DEF TypeOK, MutualExclusion, Critical, Go, managerVars
<1>1. ASSUME NEW c \in Callers, NEW r \in Requests, Invoke(c, r)
      PROVE  MutualExclusion'
  BY <1>1 DEF Invoke
<1>2. ASSUME NEW c \in Callers, Lock(c)
      PROVE  MutualExclusion'
  BY <1>2 DEF Lock
<1>3. ASSUME NEW c \in Callers, CallerStep(c), ~Unlock(c)
      PROVE  MutualExclusion'
  <2>1. mu' = mu /\ \E k \in CallerPC \ {"idle", "lock"} :
          /\ pc[c] \notin {"idle", "lock"}
          /\ pc' = [pc EXCEPT ![c] = k]
    BY <1>3 DEF CallerStep, ReadRunning, CloseHandle, ClearSource, NewEngine, OpenFails,
                OpenSource, CallerPC
  <2> QED
    BY <2>1 DEF CallerPC
<1>4. ASSUME NEW c \in Callers, Unlock(c)
      PROVE  MutualExclusion'
  BY <1>4 DEF Unlock
<1>5. ASSUME NEW s \in Sources, EngineStep(s) \/ Fault(s)
      PROVE  MutualExclusion'
  BY <1>5, EngineFrame
<1>6. ASSUME NEW p \in Packets, Capture(p)
      PROVE  MutualExclusion'
  BY <1>6 DEF Capture, callerVars
<1>7. CASE UNCHANGED vars
  BY <1>7 DEF vars, callerVars
<1> QED
  BY <1>1, <1>2, <1>3, <1>4, <1>5, <1>6, <1>7 DEF Next

(* Only Apply and Stop close the source, only Apply opens one.             *)
LEMMA OpStep == TypeOK /\ OpInv /\ [Next]_vars => OpInv'
<1> SUFFICES ASSUME TypeOK, OpInv, [Next]_vars
             PROVE  OpInv'
  OBVIOUS
<1> USE DEF TypeOK, OpInv, Go
<1>1. ASSUME NEW c \in Callers, NEW r \in Requests, Invoke(c, r)
      PROVE  OpInv'
  BY <1>1 DEF Invoke
<1>2. ASSUME NEW c \in Callers, Lock(c) \/ CallerStep(c)
      PROVE  OpInv'
  <2>1. req' = req
    BY <1>2 DEF Lock, CallerStep, ReadRunning, CloseHandle, ClearSource, NewEngine, OpenFails,
                OpenSource, Unlock
  <2>2. CASE Lock(c) \/ ReadRunning(c) \/ CloseHandle(c)
    BY <2>1, <2>2 DEF Lock, ReadRunning, CloseHandle
  <2>3. CASE ClearSource(c)
    BY <2>1, <2>3 DEF ClearSource
  <2>4. CASE NewEngine(c) \/ OpenFails(c) \/ Unlock(c)
    BY <2>1, <2>4 DEF NewEngine, OpenFails, Unlock
  <2>5. ASSUME NEW s \in Sources, NEW h \in Handles, OpenSource(c, s, h)
        PROVE  OpInv'
    BY <2>1, <2>5 DEF OpenSource
  <2> QED
    BY <1>2, <2>2, <2>3, <2>4, <2>5 DEF CallerStep
<1>3. ASSUME NEW s \in Sources, EngineStep(s) \/ Fault(s)
      PROVE  OpInv'
  BY <1>3, EngineFrame
<1>4. ASSUME NEW p \in Packets, Capture(p)
      PROVE  OpInv'
  BY <1>4 DEF Capture, callerVars
<1>5. CASE UNCHANGED vars
  BY <1>5 DEF vars, callerVars
<1> QED
  BY <1>1, <1>2, <1>3, <1>4, <1>5 DEF Next

-----------------------------------------------------------------------------
(* m.src, m.running, w.handle and the kernel's table.                      *)

(* What the kernel captures for stays the registered source, and each step *)
(* of the lock's holder leaves the fields the next one expects.            *)
LEMMA RegistryStep ==
  TypeOK /\ MutualExclusion /\ OpInv /\ RegistryInv /\ PhaseInv /\ [Next]_vars
    => RegistryInv' /\ PhaseInv'
<1> SUFFICES ASSUME TypeOK, MutualExclusion, OpInv, RegistryInv, PhaseInv, [Next]_vars
             PROVE  RegistryInv' /\ PhaseInv'
  OBVIOUS
<1> USE ConstantsAssumption DEF TypeOK, MutualExclusion, Critical, RegistryInv, PhaseInv, Go
<1>1. ASSUME NEW c \in Callers, NEW r \in Requests, Invoke(c, r)
      PROVE  RegistryInv' /\ PhaseInv'
  BY <1>1 DEF Invoke, managerVars, driverVars, engineVars
<1>2. ASSUME NEW c \in Callers, Lock(c)
      PROVE  RegistryInv' /\ PhaseInv'
  BY <1>2 DEF Lock, driverVars, engineVars
<1>3. ASSUME NEW c \in Callers, ReadRunning(c)
      PROVE  RegistryInv' /\ PhaseInv'
  BY <1>3 DEF ReadRunning, managerVars, driverVars, engineVars
<1>4. ASSUME NEW c \in Callers, CloseHandle(c)
      PROVE  RegistryInv' /\ PhaseInv'
  <2>1. \A h \in Handles : table'[h] = None
    BY <1>4 DEF CloseHandle
  <2> QED
    BY <1>4, <2>1 DEF CloseHandle, managerVars, engineVars
<1>5. ASSUME NEW c \in Callers, ClearSource(c)
      PROVE  RegistryInv' /\ PhaseInv'
  <2>1. \A h \in Handles : table'[h] = None
    BY <1>5 DEF ClearSource
  <2>2. \A s \in Sources : handle'[s] = None
    BY <1>5 DEF ClearSource
  <2>3. src' = None /\ ~running'
    BY <1>5 DEF ClearSource
  <2>4. \A d \in Callers : pc'[d] # "clear"
    BY <1>5 DEF ClearSource
  <2> QED
    BY <2>1, <2>2, <2>3, <2>4
<1>6. ASSUME NEW c \in Callers, NewEngine(c) \/ OpenFails(c)
      PROVE  RegistryInv' /\ PhaseInv'
  BY <1>6 DEF NewEngine, OpenFails, managerVars, driverVars, engineVars
<1>7. ASSUME NEW c \in Callers, NEW s \in Sources, NEW h \in Handles, OpenSource(c, s, h)
      PROVE  RegistryInv' /\ PhaseInv'
  <2>1. src = None /\ \A g \in Handles : table[g] = None
    BY <1>7 DEF OpenSource
  <2>2. \A t \in Sources : handle[t] = None
    BY <2>1
  <2>3. /\ src' = s
        /\ running'
        /\ handle' = [handle EXCEPT ![s] = h]
        /\ table' = [table EXCEPT ![h] = s]
        /\ eng'[s] # "none"
        /\ conf'[s] \in Configs
    BY <1>7 DEF OpenSource, OpInv, Requests
  <2>4. \A d \in Callers : pc'[d] \notin {"clear", "new", "open"}
    BY <1>7 DEF OpenSource
  <2> QED
    BY <2>1, <2>2, <2>3, <2>4
<1>8. ASSUME NEW c \in Callers, Unlock(c)
      PROVE  RegistryInv' /\ PhaseInv'
  BY <1>8 DEF Unlock, driverVars, engineVars
<1>9. ASSUME NEW s \in Sources, EngineStep(s) \/ Fault(s)
      PROVE  RegistryInv' /\ PhaseInv'
  BY <1>9, EngineFrame
<1>10. ASSUME NEW p \in Packets, Capture(p)
       PROVE  RegistryInv' /\ PhaseInv'
  BY <1>10 DEF Capture, managerVars, callerVars, driverVars, engineVars
<1>11. CASE UNCHANGED vars
  BY <1>11 DEF vars, managerVars, callerVars, driverVars, engineVars
<1> QED
  BY <1>1, <1>2, <1>3, <1>4, <1>5, <1>6, <1>7, <1>8, <1>9, <1>10, <1>11 DEF Next, CallerStep
-----------------------------------------------------------------------------
(* What a call knows.                                                      *)

(* A call goes on to know what became of its source.                       *)
LEMMA CallStep ==
  TypeOK /\ MutualExclusion /\ OpInv /\ RegistryInv /\ PhaseInv /\ CallInv /\ [Next]_vars
    => CallInv'
<1> SUFFICES ASSUME TypeOK, MutualExclusion, OpInv, RegistryInv, PhaseInv, CallInv, [Next]_vars
             PROVE  CallInv'
  OBVIOUS
<1> USE ConstantsAssumption DEF TypeOK, MutualExclusion, Critical, Go
<1>1. ASSUME NEW c \in Callers, NEW r \in Requests, Invoke(c, r)
      PROVE  CallInv'
  BY <1>1 DEF Invoke, CallInv, Registered, managerVars, engineVars
<1>2. ASSUME NEW c \in Callers, Lock(c)
      PROVE  CallInv'
  BY <1>2 DEF Lock, CallInv, Registered, engineVars
<1>3. ASSUME NEW c \in Callers, ReadRunning(c)
      PROVE  CallInv'
  <2>1. Registered' = Registered /\ shown' = shown /\ src' = src
    BY <1>3 DEF ReadRunning, Registered, managerVars, engineVars
  <2>2. Registered = shown /\ (running <=> shown # None)
    BY <1>3 DEF ReadRunning, CallInv, Registered, RegistryInv
  <2>3. \A d \in Callers \ {c} : pc'[d] = pc[d] /\ pc[d] \in {"idle", "lock"}
    BY <1>3 DEF ReadRunning, CallerPC
  <2>4. /\ pc'[c] = "unlock"
        /\ req'[c].op = "Running"
        /\ res'[c] = IF shown = None THEN "false" ELSE "true"
    BY <1>3, <2>2 DEF ReadRunning
  <2> QED
    BY <2>1, <2>2, <2>3, <2>4 DEF CallInv
<1>4. ASSUME NEW c \in Callers, CloseHandle(c)
      PROVE  CallInv'
  BY <1>4 DEF CloseHandle, CallInv, Registered, managerVars, engineVars
<1>5. ASSUME NEW c \in Callers, ClearSource(c)
      PROVE  CallInv'
  <2>1. \A d \in Callers \ {c} : pc'[d] = pc[d] /\ pc[d] \in {"idle", "lock"}
    BY <1>5 DEF ClearSource, CallerPC
  <2>2. src' = None /\ res'[c] = "ok" /\ req' = req /\ req[c].op # "Running"
    BY <1>5 DEF ClearSource
  <2>3. CASE req[c].op = "Apply"
    <3>1. pc'[c] = "new"
      BY <1>5, <2>3 DEF ClearSource
    <3> QED
      BY <2>1, <3>1 DEF CallInv
  <2>4. CASE req[c].op = "Stop"
    <3>1. pc'[c] = "unlock"
      BY <1>5, <2>4 DEF ClearSource
    <3> QED
      BY <2>1, <2>2, <2>4, <3>1 DEF CallInv
  <2> QED
    BY <2>2, <2>3, <2>4 DEF Requests
<1>6. ASSUME NEW c \in Callers, NewEngine(c) \/ OpenFails(c)
      PROVE  CallInv'
  <2>1. \A d \in Callers \ {c} : pc'[d] = pc[d] /\ pc[d] \in {"idle", "lock"}
    BY <1>6 DEF NewEngine, OpenFails, CallerPC
  <2>2. src' = src /\ src = None /\ req' = req /\ req[c].op = "Apply"
    BY <1>6 DEF NewEngine, OpenFails, PhaseInv, OpInv, managerVars
  <2>3. \/ pc'[c] = "unlock" /\ res'[c] = "error"
        \/ pc'[c] = "open" /\ res'[c] = "ok" /\ req[c].cfg \notin Invalid
    BY <1>6 DEF NewEngine, OpenFails
  <2> QED
    BY <2>1, <2>2, <2>3 DEF CallInv
<1>7. ASSUME NEW c \in Callers, NEW s \in Sources, NEW h \in Handles, OpenSource(c, s, h)
      PROVE  CallInv'
  <2>1. \A d \in Callers \ {c} : pc'[d] = pc[d] /\ pc[d] \in {"idle", "lock"}
    BY <1>7 DEF OpenSource, CallerPC
  <2>2. /\ pc'[c] = "unlock"
        /\ req' = req
        /\ req[c].op = "Apply"
        /\ req[c].cfg \notin Invalid
        /\ res'[c] = "ok"
        /\ src' = s
        /\ conf'[s] = req[c].cfg
    BY <1>7 DEF OpenSource, OpInv, CallInv
  <2> QED
    BY <2>1, <2>2 DEF CallInv
<1>8. ASSUME NEW c \in Callers, Unlock(c)
      PROVE  CallInv'
  BY <1>8 DEF Unlock, CallInv, Registered, engineVars
<1>9. ASSUME NEW s \in Sources, EngineStep(s) \/ Fault(s)
      PROVE  CallInv'
  BY <1>9, EngineFrame DEF CallInv, Registered
<1>10. ASSUME NEW p \in Packets, Capture(p)
       PROVE  CallInv'
  BY <1>10 DEF Capture, CallInv, Registered, managerVars, callerVars, engineVars
<1>11. CASE UNCHANGED vars
  BY <1>11 DEF vars, CallInv, Registered, managerVars, callerVars, engineVars
<1> QED
  BY <1>1, <1>2, <1>3, <1>4, <1>5, <1>6, <1>7, <1>8, <1>9, <1>10, <1>11 DEF Next, CallerStep

-----------------------------------------------------------------------------
(* The goroutines.                                                         *)

(* No source is live but the registered one, and its handle leads to it.   *)
LEMMA LiveIsRegistered ==
  ASSUME TypeOK, RegistryInv, NEW s \in Sources, s \in Live
  PROVE  /\ src = s
         /\ handle[s] \in Handles
         /\ table[handle[s]] = s
BY ConstantsAssumption DEF TypeOK, RegistryInv, Live

(* What the goroutine of a live source has read is the handle of that      *)
(* source, and the goroutine has not ended.                                *)
LEMMA EngineInvStep ==
  TypeOK /\ MutualExclusion /\ OpInv /\ RegistryInv /\ PhaseInv /\ EngineInv /\ ReaderInv
    /\ [Next]_vars => EngineInv' /\ ReaderInv'
<1> SUFFICES ASSUME TypeOK, MutualExclusion, OpInv, RegistryInv, PhaseInv, EngineInv, ReaderInv,
                    [Next]_vars
             PROVE  EngineInv' /\ ReaderInv'
  OBVIOUS
<1> USE ConstantsAssumption DEF TypeOK, EngineInv, ReaderInv
<1>1. ASSUME UNCHANGED <<handle, table, eng, reg, at>>
      PROVE  EngineInv' /\ ReaderInv'
  BY <1>1 DEF Live
<1>2. ASSUME NEW c \in Callers, CloseHandle(c)
      PROVE  EngineInv' /\ ReaderInv'
  <2>1. Live' = {}
    BY <1>2 DEF CloseHandle, RegistryInv, Live
  <2> QED
    BY <2>1
<1>3. ASSUME NEW c \in Callers, ClearSource(c)
      PROVE  EngineInv' /\ ReaderInv'
  <2>1. Live' = {}
    BY <1>3 DEF ClearSource, Go, RegistryInv, PhaseInv, Live
  <2> QED
    BY <2>1
<1>4. ASSUME NEW c \in Callers, NEW s \in Sources, NEW h \in Handles, OpenSource(c, s, h)
      PROVE  EngineInv' /\ ReaderInv'
  <2>1. Live' = {s}
    BY <1>4 DEF OpenSource, Go, RegistryInv, PhaseInv, Live
  <2>2. eng'[s] = "top"
    BY <1>4 DEF OpenSource
  <2> QED
    BY <2>1, <2>2
<1>5. ASSUME NEW s \in Sources, EngineStep(s) \/ Fault(s)
      PROVE  EngineInv' /\ ReaderInv'
  <2>1. Live' = Live
    BY <1>5, EngineFrame DEF Live
  <2>2. SUFFICES ASSUME s \in Live
                 PROVE  /\ eng'[s] \in {"recv", "inject"} => reg'[s] = handle'[s]
                        /\ eng'[s] = "wait" => at'[s] = s
                        /\ eng'[s] # "exit"
    BY <1>5, <2>1, EngineFrame
  <2>3. src = s /\ handle[s] \in Handles /\ table[handle[s]] = s
    BY <2>2, LiveIsRegistered
  <2>4. CASE RecvLoad(s) \/ SendLoad(s)
    BY <2>4 DEF RecvLoad, SendLoad, Step, driverVars
  <2>5. CASE RecvIssue(s)
    BY <2>2, <2>3, <2>5 DEF RecvIssue, Step, Target
  <2>6. CASE RecvClosed(s)
    BY <2>2, <2>3, <2>6 DEF RecvClosed, Step, Target
  <2>7. CASE RecvFault(s)
    BY <2>7 DEF RecvFault, Step
  <2>8. CASE \E p \in Packets : RecvPacket(s, p)
    BY <2>8 DEF RecvPacket, Step
  <2>9. CASE \E n \in 0..MaxOut : Process(s, n)
    BY <2>9 DEF Process, Step
  <2>10. CASE SendIssue(s) \/ SendFault(s)
    BY <2>10 DEF SendIssue, SendFault, SendNext, Step
  <2> QED
    BY <1>5, <2>4, <2>5, <2>6, <2>7, <2>8, <2>9, <2>10 DEF EngineStep, Fault
<1>6. ASSUME NEW c \in Callers,
             Lock(c) \/ ReadRunning(c) \/ NewEngine(c) \/ OpenFails(c) \/ Unlock(c)
               \/ \E r \in Requests : Invoke(c, r)
      PROVE  UNCHANGED <<handle, table, eng, reg, at>>
  BY <1>6 DEF Lock, ReadRunning, NewEngine, OpenFails, Unlock, Invoke, driverVars, engineVars
<1>7. ASSUME NEW p \in Packets, Capture(p)
      PROVE  UNCHANGED <<handle, table, eng, reg, at>>
  BY <1>7 DEF Capture, driverVars, engineVars
<1>8. ASSUME UNCHANGED vars
      PROVE  UNCHANGED <<handle, table, eng, reg, at>>
  BY <1>8 DEF vars, driverVars, engineVars
<1> QED
  BY <1>1, <1>2, <1>3, <1>4, <1>5, <1>6, <1>7, <1>8 DEF Next, CallerStep

(* A goroutine that waits on another source's queue has lost its own       *)
(* source, and one that has taken a packet there does not wait again.      *)
LEMMA StrayStep ==
  TypeOK /\ MutualExclusion /\ OpInv /\ RegistryInv /\ PhaseInv /\ StrayInv /\ [Next]_vars
    => StrayInv'
<1> SUFFICES ASSUME TypeOK, MutualExclusion, OpInv, RegistryInv, PhaseInv, StrayInv, [Next]_vars
             PROVE  StrayInv'
  OBVIOUS
<1> USE ConstantsAssumption DEF TypeOK
<1>1. ASSUME UNCHANGED <<src, handle, eng, reg, fate, via, by>>
      PROVE  StrayInv'
  BY <1>1 DEF StrayInv
<1>2. ASSUME NEW c \in Callers, CloseHandle(c)
      PROVE  StrayInv'
  <2>1. UNCHANGED <<src, handle, eng, reg, via, by>>
    BY <1>2 DEF CloseHandle, managerVars, engineVars
  <2>2. \A p \in Packets : fate[p] # "unsent" => fate'[p] # "unsent"
    BY <1>2 DEF CloseHandle
  <2> QED
    BY <2>1, <2>2 DEF StrayInv
<1>3. ASSUME NEW c \in Callers, ClearSource(c)
      PROVE  StrayInv'
  <2>1. UNCHANGED <<eng, reg, fate, via, by>>
    BY <1>3 DEF ClearSource, engineVars, packetVars
  <2>2. src' = None /\ \A s \in Sources : handle'[s] = None
    BY <1>3 DEF ClearSource, RegistryInv
  <2> QED
    BY <2>1, <2>2 DEF StrayInv
<1>4. ASSUME NEW c \in Callers, NEW s \in Sources, NEW h \in Handles, OpenSource(c, s, h)
      PROVE  StrayInv'
  <2>1. UNCHANGED <<reg, fate, via, by>> /\ eng[s] = "none" /\ src' = s
    BY <1>4 DEF OpenSource, packetVars
  <2>2. \A t \in Sources \ {s} : handle'[t] = handle[t] /\ eng'[t] = eng[t]
    BY <1>4 DEF OpenSource
  <2> QED
    BY <2>1, <2>2 DEF StrayInv
<1>5. ASSUME NEW s \in Sources, EngineStep(s) \/ Fault(s)
      PROVE  StrayInv'
  <2>1. /\ UNCHANGED <<src, handle, table>>
        /\ \A t \in Sources \ {s} : eng'[t] = eng[t] /\ reg'[t] = reg[t]
        /\ eng[s] # "none" /\ eng'[s] # "none"
    BY <1>5, EngineFrame
  <2>2. via' = via
    BY <1>5 DEF EngineStep, Fault, RecvLoad, RecvIssue, RecvPacket, RecvClosed, RecvFault,
                Process, SendLoad, SendIssue, SendFault, SendNext, packetVars
  <2>3. \A p \in Packets : fate[p] # "unsent" => fate'[p] # "unsent"
    BY <1>5 DEF EngineStep, Fault, RecvLoad, RecvIssue, RecvPacket, RecvClosed, RecvFault,
                Process, SendLoad, SendIssue, SendFault, SendNext, packetVars
  <2>4. CASE \E p \in Packets : RecvPacket(s, p)
    <3>1. PICK p \in Packets : RecvPacket(s, p)
      BY <2>4
    <3>2. /\ eng[s] = "wait" /\ eng'[s] = "process"
          /\ via[p] = at[s] /\ at[s] \in Live
          /\ by' = [by EXCEPT ![p] = s]
          /\ fate'[p] = "held"
      BY <3>1 DEF RecvPacket, Step
    <3>3. at[s] = src
      BY <3>2 DEF Live, RegistryInv
    <3>4. s # via[p] => s # src /\ handle[s] = None
      BY <3>2, <3>3 DEF RegistryInv
    <3> QED
      BY <2>1, <2>2, <2>3, <3>2, <3>4 DEF StrayInv
  <2>5. ASSUME by' = by,
               eng'[s] = "wait" => reg[s] # None /\ eng[s] = "recv",
               eng'[s] = "recv" => reg'[s] = handle[s]
        PROVE  StrayInv'
    BY <2>1, <2>2, <2>3, <2>5 DEF StrayInv
  <2>6. CASE RecvLoad(s) \/ SendLoad(s)
    BY <2>5, <2>6 DEF RecvLoad, SendLoad, Step, packetVars
  <2>7. CASE RecvIssue(s)
    BY <2>5, <2>7 DEF RecvIssue, Target, Step, packetVars
  <2>8. CASE RecvClosed(s) \/ RecvFault(s)
    BY <2>5, <2>8 DEF RecvClosed, RecvFault, Step, packetVars
  <2>9. CASE \E n \in 0..MaxOut : Process(s, n)
    BY <2>5, <2>9 DEF Process, Step
  <2>10. CASE SendIssue(s) \/ SendFault(s)
    BY <2>5, <2>10 DEF SendIssue, SendFault, SendNext, Step
  <2> QED
    BY <1>5, <2>4, <2>6, <2>7, <2>8, <2>9, <2>10 DEF EngineStep, Fault
<1>6. ASSUME NEW c \in Callers,
             Lock(c) \/ ReadRunning(c) \/ NewEngine(c) \/ OpenFails(c)
               \/ Unlock(c) \/ \E r \in Requests : Invoke(c, r)
      PROVE  UNCHANGED <<src, handle, eng, reg, fate, via, by>>
  BY <1>6 DEF Lock, ReadRunning, NewEngine, OpenFails, Unlock, Invoke,
              managerVars, driverVars, engineVars, packetVars
<1>7. ASSUME NEW p \in Packets, Capture(p)
      PROVE  StrayInv'
  <2>1. UNCHANGED <<src, handle, eng, reg, by>> /\ fate[p] = "unsent" /\ fate'[p] # "unsent"
    BY <1>7 DEF Capture, managerVars, driverVars, engineVars
  <2>2. \A q \in Packets \ {p} : fate'[q] = fate[q] /\ via'[q] = via[q]
    BY <1>7 DEF Capture
  <2> QED
    BY <2>1, <2>2 DEF StrayInv
<1>8. ASSUME UNCHANGED vars
      PROVE  UNCHANGED <<src, handle, eng, reg, fate, via, by>>
  BY <1>8 DEF vars, managerVars, driverVars, engineVars, packetVars
<1> QED
  BY <1>1, <1>2, <1>3, <1>4, <1>5, <1>6, <1>7, <1>8 DEF Next, CallerStep
-----------------------------------------------------------------------------
(* Inv is inductive, and with it every safety property follows.            *)

(* The invariant holds before the first call.                              *)
LEMMA InvInit == Init => Inv
<1> SUFFICES ASSUME Init
             PROVE  Inv
  OBVIOUS
<1> USE ConstantsAssumption DEF Init
<1>1. TypeOK /\ WorkInv
  BY DEF TypeOK, WorkInv, Requests, Results, CallerPC, EnginePC, Fates
<1>2. MutualExclusion /\ OpInv /\ RegistryInv /\ PhaseInv /\ CallInv
  BY DEF MutualExclusion, Critical, OpInv, RegistryInv, PhaseInv, CallInv
<1>3. EngineInv /\ ReaderInv /\ StrayInv
  BY DEF EngineInv, ReaderInv, StrayInv, Live
<1> QED
  BY <1>1, <1>2, <1>3 DEF Inv

(* Every step of a caller, a goroutine or the network preserves it.        *)
LEMMA InvStep == Inv /\ [Next]_vars => Inv'
BY TypeStep, MutexStep, OpStep, RegistryStep, CallStep, EngineInvStep, StrayStep DEF Inv

(* The invariant holds in every reachable state.                           *)
LEMMA Invariant == Spec => []Inv
BY InvInit, InvStep, PTL DEF Spec

(* Every reachable state is well typed: no packet, source or handle value  *)
(* appears where the code has none.                                        *)
THEOREM TypeCorrect == Spec => []TypeOK
<1>1. Inv => TypeOK
  BY DEF Inv
<1> QED
  BY <1>1, Invariant, PTL

(* Between Lock and Unlock of m.mu there is one goroutine at most.         *)
THEOREM MutexCorrect == Spec => []MutualExclusion
<1>1. Inv => MutualExclusion
  BY DEF Inv
<1> QED
  BY <1>1, Invariant, PTL

(* However restarts interleave with the goroutines they replace, no two    *)
(* handles ever capture together.                                          *)
THEOREM CaptureExclusive == Spec => []ExclusiveCapture
<1>1. Inv => ExclusiveCapture
  BY DEF Inv, RegistryInv, ExclusiveCapture
<1> QED
  BY <1>1, Invariant, PTL

(* With the lock free, the kernel captures for m.src or for nothing, and   *)
(* m.running says which.                                                   *)
THEOREM NoOrphans == Spec => []NoOrphanSource
<1>1. ASSUME Inv, mu = None
      PROVE  /\ Live = IF src = None THEN {} ELSE {src}
             /\ running <=> src # None
  <2>1. \A c \in Callers : pc[c] # "clear"
    BY <1>1, ConstantsAssumption DEF Inv, MutualExclusion, Critical
  <2>2. \A s \in Live : s = src
    BY <1>1, ConstantsAssumption DEF Inv, RegistryInv, Live
  <2>3. src # None => src \in Live
    BY <1>1, <2>1 DEF Inv, TypeOK, PhaseInv, Live
  <2>4. Live \subseteq Sources
    BY DEF Live
  <2> QED
    BY <1>1, <2>2, <2>3, <2>4, ConstantsAssumption DEF Inv, RegistryInv
<1>2. Inv => NoOrphanSource
  BY <1>1 DEF NoOrphanSource
<1> QED
  BY <1>2, Invariant, PTL

(* When Apply returns an error nothing captures and nothing claims to run. *)
THEOREM FailedApplyIsClean == Spec => []FailedApplyLeavesNothing
<1>1. ASSUME Inv, NEW c \in Callers, pc[c] = "unlock", res[c] = "error"
      PROVE  Live = {} /\ ~running
  <2>1. src = None
    BY <1>1 DEF Inv, CallInv
  <2> QED
    BY <1>1, <2>1, ConstantsAssumption DEF Inv, RegistryInv, Live
<1>2. Inv => FailedApplyLeavesNothing
  BY <1>1 DEF FailedApplyLeavesNothing
<1> QED
  BY <1>2, Invariant, PTL

(* What a Running that reads true stands for: a registered source whose    *)
(* handle captures, and whose goroutine is in Run unless a receive failed. *)
THEOREM RunningMeans == Spec => []RunningUnlessFailed
<1>1. ASSUME Inv, NEW c \in Callers, Reads(c), running
      PROVE  src \in Live /\ eng[src] \notin {"none", "exit"}
  <2>1. src # None
    BY <1>1 DEF Inv, RegistryInv
  <2>2. \A d \in Callers : pc[d] # "clear"
    BY <1>1 DEF Inv, MutualExclusion, Critical, Reads
  <2>3. src \in Live
    BY <1>1, <2>1, <2>2 DEF Inv, TypeOK, PhaseInv, Live
  <2> QED
    BY <1>1, <2>1, <2>3 DEF Inv, ReaderInv, RegistryInv, Live
<1>2. Inv => RunningUnlessFailed
  BY <1>1 DEF RunningUnlessFailed
<1> QED
  BY <1>2, Invariant, PTL

(* However HANDLE values are given out again, a goroutine that has taken a *)
(* packet of another source never waits for a second one.                  *)
THEOREM StraysEnd == Spec => []StrayTakesOne
<1>1. Inv => StrayTakesOne
  BY ConstantsAssumption DEF Inv, StrayInv, StrayTakesOne, Strayed
<1> QED
  BY <1>1, Invariant, PTL

-----------------------------------------------------------------------------
(* Which steps lose a packet.                                              *)

(* A packet is lost from a queue that is no longer open, by a goroutine    *)
(* whose send finds no source, or by a send that the driver refuses.       *)
LEMMA WhoLoses ==
  ASSUME Inv, Next, NEW p \in Packets, fate[p] # "lost", fate'[p] = "lost"
  PROVE  \/ fate[p] = "queued" /\ via[p] \notin Live'
         \/ \E s \in Sources : /\ held[s] = p
                               /\ \/ Target(s) = None /\ eng[s] = "inject"
                                  \/ SendFault(s)
<1> USE DEF Inv, TypeOK
<1>1. ASSUME UNCHANGED fate
      PROVE  FALSE
  BY <1>1
<1>2. ASSUME NEW c \in Callers, CloseHandle(c)
      PROVE  fate[p] = "queued" /\ via[p] \notin Live'
  <2>1. Live' = {}
    BY <1>2, ConstantsAssumption DEF CloseHandle, RegistryInv, Live
  <2> QED
    BY <1>2, <2>1 DEF CloseHandle
<1>3. ASSUME NEW s \in Sources, SendIssue(s)
      PROVE  held[s] = p /\ Target(s) = None /\ eng[s] = "inject"
  BY <1>3 DEF SendIssue, SendNext, Step
<1>4. ASSUME NEW s \in Sources, NEW q \in Packets, RecvPacket(s, q)
      PROVE  FALSE
  BY <1>4 DEF RecvPacket
<1>5. ASSUME NEW s \in Sources, NEW n \in 0..MaxOut, Process(s, n)
      PROVE  FALSE
  BY <1>5 DEF Process
<1>6. ASSUME NEW q \in Packets, Capture(q)
      PROVE  FALSE
  BY <1>6 DEF Capture
<1>7. ASSUME NEW c \in Callers,
             \/ Lock(c) \/ ReadRunning(c) \/ ClearSource(c) \/ NewEngine(c) \/ OpenFails(c)
             \/ Unlock(c) \/ \E r \in Requests : Invoke(c, r)
             \/ \E s \in Sources, h \in Handles : OpenSource(c, s, h)
      PROVE  UNCHANGED fate
  BY <1>7 DEF Lock, ReadRunning, ClearSource, NewEngine, OpenFails, Unlock, Invoke, OpenSource,
              packetVars
<1>8. ASSUME NEW s \in Sources,
             RecvLoad(s) \/ RecvIssue(s) \/ RecvClosed(s) \/ RecvFault(s) \/ SendLoad(s)
      PROVE  UNCHANGED fate
  BY <1>8 DEF RecvLoad, RecvIssue, RecvClosed, RecvFault, SendLoad, packetVars
<1>9. ASSUME NEW s \in Sources, SendFault(s)
      PROVE  held[s] = p
  BY <1>9 DEF SendFault
<1> QED
  BY <1>1, <1>2, <1>3, <1>4, <1>5, <1>6, <1>7, <1>8, <1>9 DEF Next, CallerStep, EngineStep, Fault

(* A goroutine about to inject finds no source only if its own is closed.  *)
LEMMA DeadTarget ==
  ASSUME Inv, NEW s \in Sources, eng[s] = "inject", Target(s) = None
  PROVE  s \notin Live
<1> SUFFICES ASSUME s \in Live
             PROVE  FALSE
  OBVIOUS
<1>1. handle[s] \in Handles /\ table[handle[s]] = s
  BY LiveIsRegistered DEF Inv
<1>2. reg[s] = handle[s]
  BY DEF Inv, EngineInv
<1> QED
  BY <1>1, <1>2, ConstantsAssumption DEF Target

(* A packet is lost by the close of a handle or by a send that the driver  *)
(* refuses on an open one, and in no other way.                            *)
THEOREM LossOnlyByClose == Spec => LossNeedsClose
<1> DEFINE Justified == \A p \in Packets :
      fate[p] # "lost" /\ fate'[p] = "lost" =>
        \/ fate[p] = "queued" /\ via[p] \notin Live'
        \/ \E s \in Sources : held[s] = p /\ (s \notin Live \/ SendFault(s))
<1>1. Inv /\ Next => Justified
  BY WhoLoses, DeadTarget
<1>2. Inv /\ [Next]_vars => [Justified]_vars
  BY <1>1
<1> QED
  BY <1>2, Invariant, PTL DEF Spec, LossNeedsClose

-----------------------------------------------------------------------------
(* Refinement.                                                             *)

(* A step of the manager is a step of the one-slot specification.          *)
LEMMA SlotStep == Inv /\ [Next]_vars => [Slot!Next]_(Slot!vars)
<1> SUFFICES ASSUME Inv, [Next]_vars
             PROVE  [Slot!Next]_(Slot!vars)
  OBVIOUS
<1> DEFINE active == IF mu = None THEN Registered ELSE shown
           pending == [c \in Callers |-> IF pc[c] = "idle" THEN None ELSE req[c]]
           ret == [c \in Callers |-> IF pc[c] = "idle" THEN res[c] ELSE "none"]
<1> USE ConstantsAssumption DEF Go
<1>0. TypeOK /\ MutualExclusion /\ CallInv
  BY DEF Inv
<1>1. ASSUME UNCHANGED <<active, pending, ret>>
      PROVE  [Slot!Next]_(Slot!vars)
  BY <1>1 DEF Slot!vars
<1>2. ASSUME NEW c \in Callers, NEW r \in Requests, Invoke(c, r)
      PROVE  [Slot!Next]_(Slot!vars)
  <2>1. pending[c] = None /\ active' = active
    BY <1>2 DEF Invoke, Registered, managerVars, engineVars
  <2>2. pending' = [pending EXCEPT ![c] = r] /\ ret' = [ret EXCEPT ![c] = "none"]
    BY <1>0, <1>2 DEF Invoke, TypeOK
  <2>3. Slot!Call(c, r)
    BY <2>1, <2>2 DEF Slot!Call
  <2>4. r \in Slot!Requests
    BY DEF Requests, Slot!Requests
  <2> QED
    BY <2>3, <2>4 DEF Slot!Next
<1>3. ASSUME NEW c \in Callers, Lock(c)
      PROVE  UNCHANGED <<active, pending, ret>>
  BY <1>0, <1>3 DEF Lock, TypeOK, Registered, engineVars
<1>4. ASSUME NEW c \in Callers, CallerStep(c), ~Unlock(c)
      PROVE  UNCHANGED <<active, pending, ret>>
  <2>1. /\ UNCHANGED <<mu, req, shown>>
        /\ pc[c] \notin {"idle", "lock"}
        /\ \E k \in CallerPC \ {"idle", "lock"} : pc' = [pc EXCEPT ![c] = k]
        /\ \A d \in Callers \ {c} : res'[d] = res[d]
    BY <1>0, <1>4 DEF CallerStep, ReadRunning, CloseHandle, ClearSource, NewEngine, OpenFails,
                      OpenSource, CallerPC, managerVars, TypeOK
  <2>2. mu # None
    BY <1>0, <2>1 DEF MutualExclusion, Critical
  <2>3. active' = active
    BY <2>1, <2>2
  <2>4. pending' = pending
    BY <1>0, <2>1 DEF TypeOK
  <2>5. ret' = ret
    BY <1>0, <2>1 DEF TypeOK
  <2> QED
    BY <2>3, <2>4, <2>5
<1>5. ASSUME NEW c \in Callers, Unlock(c)
      PROVE  [Slot!Next]_(Slot!vars)
  <2>1. mu = c /\ active = shown /\ active' = Registered
    BY <1>0, <1>5 DEF Unlock, MutualExclusion, Critical, Registered, engineVars
  <2>2. pending[c] = req[c] /\ pending[c] # None
    BY <1>0, <1>5, RequestsAssumption DEF Unlock, TypeOK
  <2>3. pending' = [pending EXCEPT ![c] = None] /\ ret' = [ret EXCEPT ![c] = res[c]]
    BY <1>0, <1>5 DEF Unlock, TypeOK
  <2>4. Slot!Return(c, Registered, res[c])
    BY <2>1, <2>3 DEF Slot!Return
  <2>5. CASE req[c].op = "Running"
    <3>1. Registered = shown /\ res[c] = IF shown = None THEN "false" ELSE "true"
      BY <1>0, <1>5, <2>5 DEF Unlock, CallInv
    <3>2. Slot!Running(c)
      BY <2>1, <2>2, <2>4, <2>5, <3>1 DEF Slot!Running, Slot!Return
    <3> QED
      BY <3>2 DEF Slot!Next
  <2>6. CASE req[c].op = "Stop"
    <3>1. Registered = None /\ res[c] = "ok"
      BY <1>0, <1>5, <2>6 DEF Unlock, CallInv, Registered
    <3>2. Slot!Stop(c)
      BY <2>2, <2>4, <2>6, <3>1 DEF Slot!Stop, Slot!Return
    <3> QED
      BY <3>2 DEF Slot!Next
  <2>7. CASE req[c].op = "Apply"
    <3>1. \/ Registered = None /\ res[c] = "error"
          \/ Registered = req[c].cfg /\ req[c].cfg \notin Invalid /\ res[c] = "ok"
      BY <1>0, <1>5, <2>7 DEF Unlock, CallInv, Registered
    <3>2. Slot!Apply(c)
      BY <2>2, <2>4, <2>7, <3>1 DEF Slot!Apply, Slot!Return
    <3> QED
      BY <3>2 DEF Slot!Next
  <2> QED
    BY <1>0, <2>5, <2>6, <2>7 DEF TypeOK, Requests
<1>6. ASSUME NEW s \in Sources, EngineStep(s) \/ Fault(s)
      PROVE  UNCHANGED <<active, pending, ret>>
  BY <1>0, <1>6, EngineFrame DEF Registered
<1>7. ASSUME NEW p \in Packets, Capture(p)
      PROVE  UNCHANGED <<active, pending, ret>>
  BY <1>7 DEF Capture, Registered, managerVars, callerVars, engineVars
<1>8. ASSUME UNCHANGED vars
      PROVE  UNCHANGED <<active, pending, ret>>
  BY <1>8 DEF vars, Registered, managerVars, callerVars, engineVars
<1> QED
  BY <1>1, <1>2, <1>3, <1>4, <1>5, <1>6, <1>7, <1>8 DEF Next

(* The manager is linearisable: it implements the one-slot specification   *)
(* the tray is written against.                                            *)
THEOREM ManagerImplementsSlot == Spec => ImplementsSlot
<1>1. Init => Slot!Init
  BY DEF Init, Registered, Slot!Init
<1> QED
  BY <1>1, SlotStep, Invariant, PTL DEF Spec, ImplementsSlot, Slot!Spec
=============================================================================
