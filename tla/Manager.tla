------------------------------ MODULE Manager ------------------------------
(***************************************************************************)
(* The engine lifecycle of internal/tray/manager.go, together with the two *)
(* things it drives: the goroutine that runs engine.Run on an opened       *)
(* source (internal/engine/engine.go) and the WinDivert handle behind that *)
(* source (internal/divert/windivert_windows.go).                          *)
(*                                                                         *)
(* Callers (the menu loop and the reconfigure goroutines) enter Apply,     *)
(* Stop and Running, which serialise on the mutex mu.  Closing a source    *)
(* does not wait for the goroutine that reads from it, and that goroutine  *)
(* reads the field w.handle without holding mu: the interleavings of the   *)
(* two are what this module is about.                                      *)
(***************************************************************************)
EXTENDS FiniteSets, Naturals

CONSTANTS
  Callers,   \* goroutines that call the manager
  Configs,   \* (cfg, lists) pairs passed to Apply
  Invalid,   \* the Configs whose strategy desync.Get does not know
  Sources,   \* opened sources, in any order; bounds the number of opens
  Handles,   \* HANDLE values the operating system gives out
  Packets,   \* outbound packets that match the filter
  MaxOut,    \* most packets Process returns for one packet
  Faults,    \* which calls may fail of their own accord: "recv", "send"
  None

ASSUME ConstantsAssumption ==
  /\ Invalid \subseteq Configs
  /\ MaxOut \in Nat
  /\ Faults \subseteq {"recv", "send"}
  /\ None \notin Callers \cup Configs \cup Sources \cup Handles \cup Packets

VARIABLES
  \* Manager
  mu,        \* the caller that holds m.mu
  src,       \* m.src
  running,   \* m.running
  \* callers
  pc,        \* where each caller is
  req,       \* the call it is making
  res,       \* what the call returns
  \* winDivertSource and the kernel
  handle,    \* w.handle of every source (None is 0)
  table,     \* the source a HANDLE value stands for in the kernel
  \* engine goroutines, one per source
  eng,       \* where each goroutine is
  conf,      \* the configuration its Engine was built with
  reg,       \* the value of w.handle it is about to pass to the driver
  at,        \* the source whose queue its WinDivertRecv waits on
  held,      \* the packet it is processing
  left,      \* how many packets it still has to Send for it
  \* packets
  fate,      \* what has become of each packet
  via,       \* the source whose handle captured it
  by,        \* the source whose goroutine received it
  \* history
  shown      \* the configuration in force when mu was last acquired

managerVars == <<mu, src, running>>
callerVars  == <<pc, req, res>>
driverVars  == <<handle, table>>
engineVars  == <<eng, conf, reg, at, held, left>>
packetVars  == <<fate, via, by>>
vars == <<managerVars, callerVars, driverVars, engineVars, packetVars, shown>>

Requests == [op : {"Apply"}, cfg : Configs] \cup [op : {"Stop", "Running"}, cfg : {None}]
ASSUME RequestsAssumption == None \notin Requests

Results  == {"none", "ok", "error", "true", "false"}
CallerPC == {"idle", "lock", "locked", "clear", "new", "open", "unlock"}
EnginePC == {"none", "top", "recv", "wait", "process", "send", "inject", "exit", "failed"}
Fates    == {"unsent", "queued", "held", "sent", "dropped", "lost"}

TypeOK ==
  /\ mu \in Callers \cup {None}
  /\ src \in Sources \cup {None}
  /\ running \in BOOLEAN
  /\ pc \in [Callers -> CallerPC]
  /\ req \in [Callers -> Requests]
  /\ res \in [Callers -> Results]
  /\ handle \in [Sources -> Handles \cup {None}]
  /\ table \in [Handles -> Sources \cup {None}]
  /\ eng \in [Sources -> EnginePC]
  /\ conf \in [Sources -> Configs \cup {None}]
  /\ reg \in [Sources -> Handles \cup {None}]
  /\ at \in [Sources -> Sources \cup {None}]
  /\ held \in [Sources -> Packets \cup {None}]
  /\ left \in [Sources -> Nat]
  /\ fate \in [Packets -> Fates]
  /\ via \in [Packets -> Sources \cup {None}]
  /\ by \in [Packets -> Sources \cup {None}]
  /\ shown \in Configs \cup {None}

Init ==
  /\ mu = None
  /\ src = None
  /\ running = FALSE
  /\ pc = [c \in Callers |-> "idle"]
  /\ req = [c \in Callers |-> [op |-> "Stop", cfg |-> None]]
  /\ res = [c \in Callers |-> "none"]
  /\ handle = [s \in Sources |-> None]
  /\ table = [h \in Handles |-> None]
  /\ eng = [s \in Sources |-> "none"]
  /\ conf = [s \in Sources |-> None]
  /\ reg = [s \in Sources |-> None]
  /\ at = [s \in Sources |-> None]
  /\ held = [s \in Sources |-> None]
  /\ left = [s \in Sources |-> 0]
  /\ fate = [p \in Packets |-> "unsent"]
  /\ via = [p \in Packets |-> None]
  /\ by = [p \in Packets |-> None]
  /\ shown = None

-----------------------------------------------------------------------------
(* The sources the kernel still captures for.                              *)
Live == {s \in Sources : \E h \in Handles : table[h] = s}

(* The configuration of the source the manager has registered.             *)
Registered == IF src = None THEN None ELSE conf[src]

(* The source that the handle value goroutine s last read stands for now.  *)
Target(s) == IF reg[s] \in Handles THEN table[reg[s]] ELSE None

Go(c, from, to) == pc[c] = from /\ pc' = [pc EXCEPT ![c] = to]
Step(s, from, to) == eng[s] = from /\ eng' = [eng EXCEPT ![s] = to]

-----------------------------------------------------------------------------
(* Actions with a plausible bug, which the properties are shown to catch.  *)

(* Running does its work without taking m.mu.                              *)
LockUnguarded(c) ==
  /\ mu' = c
  /\ Go(c, "lock", "locked")
  /\ shown' = Registered
  /\ UNCHANGED <<src, running, req, res, driverVars, engineVars, packetVars>>

(* Close zeroes w.handle before it passes it to WinDivertClose.            *)
CloseHandleZero(c) ==
  /\ req[c].op # "Running"
  /\ src # None
  /\ Go(c, "locked", "clear")
  /\ handle' = [handle EXCEPT ![src] = None]
  /\ UNCHANGED <<managerVars, req, res, table, engineVars, packetVars, shown>>

(* stopLocked forgets m.running = false.                                   *)
ClearSourceOnly(c) ==
  /\ req[c].op # "Running"
  /\ Go(c, IF src = None THEN "locked" ELSE "clear",
           IF req[c].op = "Apply" THEN "new" ELSE "unlock")
  /\ handle' = [s \in Sources |-> IF s = src THEN None ELSE handle[s]]
  /\ src' = None
  /\ res' = [res EXCEPT ![c] = "ok"]
  /\ UNCHANGED <<mu, running, req, table, engineVars, packetVars, shown>>

(* m.running = true ahead of the error check.                              *)
OpenFailsRunning(c) ==
  /\ Go(c, "open", "unlock")
  /\ res' = [res EXCEPT ![c] = "error"]
  /\ running' = TRUE
  /\ UNCHANGED <<mu, src, req, driverVars, engineVars, packetVars, shown>>

(* An early return without the deferred unlock.                            *)
UnlockNotDeferred(c) ==
  /\ Go(c, "unlock", "idle")
  /\ mu' = IF res[c] = "error" THEN mu ELSE None
  /\ UNCHANGED <<src, running, req, res, driverVars, engineVars, packetVars, shown>>

(* The goroutine uses m.src instead of the source it was started with.     *)
RecvLoadShared(s) ==
  /\ Step(s, "top", "recv")
  /\ reg' = [reg EXCEPT ![s] = IF src = None THEN None ELSE handle[src]]
  /\ UNCHANGED <<managerVars, callerVars, driverVars, conf, at, held, left, packetVars, shown>>

(* A receive error is logged and the loop continues.                       *)
RecvClosedContinues(s) ==
  /\ \/ Step(s, "recv", "top") /\ Target(s) = None
     \/ Step(s, "wait", "top") /\ at[s] \notin Live
  /\ UNCHANGED <<managerVars, callerVars, driverVars, conf, reg, at, held, left, packetVars, shown>>

(* No goroutine is started while that of an earlier source has not ended.   *)
OpenSourceReuses(c, s, h) ==
  /\ eng[s] = "none"
  /\ table[h] = None
  /\ Go(c, "open", "unlock")
  /\ handle' = [handle EXCEPT ![s] = h]
  /\ table' = [table EXCEPT ![h] = s]
  /\ src' = s
  /\ running' = TRUE
  /\ eng' = [eng EXCEPT ![s] = IF \A t \in Sources : eng[t] \in {"none", "exit"} THEN "top" ELSE "exit"]
  /\ conf' = [conf EXCEPT ![s] = req[c].cfg]
  /\ UNCHANGED <<mu, req, res, reg, at, held, left, packetVars, shown>>

(* The send loop runs once too often.                                      *)
SendNextTwice(s) ==
  /\ Step(s, "inject", IF left[s] = 0 THEN "top" ELSE "send")
  /\ left' = [left EXCEPT ![s] = @ - 1]
  /\ UNCHANGED <<managerVars, callerVars, driverVars, conf, reg, at, held, via, by, shown>>

-----------------------------------------------------------------------------
(* Apply, Stop and Running.                                                *)

Invoke(c, r) ==
  /\ Go(c, "idle", "lock")
  /\ req' = [req EXCEPT ![c] = r]
  /\ UNCHANGED <<managerVars, res, driverVars, engineVars, packetVars, shown>>

(* m.mu.Lock().                                                            *)
Lock(c) ==
  /\ mu = None
  /\ mu' = c
  /\ Go(c, "lock", "locked")
  /\ shown' = Registered
  /\ UNCHANGED <<src, running, req, res, driverVars, engineVars, packetVars>>

(* Running: read the flag under the lock.                                  *)
ReadRunning(c) ==
  /\ req[c].op = "Running"
  /\ Go(c, "locked", "unlock")
  /\ res' = [res EXCEPT ![c] = IF running THEN "true" ELSE "false"]
  /\ UNCHANGED <<managerVars, req, driverVars, engineVars, packetVars, shown>>

(* stopLocked, first half: WinDivertClose(w.handle).  What the driver does *)
(* with the packets still in its queue is not in this repository: each is  *)
(* either forwarded or discarded.                                          *)
CloseHandle(c) ==
  /\ req[c].op # "Running"
  /\ src # None
  /\ Go(c, "locked", "clear")
  /\ \E flushed \in SUBSET {p \in Packets : fate[p] = "queued" /\ via[p] = src} :
       fate' = [p \in Packets |->
                  IF fate[p] = "queued" /\ via[p] = src
                  THEN IF p \in flushed THEN "sent" ELSE "lost"
                  ELSE fate[p]]
  /\ table' = [h \in Handles |-> IF h = handle[src] THEN None ELSE table[h]]
  /\ UNCHANGED <<managerVars, req, res, handle, engineVars, via, by, shown>>

(* stopLocked, second half: w.handle = 0, m.src = nil, m.running = false.  *)
ClearSource(c) ==
  /\ req[c].op # "Running"
  /\ Go(c, IF src = None THEN "locked" ELSE "clear",
           IF req[c].op = "Apply" THEN "new" ELSE "unlock")
  /\ handle' = [s \in Sources |-> IF s = src THEN None ELSE handle[s]]
  /\ src' = None
  /\ running' = FALSE
  /\ res' = [res EXCEPT ![c] = "ok"]
  /\ UNCHANGED <<mu, req, table, engineVars, packetVars, shown>>

(* engine.New: fails exactly when the strategy name is unknown.            *)
NewEngine(c) ==
  LET bad == req[c].cfg \in Invalid IN
  /\ Go(c, "new", IF bad THEN "unlock" ELSE "open")
  /\ res' = [res EXCEPT ![c] = IF bad THEN "error" ELSE "ok"]
  /\ UNCHANGED <<managerVars, req, driverVars, engineVars, packetVars, shown>>

(* m.open(filter) fails: no driver, no rights, a bad filter.               *)
OpenFails(c) ==
  /\ Go(c, "open", "unlock")
  /\ res' = [res EXCEPT ![c] = "error"]
  /\ UNCHANGED <<managerVars, req, driverVars, engineVars, packetVars, shown>>

(* m.open(filter) returns a source; it is registered and its goroutine     *)
(* started.  The HANDLE value is any that is not in use: Windows gives a   *)
(* closed one out again, also while a goroutine that has read it from      *)
(* w.handle has yet to pass it to the driver.                              *)
OpenSource(c, s, h) ==
  /\ eng[s] = "none"
  /\ table[h] = None
  /\ Go(c, "open", "unlock")
  /\ handle' = [handle EXCEPT ![s] = h]
  /\ table' = [table EXCEPT ![h] = s]
  /\ src' = s
  /\ running' = TRUE
  /\ eng' = [eng EXCEPT ![s] = "top"]
  /\ conf' = [conf EXCEPT ![s] = req[c].cfg]
  /\ UNCHANGED <<mu, req, res, reg, at, held, left, packetVars, shown>>

(* The deferred m.mu.Unlock(), and the return.                             *)
Unlock(c) ==
  /\ Go(c, "unlock", "idle")
  /\ mu' = None
  /\ UNCHANGED <<src, running, req, res, driverVars, engineVars, packetVars, shown>>

-----------------------------------------------------------------------------
(* engine.Run on source s.  A driver call reads w.handle when its arguments *)
(* are evaluated and reaches the kernel later.                              *)

RecvLoad(s) ==
  /\ Step(s, "top", "recv")
  /\ reg' = [reg EXCEPT ![s] = handle[s]]
  /\ UNCHANGED <<managerVars, callerVars, driverVars, conf, at, held, left, packetVars, shown>>

(* WinDivertRecv enters the kernel on whatever the value stands for now.   *)
RecvIssue(s) ==
  /\ Target(s) # None
  /\ Step(s, "recv", "wait")
  /\ at' = [at EXCEPT ![s] = Target(s)]
  /\ reg' = [reg EXCEPT ![s] = None]
  /\ UNCHANGED <<managerVars, callerVars, driverVars, conf, held, left, packetVars, shown>>

(* WinDivertRecv returns a packet.                                         *)
RecvPacket(s, p) ==
  /\ at[s] \in Live
  /\ fate[p] = "queued"
  /\ via[p] = at[s]
  /\ Step(s, "wait", "process")
  /\ at' = [at EXCEPT ![s] = None]
  /\ held' = [held EXCEPT ![s] = p]
  /\ fate' = [fate EXCEPT ![p] = "held"]
  /\ by' = [by EXCEPT ![p] = s]
  /\ UNCHANGED <<managerVars, callerVars, driverVars, conf, reg, left, via, shown>>

(* WinDivertRecv fails on a handle that is zero or closed, and Run returns. *)
RecvClosed(s) ==
  /\ \/ /\ Step(s, "recv", "exit")
        /\ Target(s) = None
     \/ /\ Step(s, "wait", "exit")
        /\ at[s] \notin Live
  /\ reg' = [reg EXCEPT ![s] = None]
  /\ at' = [at EXCEPT ![s] = None]
  /\ UNCHANGED <<managerVars, callerVars, driverVars, conf, held, left, packetVars, shown>>

(* WinDivertRecv fails on an open handle; Run returns just the same, but   *)
(* nobody closes the handle.                                               *)
RecvFault(s) ==
  /\ "recv" \in Faults
  /\ at[s] \in Live
  /\ Step(s, "wait", "failed")
  /\ at' = [at EXCEPT ![s] = None]
  /\ UNCHANGED <<managerVars, callerVars, driverVars, conf, reg, held, left, packetVars, shown>>

(* Process decides on n packets to inject; none at all means drop.         *)
Process(s, n) ==
  /\ Step(s, "process", IF n = 0 THEN "top" ELSE "send")
  /\ left' = [left EXCEPT ![s] = n]
  /\ held' = IF n = 0 THEN [held EXCEPT ![s] = None] ELSE held
  /\ fate' = IF n = 0 THEN [fate EXCEPT ![held[s]] = "dropped"] ELSE fate
  /\ UNCHANGED <<managerVars, callerVars, driverVars, conf, reg, at, via, by, shown>>

SendLoad(s) ==
  /\ Step(s, "send", "inject")
  /\ reg' = [reg EXCEPT ![s] = handle[s]]
  /\ UNCHANGED <<managerVars, callerVars, driverVars, conf, at, held, left, packetVars, shown>>

(* The loop goes on to the next packet to send, or back to Recv.           *)
SendNext(s) ==
  LET done == left[s] = 1 IN
  /\ Step(s, "inject", IF done THEN "top" ELSE "send")
  /\ left' = [left EXCEPT ![s] = @ - 1]
  /\ held' = IF done THEN [held EXCEPT ![s] = None] ELSE held
  /\ reg' = [reg EXCEPT ![s] = None]
  /\ UNCHANGED <<managerVars, callerVars, driverVars, conf, at, via, by, shown>>

(* WinDivertSend succeeds on any open handle, and fails on a value that is *)
(* zero or closed: the error is logged and the loop goes on.               *)
SendIssue(s) ==
  /\ SendNext(s)
  /\ IF Target(s) = None
     THEN fate' = [fate EXCEPT ![held[s]] = "lost"]
     ELSE fate' = IF left[s] = 1 /\ fate[held[s]] # "lost"
                  THEN [fate EXCEPT ![held[s]] = "sent"] ELSE fate

(* WinDivertSend fails on an open handle; the loop goes on just the same.  *)
SendFault(s) ==
  /\ "send" \in Faults
  /\ Target(s) # None
  /\ SendNext(s)
  /\ fate' = [fate EXCEPT ![held[s]] = "lost"]

Fault(s) == RecvFault(s) \/ SendFault(s)

-----------------------------------------------------------------------------
(* The network stack hands a packet down: a live handle captures it,       *)
(* otherwise it leaves the machine untouched.                              *)
Capture(p) ==
  /\ fate[p] = "unsent"
  /\ IF Live = {}
     THEN /\ fate' = [fate EXCEPT ![p] = "sent"]
          /\ UNCHANGED via
     ELSE /\ fate' = [fate EXCEPT ![p] = "queued"]
          /\ \E s \in Live : via' = [via EXCEPT ![p] = s]
  /\ UNCHANGED <<managerVars, callerVars, driverVars, engineVars, by, shown>>

-----------------------------------------------------------------------------
CallerStep(c) ==
  \/ ReadRunning(c)
  \/ CloseHandle(c)
  \/ ClearSource(c)
  \/ NewEngine(c)
  \/ OpenFails(c)
  \/ \E s \in Sources, h \in Handles : OpenSource(c, s, h)
  \/ Unlock(c)

EngineStep(s) ==
  \/ RecvLoad(s)
  \/ RecvIssue(s)
  \/ \E p \in Packets : RecvPacket(s, p)
  \/ RecvClosed(s)
  \/ \E n \in 0..MaxOut : Process(s, n)
  \/ SendLoad(s)
  \/ SendIssue(s)

Next ==
  \/ \E c \in Callers : (\E r \in Requests : Invoke(c, r)) \/ Lock(c) \/ CallerStep(c)
  \/ \E s \in Sources : EngineStep(s) \/ Fault(s)
  \/ \E p \in Packets : Capture(p)

(* Go schedules every runnable goroutine.  No caller is due to do anything, *)
(* nor is the network, or a fault.                                         *)
Fairness == \A s \in Sources : WF_vars(EngineStep(s))

Spec == Init /\ [][Next]_vars
FairSpec == Spec /\ Fairness
-----------------------------------------------------------------------------
(* Safety.                                                                 *)

(* Only the caller that has acquired m.mu is between its Lock and its      *)
(* Unlock (the critical section of Apply, Stop and Running), and no caller *)
(* returns with m.mu locked, whatever fails: that would block the menu     *)
(* loop for good.                                                          *)
Critical(c) == pc[c] \notin {"idle", "lock"}
MutualExclusion == \A c \in Callers : Critical(c) <=> mu = c

(* At no instant, not even in the middle of a restart, do two WinDivert    *)
(* handles capture at once: a packet is never diverted twice.              *)
ExclusiveCapture == \A h1, h2 \in Handles :
  table[h1] # None /\ table[h2] # None => h1 = h2

(* Whenever m.mu is free, the kernel captures for the registered source    *)
(* and for no other: no handle is left behind that nothing will close, and *)
(* none that m.running claims is missing.                                  *)
NoOrphanSource == mu = None =>
  /\ Live = IF src = None THEN {} ELSE {src}
  /\ running <=> src # None

(* "It returns an error if the engine or source cannot be created, in      *)
(* which case nothing is left running" (Apply).                            *)
FailedApplyLeavesNothing == \A c \in Callers :
  Critical(c) /\ res[c] = "error" /\ pc[c] = "unlock" => Live = {} /\ ~running

(* A packet is lost in three ways only: in the step that closes the handle *)
(* it is queued on, because the goroutine that holds it runs on a source   *)
(* that has been closed, or because the driver refuses it on a handle that *)
(* is open, which Run logs.  Otherwise what the engine takes is            *)
(* re-injected or deliberately dropped, whatever restarts meanwhile.       *)
LossNeedsClose == [][\A p \in Packets :
  fate[p] # "lost" /\ fate'[p] = "lost" =>
    \/ fate[p] = "queued" /\ via[p] \notin Live'
    \/ \E s \in Sources : held[s] = p /\ (s \notin Live \/ SendFault(s))]_vars

(* "Any previously running engine is stopped first" (Apply): the goroutine *)
(* of an engine that was stopped takes no packet of the next one.  This    *)
(* does not hold: nobody waits for that goroutine, and a HANDLE value that *)
(* it has read may be given to the next source.                            *)
Strayed(p) == by[p] \notin {None, via[p]}
OwnPackets == \A p \in Packets : ~Strayed(p)

(* What does hold: a goroutine that has been led to another source's queue *)
(* takes one packet there at most, and never waits for another, because    *)
(* w.handle is zero when it reads it again.                                *)
StrayTakesOne == \A p \in Packets : Strayed(p) => eng[by[p]] # "wait"

(* The caller that is about to read m.running under the lock.              *)
Reads(c) == pc[c] = "locked" /\ req[c].op = "Running"
Ended(s) == eng[s] \in {"exit", "failed"}

(* "Running reports whether an engine is currently active": when it reads  *)
(* true, the registered source's goroutine is still in Run.  This does not *)
(* hold once a receive has failed on an open handle.                       *)
TruthfulRunning == \A c \in Callers :
  Reads(c) /\ running => src # None /\ ~Ended(src)

(* What Running does report: the registered source's handle captures, and  *)
(* its goroutine is in Run or has left it for one reason only, a receive   *)
(* that failed on the open handle.                                         *)
RunningUnlessFailed == \A c \in Callers :
  Reads(c) /\ running => src \in Live /\ eng[src] \notin {"none", "exit"}

-----------------------------------------------------------------------------
(* Liveness.                                                               *)

(* No packet stays in a driver queue: it is taken by an engine or flushed  *)
(* when its handle is closed, unless the goroutine of that source has left *)
(* Run after a failed receive.                                             *)
QueueDrains == \A p \in Packets :
  fate[p] = "queued" ~> fate[p] # "queued" \/ eng[via[p]] = "failed"

(* "Run blocks until the source is closed (by stopLocked) or errors": the  *)
(* goroutine of a closed source ends, so restarts leak no goroutine; at    *)
(* worst it first waits for one packet of another open source.             *)
ClosedEngineExits == \A s \in Sources :
  eng[s] # "none" /\ s \notin Live ~> Ended(s) \/ (at[s] # s /\ at[s] \in Live)

-----------------------------------------------------------------------------
(* Refinement: an operation takes effect, for the other callers, when the  *)
(* lock is released.                                                       *)
Slot == INSTANCE EngineSlot WITH
  active  <- IF mu = None THEN Registered ELSE shown,
  pending <- [c \in Callers |-> IF pc[c] = "idle" THEN None ELSE req[c]],
  ret     <- [c \in Callers |-> IF pc[c] = "idle" THEN res[c] ELSE "none"]

(* The manager implements the one-slot specification.                      *)
ImplementsSlot == Slot!Spec
=============================================================================
