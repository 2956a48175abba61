---------------------------- MODULE DaemonProofs ----------------------------
(***************************************************************************)
(* Proofs about module Daemon, whatever may fail: the channel stop of a    *)
(* process is closed at most once, and the exit code after a requested     *)
(* stop is 0.                                                              *)
(***************************************************************************)
EXTENDS Daemon, WellFoundedInduction, SequenceTheorems, TLAPS

(* The parts of TypeOK.                                                    *)
ProcTypes ==
  /\ main \in [Procs -> MainPC]
  /\ run \in [Procs -> RunPC]
  /\ stopped \in [Procs -> 0..1]
  /\ handle \in [Procs -> {"none", "open", "closed"}]
  /\ closer \in [Procs -> {"none", "wait", "end"}]
  /\ code \in [Procs -> 0..2]
OtherTypes ==
  /\ signal \in {"none", "wait", "caught", "end"}
  /\ control \in {"none", "interrogate", "stop"}
  /\ status \in Statuses
  /\ marked \in BOOLEAN
  /\ cli \in {"idle", "start", "starting", "delete", "installed", "failed", "removed"}
ConfTypes ==
  /\ conf = [p \in Procs |-> conf[p]]
  /\ \A p \in Procs : conf[p] # <<>> => Validate(conf[p][1])

(* The goroutine that waits for Ctrl+C exists while the foreground process *)
(* runs, and is done once it has closed stop.                              *)
SignalInv ==
  /\ signal # "none" => main["foreground"] = "running"
  /\ stopped["foreground"] # 0 => signal = "end"

(* Once the handler has closed stop it accepts no more requests; a service *)
(* that can be started has no process.                                     *)
HandlerInv ==
  /\ stopped["service"] # 0 => main["service"] \in {"stopping", "wait"}
  /\ status \in {"absent", "stopped"} => main["service"] = "none"

(* Nothing but a stop request closes a handle.                             *)
HandleInv == \A p \in Procs : handle[p] = "closed" => stopped[p] # 0

StopInv == SignalInv /\ HandlerInv /\ HandleInv

Inv == ProcTypes /\ OtherTypes /\ StopInv

-----------------------------------------------------------------------------
(* The parts of TypeOK together are TypeOK.                                *)
LEMMA Types == ProcTypes /\ OtherTypes /\ ConfTypes => TypeOK
BY DEF TypeOK, ProcTypes, OtherTypes, ConfTypes

(* Validate does not look at the list files.                               *)
LEMMA SameValid == ASSUME NEW c, NEW r, Validate(c), r.Strategy = c.Strategy,
                          r.FakeTTL = c.FakeTTL, r.QUIC = c.QUIC, r.SplitPos = c.SplitPos,
                          r.Service = c.Service, r.Ports = c.Ports
                   PROVE  Validate(r)
BY DEF Validate

(* What Parse makes of a command line is an error or valid, wherever its   *)
(* lists are.                                                              *)
LEMMA ParseValid == ASSUME NEW dir, NEW args, In(dir, Parse(args)) # <<>>
                    PROVE  Validate(In(dir, Parse(args))[1])
<1> DEFINE c == FromFlags(Given(args))
<1>1. Parse(args) = <<c>> /\ Validate(c)
  BY DEF Parse, In
<1>2. In(dir, Parse(args))[1] = Resolved(dir, c)
  BY <1>1 DEF In
<1>3. /\ Resolved(dir, c).Strategy = c.Strategy
      /\ Resolved(dir, c).FakeTTL = c.FakeTTL
      /\ Resolved(dir, c).QUIC = c.QUIC
      /\ Resolved(dir, c).SplitPos = c.SplitPos
      /\ Resolved(dir, c).Service = c.Service
      /\ Resolved(dir, c).Ports = c.Ports
  BY DEF Resolved, FromFlags
<1> HIDE DEF c
<1> QED
  BY <1>1, <1>2, <1>3, SameValid

(* No step gives a process a configuration that Parse did not accept.      *)
LEMMA ConfStep == ASSUME ConfTypes, [Next]_vars PROVE ConfTypes'
<1>1. ASSUME NEW p \in Procs, NEW dir, NEW args, conf' = [conf EXCEPT ![p] = In(dir, Parse(args))]
      PROVE  ConfTypes'
  BY <1>1, ParseValid DEF ConfTypes
<1>2. ASSUME NEW p \in Procs, Set(conf, p, <<>>)
      PROVE  ConfTypes'
  BY <1>2 DEF ConfTypes, Set
<1>3. ASSUME conf' = conf
      PROVE  ConfTypes'
  BY <1>3 DEF ConfTypes
<1>4. "foreground" \in Procs /\ "service" \in Procs
  BY DEF Procs
<1>5. ASSUME NEW p \in Procs, Process(p)
      PROVE  ConfTypes'
  BY <1>2, <1>3, <1>5 DEF Process, Load, LoadFails, Gone, Open, CloseOnStop, RunReturns
<1>6. CASE Console
  <2>1. ASSUME NEW i \in DOMAIN Lines, StartForeground(i)
        PROVE  ConfTypes'
    BY <2>1, <1>1, <1>4 DEF StartForeground, Parsed, Launch, Set
  <2>2. CASE NoController \/ Exit
    BY <2>2, <1>2, <1>4 DEF NoController, Exit, Gone
  <2>3. CASE Interrupt
    BY <2>3, <1>2, <1>3, <1>4 DEF Interrupt, Gone, procVars
  <2>4. CASE Foreground \/ StopOnSignal
    BY <2>4, <1>3 DEF Foreground, StopOnSignal
  <2> QED
    BY <2>1, <2>2, <2>3, <2>4, <1>6 DEF Console
<1>7. CASE Handler
  BY <1>2, <1>3, <1>4, <1>7
     DEF Handler, ReportRunning, HandleInterrogate, HandleStop, ReportStopPending, HandleDone, Gone, procVars
<1>8. ASSUME Launch("service", Stored(installed))
      PROVE  ConfTypes'
  <2>1. PICK args : args = installed[1]
    OBVIOUS
  <2> QED
    BY <2>1, <1>8, <1>1, <1>4 DEF Stored, Launch, Set
<1>9. CASE Scm
  <2>1. CASE Shutdown
    BY <2>1 DEF Shutdown, ConfTypes
  <2>2. CASE StartService
    BY <2>2, <1>8 DEF StartService
  <2>3. CASE Request("stop") \/ Request("interrogate")
    BY <2>3, <1>3 DEF Request, procVars
  <2> QED
    BY <2>1, <2>2, <2>3, <1>9 DEF Scm
<1>10. CASE Command
  <2>1. CASE InstallStarts
    BY <2>1, <1>3, <1>8 DEF InstallStarts, procVars
  <2>2. CASE InstallReturns \/ UninstallDeletes \/ \E i \in DOMAIN Lines : Install(i) \/ Uninstall(i)
    BY <2>2, <1>3 DEF Install, InstallReturns, Uninstall, UninstallDeletes, procVars
  <2> QED
    BY <2>1, <2>2, <1>10 DEF Command
<1>11. CASE UNCHANGED vars
  BY <1>11, <1>3 DEF vars, procVars
<1> QED
  BY <1>5, <1>6, <1>7, <1>9, <1>10, <1>11 DEF Next

(* Before anything is started the invariant holds.                         *)
LEMMA InvInit == Init => Inv
<1> SUFFICES ASSUME Init
             PROVE  Inv
  OBVIOUS
<1>1. ProcTypes
  BY DEF Init, ProcTypes, MainPC, RunPC
<1>2. OtherTypes
  BY DEF Init, OtherTypes, Statuses
<1>3. StopInv
  BY DEF Init, StopInv, SignalInv, HandlerInv, HandleInv, Procs
<1> QED
  BY <1>1, <1>2, <1>3 DEF Inv

(* A step of the engine closure, or before it, in either process.          *)
LEMMA ProcessStep == ASSUME Inv, NEW p \in Procs, Process(p) PROVE Inv'
<1> USE DEF Inv, At, Set, procVars, scmVars
<1>1. CASE Load(p)
  <2> USE <1>1 DEF Load
  <2>1. ProcTypes'
    BY DEF ProcTypes, Procs, MainPC, RunPC
  <2>2. OtherTypes'
    BY DEF OtherTypes, Statuses
  <2>3. StopInv'
    BY DEF StopInv, SignalInv, HandlerInv, HandleInv, ProcTypes, Procs
  <2> QED
    BY <2>1, <2>2, <2>3
<1>2. CASE LoadFails(p)
  <2> USE <1>2 DEF LoadFails, Gone, Removed
  <2>1. ProcTypes'
    BY DEF ProcTypes, Procs, MainPC, RunPC
  <2>2. OtherTypes'
    BY DEF OtherTypes, Statuses
  <2>3. StopInv'
    BY DEF StopInv, SignalInv, HandlerInv, HandleInv, ProcTypes, Procs
  <2> QED
    BY <2>1, <2>2, <2>3
<1>3. CASE Open(p)
  <2> USE <1>3 DEF Open
  <2>1. ProcTypes'
    BY DEF ProcTypes, Procs, MainPC, RunPC
  <2>2. OtherTypes'
    BY DEF OtherTypes, Statuses
  <2>3. StopInv'
    BY DEF StopInv, SignalInv, HandlerInv, HandleInv, ProcTypes, Procs
  <2> QED
    BY <2>1, <2>2, <2>3
<1>4. CASE CloseOnStop(p)
  <2> USE <1>4 DEF CloseOnStop
  <2>1. ProcTypes'
    BY DEF ProcTypes, Procs, MainPC, RunPC
  <2>2. OtherTypes'
    BY DEF OtherTypes, Statuses
  <2>3. StopInv'
    BY DEF StopInv, SignalInv, HandlerInv, HandleInv, ProcTypes, Procs
  <2> QED
    BY <2>1, <2>2, <2>3
<1>5. CASE RunReturns(p)
  <2> USE <1>5 DEF RunReturns
  <2>1. ProcTypes'
    BY DEF ProcTypes, Procs, MainPC, RunPC
  <2>2. OtherTypes'
    BY DEF OtherTypes, Statuses
  <2>3. StopInv'
    BY DEF StopInv, SignalInv, HandlerInv, HandleInv, ProcTypes, Procs
  <2> QED
    BY <2>1, <2>2, <2>3
<1> QED
  BY <1>1, <1>2, <1>3, <1>4, <1>5 DEF Process

(* A step of the foreground process: stop is closed from a signal caught.  *)
LEMMA ConsoleStep == ASSUME Inv, Console PROVE Inv'
<1> USE DEF Inv, At, Set, procVars, scmVars
<1>1. ASSUME NEW i \in DOMAIN Lines, StartForeground(i)
      PROVE  Inv'
  <2> USE <1>1 DEF StartForeground, Launch
  <2>1. ProcTypes'
    BY DEF ProcTypes, Procs, MainPC, RunPC
  <2>2. OtherTypes'
    BY DEF OtherTypes, Statuses
  <2>3. StopInv'
    BY DEF StopInv, SignalInv, HandlerInv, HandleInv, ProcTypes, Procs
  <2> QED
    BY <2>1, <2>2, <2>3
<1>2. CASE Foreground
  <2> USE <1>2 DEF Foreground
  <2>1. ProcTypes'
    BY DEF ProcTypes, Procs, MainPC, RunPC
  <2>2. OtherTypes'
    BY DEF OtherTypes, Statuses
  <2>3. StopInv'
    BY DEF StopInv, SignalInv, HandlerInv, HandleInv, ProcTypes, Procs
  <2> QED
    BY <2>1, <2>2, <2>3
<1>3. CASE Interrupt
  <2> USE <1>3 DEF Interrupt, Gone
  <2>1. ProcTypes'
    BY DEF ProcTypes, Procs, MainPC, RunPC
  <2>2. OtherTypes'
    BY DEF OtherTypes, Statuses
  <2>3. StopInv'
    BY DEF StopInv, SignalInv, HandlerInv, HandleInv, ProcTypes, Procs
  <2> QED
    BY <2>1, <2>2, <2>3
<1>4. CASE StopOnSignal
  <2> USE <1>4 DEF StopOnSignal, CloseStop
  <2>0. stopped["foreground"] = 0
    BY DEF StopInv, SignalInv
  <2>1. ProcTypes'
    BY <2>0 DEF ProcTypes, Procs, MainPC, RunPC
  <2>2. OtherTypes'
    BY DEF OtherTypes, Statuses
  <2>3. StopInv'
    BY DEF StopInv, SignalInv, HandlerInv, HandleInv, ProcTypes, Procs
  <2> QED
    BY <2>1, <2>2, <2>3
<1>5. CASE Exit
  <2> USE <1>5 DEF Exit, Gone
  <2>1. ProcTypes'
    BY DEF ProcTypes, Procs, MainPC, RunPC
  <2>2. OtherTypes'
    BY DEF OtherTypes, Statuses
  <2>3. StopInv'
    BY DEF StopInv, SignalInv, HandlerInv, HandleInv, ProcTypes, Procs
  <2> QED
    BY <2>1, <2>2, <2>3
<1>6. CASE NoController
  <2> USE <1>6 DEF NoController, Gone
  <2>1. ProcTypes'
    BY DEF ProcTypes, Procs, MainPC, RunPC
  <2>2. OtherTypes'
    BY DEF OtherTypes, Statuses
  <2>3. StopInv'
    BY DEF StopInv, SignalInv, HandlerInv, HandleInv, ProcTypes, Procs
  <2> QED
    BY <2>1, <2>2, <2>3
<1> QED
  BY <1>1, <1>2, <1>3, <1>4, <1>5, <1>6 DEF Console

(* A step of Execute: stop is closed once, on the way out of its loop.     *)
LEMMA HandlerStep == ASSUME Inv, Handler PROVE Inv'
<1> USE DEF Inv, At, Set, procVars, scmVars
<1>1. CASE ReportRunning
  <2> USE <1>1 DEF ReportRunning
  <2>1. ProcTypes'
    BY DEF ProcTypes, Procs, MainPC, RunPC
  <2>2. OtherTypes'
    BY DEF OtherTypes, Statuses
  <2>3. StopInv'
    BY DEF StopInv, SignalInv, HandlerInv, HandleInv, ProcTypes, Procs
  <2> QED
    BY <2>1, <2>2, <2>3
<1>2. CASE HandleInterrogate
  <2> USE <1>2 DEF HandleInterrogate
  <2>1. ProcTypes'
    BY DEF ProcTypes, Procs, MainPC, RunPC
  <2>2. OtherTypes'
    BY DEF OtherTypes, Statuses
  <2>3. StopInv'
    BY DEF StopInv, SignalInv, HandlerInv, HandleInv, ProcTypes, Procs
  <2> QED
    BY <2>1, <2>2, <2>3
<1>3. CASE HandleStop
  <2> USE <1>3 DEF HandleStop, CloseStop
  <2>0. stopped["service"] = 0
    BY DEF StopInv, HandlerInv
  <2>1. ProcTypes'
    BY <2>0 DEF ProcTypes, Procs, MainPC, RunPC
  <2>2. OtherTypes'
    BY DEF OtherTypes, Statuses
  <2>3. StopInv'
    BY DEF StopInv, SignalInv, HandlerInv, HandleInv, ProcTypes, Procs
  <2> QED
    BY <2>1, <2>2, <2>3
<1>4. CASE ReportStopPending
  <2> USE <1>4 DEF ReportStopPending
  <2>1. ProcTypes'
    BY DEF ProcTypes, Procs, MainPC, RunPC
  <2>2. OtherTypes'
    BY DEF OtherTypes, Statuses
  <2>3. StopInv'
    BY DEF StopInv, SignalInv, HandlerInv, HandleInv, ProcTypes, Procs
  <2> QED
    BY <2>1, <2>2, <2>3
<1>5. CASE HandleDone
  <2> USE <1>5 DEF HandleDone, Gone, Removed
  <2>1. ProcTypes'
    BY DEF ProcTypes, Procs, MainPC, RunPC
  <2>2. OtherTypes'
    BY DEF OtherTypes, Statuses
  <2>3. StopInv'
    BY DEF StopInv, SignalInv, HandlerInv, HandleInv, ProcTypes, Procs
  <2> QED
    BY <2>1, <2>2, <2>3
<1> QED
  BY <1>1, <1>2, <1>3, <1>4, <1>5 DEF Handler

(* A step of the SCM: a process starts where there was none.               *)
LEMMA ScmStep == ASSUME Inv, Scm PROVE Inv'
<1> USE DEF Inv, At, Set, procVars, scmVars
<1>1. CASE StartService
  <2> USE <1>1 DEF StartService, Launch
  <2>1. ProcTypes'
    BY DEF ProcTypes, Procs, MainPC, RunPC
  <2>2. OtherTypes'
    BY DEF OtherTypes, Statuses
  <2>3. StopInv'
    BY DEF StopInv, SignalInv, HandlerInv, HandleInv, ProcTypes, Procs
  <2> QED
    BY <2>1, <2>2, <2>3
<1>2. CASE Request("stop") \/ Request("interrogate")
  <2> USE <1>2 DEF Request, Accepting
  <2>1. ProcTypes'
    BY DEF ProcTypes, Procs, MainPC, RunPC
  <2>2. OtherTypes'
    BY DEF OtherTypes, Statuses
  <2>3. StopInv'
    BY DEF StopInv, SignalInv, HandlerInv, HandleInv, ProcTypes, Procs
  <2> QED
    BY <2>1, <2>2, <2>3
<1>3. CASE Shutdown
  <2> USE <1>3 DEF Shutdown
  <2>1. ProcTypes'
    BY DEF ProcTypes, Procs, MainPC, RunPC
  <2>2. OtherTypes'
    BY DEF OtherTypes, Statuses
  <2>3. StopInv'
    BY DEF StopInv, SignalInv, HandlerInv, HandleInv, ProcTypes, Procs
  <2> QED
    BY <2>1, <2>2, <2>3
<1> QED
  BY <1>1, <1>2, <1>3 DEF Scm

(* A step of install or uninstall.                                         *)
LEMMA CommandStep == ASSUME Inv, Command PROVE Inv'
<1> USE DEF Inv, At, Set, procVars, scmVars
<1>1. ASSUME NEW i \in DOMAIN Lines, Install(i)
      PROVE  Inv'
  <2> USE <1>1 DEF Install
  <2>1. ProcTypes'
    BY DEF ProcTypes, Procs, MainPC, RunPC
  <2>2. OtherTypes'
    BY DEF OtherTypes, Statuses
  <2>3. StopInv'
    BY DEF StopInv, SignalInv, HandlerInv, HandleInv, ProcTypes, Procs
  <2> QED
    BY <2>1, <2>2, <2>3
<1>2. CASE InstallStarts
  <2> USE <1>2 DEF InstallStarts, Launch
  <2>1. ProcTypes'
    BY DEF ProcTypes, Procs, MainPC, RunPC
  <2>2. OtherTypes'
    BY DEF OtherTypes, Statuses
  <2>3. StopInv'
    BY DEF StopInv, SignalInv, HandlerInv, HandleInv, ProcTypes, Procs
  <2> QED
    BY <2>1, <2>2, <2>3
<1>3. CASE InstallReturns
  <2> USE <1>3 DEF InstallReturns
  <2>1. ProcTypes'
    BY DEF ProcTypes, Procs, MainPC, RunPC
  <2>2. OtherTypes'
    BY DEF OtherTypes, Statuses
  <2>3. StopInv'
    BY DEF StopInv, SignalInv, HandlerInv, HandleInv, ProcTypes, Procs
  <2> QED
    BY <2>1, <2>2, <2>3
<1>4. ASSUME NEW i \in DOMAIN Lines, Uninstall(i)
      PROVE  Inv'
  <2> USE <1>4 DEF Uninstall, Accepting
  <2>1. ProcTypes'
    BY DEF ProcTypes, Procs, MainPC, RunPC
  <2>2. OtherTypes'
    BY DEF OtherTypes, Statuses
  <2>3. StopInv'
    BY DEF StopInv, SignalInv, HandlerInv, HandleInv, ProcTypes, Procs
  <2> QED
    BY <2>1, <2>2, <2>3
<1>5. CASE UninstallDeletes
  <2> USE <1>5 DEF UninstallDeletes
  <2>1. ProcTypes'
    BY DEF ProcTypes, Procs, MainPC, RunPC
  <2>2. OtherTypes'
    BY DEF OtherTypes, Statuses
  <2>3. StopInv'
    BY DEF StopInv, SignalInv, HandlerInv, HandleInv, ProcTypes, Procs
  <2> QED
    BY <2>1, <2>2, <2>3
<1> QED
  BY <1>1, <1>2, <1>3, <1>4, <1>5 DEF Command

(* A step that changes nothing.                                            *)
LEMMA StutterStep == ASSUME Inv, UNCHANGED vars PROVE Inv'
<1> USE DEF Inv, vars, procVars, scmVars
<1>1. ProcTypes'
  BY DEF ProcTypes
<1>2. OtherTypes'
  BY DEF OtherTypes
<1>3. StopInv'
  BY DEF StopInv, SignalInv, HandlerInv, HandleInv
<1> QED
  BY <1>1, <1>2, <1>3

(* Every step preserves the invariant.                                     *)
LEMMA InvStep == Inv /\ [Next]_vars => Inv'
BY ProcessStep, ConsoleStep, HandlerStep, ScmStep, CommandStep, StutterStep DEF Next

(* The invariant holds in every reachable state.                           *)
LEMMA Invariant == Spec => []Inv
BY InvInit, InvStep, PTL DEF Spec

(* Every reachable state of both processes, the service and the commands   *)
(* is well typed.                                                          *)
THEOREM DaemonTypeCorrect == Spec => []TypeOK
<1>1. Init => ConfTypes
  BY DEF Init, ConfTypes
<1>2. ConfTypes /\ [Next]_vars => ConfTypes'
  BY ConfStep
<1>3. Inv /\ ConfTypes => TypeOK
  BY Types DEF Inv
<1> QED
  BY <1>1, <1>2, <1>3, Invariant, PTL DEF Spec

(* The channel stop is closed at most once, whatever the user and the SCM  *)
(* request, and whenever: close(stop) never panics.                        *)
THEOREM StopClosedOnce == Spec => []ClosedOnce
<1>1. Inv => ClosedOnce
  BY DEF Inv, ProcTypes, ClosedOnce
<1> QED
  BY <1>1, Invariant, PTL

(* A foreground process whose handle was closed exits with code 0.         *)
THEOREM ExitIsClean == Spec => CleanExit
<1>1. ASSUME Inv, Exit, handle["foreground"] = "closed"
      PROVE  code'["foreground"] = 0
  BY <1>1 DEF Inv, StopInv, HandleInv, ProcTypes, Exit, Gone, Set, Procs
<1>2. Inv /\ [Next]_vars => [Exit /\ handle["foreground"] = "closed" => code'["foreground"] = 0]_vars
  BY <1>1
<1> QED
  BY <1>2, Invariant, PTL DEF Spec, CleanExit

-----------------------------------------------------------------------------
(* A nonempty set of natural numbers has a least one.                      *)
LEMMA Least ==
  ASSUME NEW S, S \subseteq Nat, S # {}
  PROVE  \E m \in S : \A n \in S : m <= n
<1> DEFINE R == {p \in Nat \X Nat : p[1] < p[2]}
<1>1. IsWellFoundedOn(R, Nat)
  BY NatLessThanWellFounded, Zenon DEF OpToRel
<1> HIDE DEF R
<1>2. PICK m \in S : \A n \in S : <<n, m>> \notin R
  BY <1>1, WFMin, Zenon
<1>3. \A n \in S : ~(n < m)
  BY <1>2 DEF R
<1> QED
  BY <1>3

(* A set of indices has a greatest one.                                    *)
LEMMA Greatest ==
  ASSUME NEW l \in Nat, NEW S, S \subseteq 0..l, S # {}
  PROVE  \E m \in S : \A n \in S : m >= n
<1> DEFINE D == {n \in Nat : l - n \in S}
<1>1. D # {} /\ D \subseteq Nat
  <2>1. PICK m \in S : TRUE
    OBVIOUS
  <2>2. l - m \in Nat /\ l - (l - m) = m
    OBVIOUS
  <2> QED
    BY <2>1, <2>2
<1>2. PICK d \in D : \A n \in D : d <= n
  BY <1>1, Least
<1>3. ASSUME NEW n \in S PROVE l - d >= n
  <2>1. n \in 0..l /\ l - n \in Nat /\ l - (l - n) = n
    OBVIOUS
  <2>2. l - n \in D
    BY <1>3, <2>1
  <2>3. d <= l - n /\ d \in Nat
    BY <1>2, <2>2
  <2> QED
    BY <2>1, <2>3
<1>4. l - d \in S
  OBVIOUS
<1> QED
  BY <1>3, <1>4

(* Induction: what holds for 0, and for n + 1 if for n.                    *)
LEMMA Inductive ==
  ASSUME NEW S, 0 \in S, \A n \in Nat : n \in S => n + 1 \in S
  PROVE  Nat \subseteq S
<1> SUFFICES ASSUME Nat \ S # {}
             PROVE  FALSE
  OBVIOUS
<1>1. PICK m \in Nat \ S : \A n \in Nat \ S : m <= n
  BY Least
<1>2. m - 1 \in Nat /\ m - 1 \in S
  BY <1>1
<1> QED
  BY <1>1, <1>2

-----------------------------------------------------------------------------
(* What a recursive function from 0 to n is.                               *)
Scanned(f, s, n) == f = [i \in 0..n |-> IF i = 0 THEN NoField ELSE Read(f[i - 1], s[i])]

LEMMA ScanExists == ASSUME NEW s, NEW l \in Nat PROVE \E f : Scanned(f, s, l)
<1> DEFINE S == {n \in Nat : \E f : Scanned(f, s, n)}
<1>1. 0 \in S
  <2>1. Scanned([i \in 0..0 |-> NoField], s, 0)
    BY DEF Scanned
  <2> QED
    BY <2>1
<1>2. ASSUME NEW n \in Nat, n \in S PROVE n + 1 \in S
  <2>1. PICK f : Scanned(f, s, n)
    BY <1>2
  <2> DEFINE g == [i \in 0..(n + 1) |-> IF i = n + 1 THEN Read(f[n], s[n + 1]) ELSE f[i]]
  <2>2. \A i \in 0..n : f[i] = IF i = 0 THEN NoField ELSE Read(f[i - 1], s[i])
    BY <2>1 DEF Scanned
  <2>3. \A i \in 0..(n + 1) : g[i] = IF i = 0 THEN NoField ELSE Read(g[i - 1], s[i])
    BY <2>2
  <2>4. Scanned(g, s, n + 1)
    BY <2>3 DEF Scanned
  <2> QED
    BY <2>4
<1> HIDE DEF S
<1>3. Nat \subseteq S
  BY <1>1, <1>2, Inductive
<1> QED
  BY <1>3 DEF S

(* What Scan computes.                                                     *)
LEMMA ScanDef ==
  ASSUME NEW s, Len(s) \in Nat
  PROVE  \E f : Scanned(f, s, Len(s)) /\ Scan(s) = f[Len(s)]
<1>1. \E f : Scanned(f, s, Len(s))
  BY ScanExists
<1> DEFINE f == CHOOSE f : Scanned(f, s, Len(s))
<1>2. Scan(s) = f[Len(s)]
  BY Zenon DEF Scan, Scanned
<1> QED
  BY <1>1, <1>2, Zenon

(* Nothing has been read of the empty text, and then character by character. *)
LEMMA ScanEmpty == Scan(<<>>) = NoField
<1>1. PICK f : Scanned(f, <<>>, 0) /\ Scan(<<>>) = f[0]
  BY ScanDef
<1> QED
  BY <1>1 DEF Scanned

LEMMA ScanAppend ==
  ASSUME NEW T, NEW s \in Seq(T), NEW c \in T
  PROVE  Scan(Append(s, c)) = Read(Scan(s), c)
<1>1. PICK l \in Nat : l = Len(s)
  OBVIOUS
<1>2. PICK t : t = Append(s, c)
  OBVIOUS
<1>3. Len(t) = l + 1 /\ t[l + 1] = c /\ \A i \in 1..l : t[i] = s[i]
  BY <1>1, <1>2
<1>4. PICK f : Scanned(f, s, l) /\ Scan(s) = f[l]
  BY <1>1, ScanDef
<1>5. PICK g : Scanned(g, t, l + 1) /\ Scan(t) = g[l + 1]
  BY <1>3, ScanDef
<1>6. \A i \in 0..l : f[i] = IF i = 0 THEN NoField ELSE Read(f[i - 1], s[i])
  BY <1>4 DEF Scanned
<1>7. \A i \in 0..(l + 1) : g[i] = IF i = 0 THEN NoField ELSE Read(g[i - 1], t[i])
  BY <1>5 DEF Scanned
<1> DEFINE S == {n \in Nat : n <= l => f[n] = g[n]}
<1>8. 0 \in S
  BY <1>6, <1>7
<1>9. ASSUME NEW n \in Nat, n \in S PROVE n + 1 \in S
  <2> SUFFICES ASSUME n + 1 <= l PROVE f[n + 1] = g[n + 1]
    OBVIOUS
  <2>1. f[n] = g[n]
    BY <1>9
  <2>2. f[n + 1] = Read(f[n], s[n + 1])
    BY <1>6
  <2>3. g[n + 1] = Read(g[n], t[n + 1])
    BY <1>7
  <2>4. s[n + 1] = t[n + 1]
    BY <1>3
  <2> QED
    BY <2>1, <2>2, <2>3, <2>4
<1> HIDE DEF S
<1>10. Nat \subseteq S
  BY <1>8, <1>9, Inductive
<1>11. f[l] = g[l]
  BY <1>10 DEF S
<1>12. g[l + 1] = Read(g[l], t[l + 1])
  BY <1>7
<1> QED
  BY <1>1, <1>2, <1>3, <1>4, <1>5, <1>11, <1>12

-----------------------------------------------------------------------------
(* A field that splitCSV keeps.                                            *)
Fields == {f \in Seq(Int) : \A i \in 1..Len(f) : f[i] # Comma}
Clean == {f \in Fields : f # <<>> /\ f[1] # Blank /\ f[Len(f)] # Blank}

LEMMA TrimClean ==
  ASSUME NEW f \in Fields
  PROVE  /\ TrimBlanks(f) = <<>> \/ TrimBlanks(f) \in Clean
         /\ f \in Clean => TrimBlanks(f) = f
<1>1. f \in Seq(Int) /\ \A i \in 1..Len(f) : f[i] # Comma
  BY DEF Fields
<1>2. PICK l \in Nat : l = Len(f) /\ DOMAIN f = 1..l
  BY <1>1
<1> DEFINE solid == {i \in DOMAIN f : f[i] # Blank}
<1>3. TrimBlanks(f) = IF solid = {} THEN <<>> ELSE SubSeq(f, Min(solid), Max(solid))
  BY Zenon DEF TrimBlanks
<1>4. ASSUME solid # {}
      PROVE  \E m, n \in solid : /\ TrimBlanks(f) = SubSeq(f, m, n) /\ m <= n
                                 /\ \A i \in solid : m <= i /\ i <= n
  <2>1. solid \subseteq Nat /\ solid \subseteq 0..l
    BY <1>2
  <2> HIDE DEF solid
  <2>2. \E m \in solid : \A i \in solid : m <= i
    BY <1>4, <2>1, Least
  <2>3. \E n \in solid : \A i \in solid : n >= i
    BY <1>4, <2>1, Greatest
  <2>4. PICK m : m = Min(solid)
    OBVIOUS
  <2>5. PICK n : n = Max(solid)
    OBVIOUS
  <2>6. m \in solid /\ \A i \in solid : m <= i
    BY <2>2, <2>4, Zenon DEF Min
  <2>7. n \in solid /\ \A i \in solid : n >= i
    BY <2>3, <2>5, Zenon DEF Max
  <2>8. \A i \in solid : m <= i /\ i <= n
    BY <2>1, <2>6, <2>7
  <2>9. TrimBlanks(f) = SubSeq(f, m, n)
    BY <1>3, <1>4, <2>4, <2>5, Zenon
  <2> QED
    BY <2>6, <2>7, <2>8, <2>9
<1>5. TrimBlanks(f) = <<>> \/ TrimBlanks(f) \in Clean
  <2> SUFFICES ASSUME solid # {}
               PROVE  TrimBlanks(f) \in Clean
    BY <1>3
  <2>1. PICK m, n \in solid : TrimBlanks(f) = SubSeq(f, m, n) /\ m <= n
    BY <1>4
  <2>2. /\ m \in 1..l /\ n \in 1..l /\ m <= n /\ f[m] # Blank /\ f[n] # Blank
    BY <1>2, <2>1
  <2>3. PICK g : g = SubSeq(f, m, n)
    OBVIOUS
  <2>4. \A i \in m..n : f[i] \in Int /\ f[i] # Comma
    BY <1>1, <1>2, <2>2
  <2>5. /\ g \in Seq(Int) /\ Len(g) = n - m + 1 /\ \A i \in 1..(n - m + 1) : g[i] = f[m + i - 1]
    BY <2>2, <2>3, <2>4, SubSeqProperties
  <2>6. g \in Fields
    <3>1. \A i \in 1..Len(g) : m + i - 1 \in m..n
      BY <2>2, <2>5
    <3>2. \A i \in 1..Len(g) : g[i] # Comma
      BY <2>2, <2>4, <2>5, <3>1
    <3> QED
      BY <2>5, <3>2, Zenon DEF Fields
  <2>7. g # <<>> /\ g[1] # Blank /\ g[Len(g)] # Blank
    BY <2>2, <2>5
  <2> QED
    BY <2>1, <2>3, <2>6, <2>7 DEF Clean
<1>6. ASSUME f \in Clean
      PROVE  TrimBlanks(f) = f
  <2>1. l > 0 /\ 1 \in solid /\ l \in solid
    BY <1>1, <1>2, <1>6 DEF Clean
  <2>2. PICK m, n \in solid : /\ TrimBlanks(f) = SubSeq(f, m, n)
                              /\ \A i \in solid : m <= i /\ i <= n
    BY <1>4, <2>1
  <2>3. m \in 1..l /\ n \in 1..l
    BY <1>2, <2>2
  <2>4. m = 1 /\ n = l
    BY <2>1, <2>2, <2>3
  <2> QED
    BY <1>1, <1>2, <2>2, <2>4, SubSeqFull
<1> QED
  BY <1>5, <1>6

LEMMA FieldsGrow ==
  ASSUME NEW f \in Fields, NEW c \in Int, c # Comma
  PROVE  Append(f, c) \in Fields
<1>1. PICK l \in Nat : l = Len(f) /\ f \in Seq(Int) /\ \A i \in 1..l : f[i] # Comma
  BY DEF Fields
<1>2. PICK e : e = Append(f, c)
  OBVIOUS
<1>3. e \in Seq(Int) /\ Len(e) = l + 1 /\ e[l + 1] = c /\ \A i \in 1..l : e[i] = f[i]
  BY <1>1, <1>2
<1>4. ASSUME NEW i \in 1..Len(e)
      PROVE  e[i] # Comma
  <2>1. i \in 1..l \/ i = l + 1
    BY <1>1, <1>3
  <2> QED
    BY <1>1, <1>3, <2>1
<1> QED
  BY <1>2, <1>3, <1>4, Zenon DEF Fields

LEMMA KeptClean ==
  ASSUME NEW fields \in Seq(Clean), NEW f \in Fields
  PROVE  /\ Kept(fields, f) \in Seq(Clean)
         /\ f \in Clean => Kept(fields, f) = Append(fields, f)
<1>1. PICK t : t = TrimBlanks(f)
  OBVIOUS
<1>2. (t = <<>> \/ t \in Clean) /\ (f \in Clean => t = f)
  BY <1>1, TrimClean
<1>3. Kept(fields, f) = IF t = <<>> THEN fields ELSE Append(fields, t)
  BY <1>1 DEF Kept
<1>4. f \in Clean => f # <<>>
  BY DEF Clean
<1> QED
  BY <1>2, <1>3, <1>4

(* A text is read one character after the other.                           *)
LEMMA OneMore ==
  ASSUME NEW T, NEW s \in Seq(T), NEW n \in Nat, n + 1 <= Len(s)
  PROVE  /\ SubSeq(s, 1, n) \in Seq(T) /\ Len(SubSeq(s, 1, n)) = n /\ s[n + 1] \in T
         /\ SubSeq(s, 1, n + 1) = Append(SubSeq(s, 1, n), s[n + 1])
<1>1. PICK l \in Nat : l = Len(s) /\ \A i \in 1..l : s[i] \in T
  BY ElementOfSeq
<1>2. PICK a : a = SubSeq(s, 1, n)
  OBVIOUS
<1>3. PICK b : b = SubSeq(s, 1, n + 1)
  OBVIOUS
<1>4. a \in Seq(T) /\ Len(a) = n /\ \A i \in 1..n : a[i] = s[i]
  <2>1. \A i \in 1..n : s[i] \in T
    BY <1>1
  <2> QED
    BY <1>2, <2>1, SubSeqProperties
<1>5. b \in Seq(T) /\ Len(b) = n + 1 /\ \A i \in 1..(n + 1) : b[i] = s[i]
  <2>1. \A i \in 1..(n + 1) : s[i] \in T
    BY <1>1
  <2> QED
    BY <1>3, <2>1, SubSeqProperties
<1>6. PICK c \in T : c = s[n + 1]
  BY <1>1
<1>7. PICK d : d = Append(a, c)
  OBVIOUS
<1>8. d \in Seq(T) /\ Len(d) = n + 1 /\ \A i \in 1..(n + 1) : d[i] = b[i]
  <2>1. d \in Seq(T) /\ Len(d) = n + 1 /\ d[n + 1] = c /\ \A i \in 1..n : d[i] = a[i]
    BY <1>4, <1>7
  <2>2. ASSUME NEW i \in 1..n
        PROVE  d[i] = b[i]
    <3>1. i \in 1..(n + 1)
      OBVIOUS
    <3> QED
      BY <1>4, <1>5, <2>1, <3>1
  <2>3. d[n + 1] = b[n + 1]
    BY <1>5, <1>6, <2>1
  <2>4. \A i \in 1..(n + 1) : i \in 1..n \/ i = n + 1
    OBVIOUS
  <2> QED
    BY <2>1, <2>2, <2>3, <2>4
<1>9. d = b
  BY <1>5, <1>8, SeqEqual
<1> QED
  BY <1>2, <1>3, <1>4, <1>6, <1>7, <1>9

States == [fields : Seq(Clean), field : Fields]

LEMMA Stated ==
  ASSUME NEW done \in Seq(Clean), NEW f \in Fields
  PROVE  [fields |-> done, field |-> f] \in States
BY DEF States

LEMMA ConcatAppend ==
  ASSUME NEW T, NEW s \in Seq(T), NEW a \in Seq(T), NEW c \in T
  PROVE  s \o Append(a, c) = Append(s \o a, c) /\ s \o a \in Seq(T)
<1>1. PICK t : t = s \o a
  OBVIOUS
<1>2. PICK l \in Nat : l = Len(s)
  OBVIOUS
<1>3. PICK m \in Nat : m = Len(a)
  OBVIOUS
<1>4. t \in Seq(T)
  BY <1>1, ConcatProperties
<1>5. Len(t) = l + m /\ \A i \in 1..(l + m) : t[i] = IF i <= l THEN s[i] ELSE a[i - l]
  BY <1>1, <1>2, <1>3, ConcatProperties
<1>6. PICK b : b = Append(a, c)
  OBVIOUS
<1>7. b \in Seq(T)
  BY <1>6
<1>8. Len(b) = m + 1 /\ b[m + 1] = c /\ \A i \in 1..m : b[i] = a[i]
  BY <1>3, <1>6
<1>9. PICK u : u = s \o b
  OBVIOUS
<1>10. u \in Seq(T)
  BY <1>7, <1>9, ConcatProperties
<1>11. Len(u) = l + m + 1 /\ \A i \in 1..(l + m + 1) : u[i] = IF i <= l THEN s[i] ELSE b[i - l]
  BY <1>2, <1>7, <1>8, <1>9, ConcatProperties
<1>12. PICK v : v = Append(t, c)
  OBVIOUS
<1>13. v \in Seq(T)
  BY <1>4, <1>12
<1>14. Len(v) = l + m + 1 /\ v[l + m + 1] = c /\ \A i \in 1..(l + m) : v[i] = t[i]
  BY <1>4, <1>5, <1>12
<1>15. ASSUME NEW i \in 1..(l + m + 1) PROVE u[i] = v[i]
  <2>1. CASE i <= l
    BY <1>5, <1>11, <1>14, <2>1
  <2>2. CASE i > l /\ i < l + m + 1
    <3>1. i - l \in 1..m /\ i \in 1..(l + m)
      BY <2>2
    <3> QED
      BY <1>5, <1>8, <1>11, <1>14, <2>2, <3>1
  <2>3. CASE i = l + m + 1
    <3>1. i - l = m + 1 /\ ~(i <= l)
      BY <2>3
    <3> QED
      BY <1>8, <1>11, <1>14, <2>3, <3>1
  <2> QED
    BY <2>1, <2>2, <2>3
<1>16. u = v
  BY <1>10, <1>11, <1>13, <1>14, <1>15, SeqEqual
<1> QED
  BY <1>1, <1>4, <1>6, <1>9, <1>12, <1>16

(* One element that is joined to a sequence is its last.                   *)
LEMMA ConcatOne ==
  ASSUME NEW T, NEW s \in Seq(T), NEW c \in T
  PROVE  s \o <<c>> = Append(s, c)
<1>1. <<>> \in Seq(T) /\ Append(<<>>, c) = <<c>>
  OBVIOUS
<1>2. s \o <<>> = s
  BY ConcatEmptySeq
<1>3. s \o Append(<<>>, c) = Append(s \o <<>>, c)
  BY <1>1, ConcatAppend
<1> QED
  BY <1>1, <1>2, <1>3, Zenon

LEMMA ScanTyped ==
  ASSUME NEW s \in Seq(Int)
  PROVE  Scan(s) \in States
<1> DEFINE S == {n \in Nat : n <= Len(s) => Scan(SubSeq(s, 1, n)) \in States}
<1>1. <<>> \in Fields /\ <<>> \in Seq(Clean)
  BY DEF Fields
<1>2. 0 \in S
  <2>1. SubSeq(s, 1, 0) = <<>>
    BY SubSeqEmpty
  <2>2. Scan(SubSeq(s, 1, 0)) \in States
    BY <1>1, <2>1, ScanEmpty, Stated, Zenon DEF NoField
  <2>3. 0 \in Nat
    OBVIOUS
  <2> QED
    BY <2>2, <2>3, Zenon
<1>3. ASSUME NEW n \in Nat, n \in S PROVE n + 1 \in S
  <2> SUFFICES ASSUME n + 1 <= Len(s) PROVE Scan(SubSeq(s, 1, n + 1)) \in States
    OBVIOUS
  <2>1. PICK a \in Seq(Int) : a = SubSeq(s, 1, n)
    BY OneMore
  <2>2. PICK c \in Int : c = s[n + 1]
    BY OneMore
  <2>3. PICK was \in States : was = Scan(a)
    BY <1>3, <2>1
  <2>4. Scan(SubSeq(s, 1, n + 1)) = Read(was, c)
    BY <2>1, <2>2, <2>3, OneMore, ScanAppend
  <2>5. PICK done \in Seq(Clean), f \in Fields : was = [fields |-> done, field |-> f]
    BY DEF States
  <2>6. CASE c = Comma
    <3>1. Read(was, c) = [fields |-> Kept(done, f), field |-> <<>>]
      BY <2>5, <2>6 DEF Read
    <3> QED
      BY <1>1, <2>4, <3>1, KeptClean, Stated, Zenon
  <2>7. CASE c # Comma
    <3>1. Read(was, c) = [fields |-> done, field |-> Append(f, c)]
      BY <2>5, <2>7 DEF Read
    <3>2. PICK e \in Fields : e = Append(f, c)
      BY <2>7, FieldsGrow
    <3> QED
      BY <2>4, <3>1, <3>2, Stated, Zenon
  <2> QED
    BY <2>6, <2>7
<1> HIDE DEF S
<1>4. Nat \subseteq S
  BY <1>2, <1>3, Inductive
<1>5. Len(s) \in Nat /\ Len(s) <= Len(s) /\ SubSeq(s, 1, Len(s)) = s
  BY SubSeqFull
<1>6. Scan(SubSeq(s, 1, Len(s))) \in States
  BY <1>4, <1>5, Zenon DEF S
<1> QED
  BY <1>5, <1>6

(* What splitCSV returns: fields without commas, trimmed, none of them     *)
(* blank.                                                                  *)
LEMMA SplitClean ==
  ASSUME NEW s \in Seq(Int)
  PROVE  SplitCSV(s) \in Seq(Clean)
<1>1. PICK done \in Seq(Clean), f \in Fields : Scan(s) = [fields |-> done, field |-> f]
  BY ScanTyped DEF States
<1> QED
  BY <1>1, KeptClean DEF SplitCSV

-----------------------------------------------------------------------------
(* A field is read after a comma.                                          *)
LEMMA ScanField ==
  ASSUME NEW s \in Seq(Int), NEW done, Scan(s) = [fields |-> done, field |-> <<>>], NEW f \in Fields
  PROVE  Scan(s \o f) = [fields |-> done, field |-> f]
<1>1. f \in Seq(Int) /\ \A i \in 1..Len(f) : f[i] # Comma
  BY DEF Fields
<1> DEFINE S == {n \in Nat : n <= Len(f) =>
                   Scan(s \o SubSeq(f, 1, n)) = [fields |-> done, field |-> SubSeq(f, 1, n)]}
<1>2. 0 \in S
  <2>1. SubSeq(f, 1, 0) = <<>>
    BY SubSeqEmpty
  <2>2. s \o <<>> = s
    BY ConcatEmptySeq
  <2>3. Scan(s \o SubSeq(f, 1, 0)) = [fields |-> done, field |-> SubSeq(f, 1, 0)]
    BY <2>1, <2>2, Zenon
  <2>4. 0 \in Nat
    OBVIOUS
  <2> QED
    BY <2>3, <2>4, Zenon
<1>3. ASSUME NEW n \in Nat, n \in S PROVE n + 1 \in S
  <2> SUFFICES ASSUME n + 1 <= Len(f)
               PROVE  Scan(s \o SubSeq(f, 1, n + 1)) = [fields |-> done, field |-> SubSeq(f, 1, n + 1)]
    OBVIOUS
  <2>1. PICK a \in Seq(Int) : a = SubSeq(f, 1, n)
    BY <1>1, OneMore
  <2>2. PICK c : c = f[n + 1]
    OBVIOUS
  <2>3. c \in Int /\ c # Comma
    BY <1>1, <2>2, OneMore
  <2>4. SubSeq(f, 1, n + 1) = Append(a, c)
    BY <1>1, <2>1, <2>2, OneMore
  <2>5. n <= Len(f)
    BY <1>1
  <2>6. Scan(s \o a) = [fields |-> done, field |-> a]
    BY <1>3, <2>1, <2>5, Zenon
  <2>7. s \o Append(a, c) = Append(s \o a, c) /\ s \o a \in Seq(Int)
    BY <2>3, ConcatAppend
  <2>8. Scan(Append(s \o a, c)) = Read(Scan(s \o a), c)
    BY <2>3, <2>7, ScanAppend
  <2>9. Read([fields |-> done, field |-> a], c) = [fields |-> done, field |-> Append(a, c)]
    BY <2>3 DEF Read
  <2> QED
    BY <2>4, <2>6, <2>7, <2>8, <2>9, Zenon
<1> HIDE DEF S
<1>4. Nat \subseteq S
  BY <1>2, <1>3, Inductive
<1>5. Len(f) \in Nat /\ Len(f) <= Len(f) /\ SubSeq(f, 1, Len(f)) = f
  BY <1>1, SubSeqFull
<1>6. Scan(s \o SubSeq(f, 1, Len(f))) = [fields |-> done, field |-> SubSeq(f, 1, Len(f))]
  BY <1>4, <1>5, Zenon DEF S
<1> QED
  BY <1>5, <1>6, Zenon

(* What Join is, field by field.                                           *)
Joined(f, fields, n) ==
  f = [i \in 1..n |-> IF i = 1 THEN fields[1] ELSE f[i - 1] \o <<Comma>> \o fields[i]]

LEMMA JoinExists == ASSUME NEW fields, NEW l \in Nat PROVE \E f : Joined(f, fields, l)
<1> DEFINE S == {n \in Nat : \E f : Joined(f, fields, n)}
<1>1. 0 \in S
  <2>1. Joined([i \in 1..0 |-> <<>>], fields, 0)
    BY DEF Joined
  <2> QED
    BY <2>1
<1>2. ASSUME NEW n \in Nat, n \in S PROVE n + 1 \in S
  <2>1. PICK f : Joined(f, fields, n)
    BY <1>2
  <2> DEFINE g == [i \in 1..(n + 1) |->
                     IF i = n + 1 THEN IF i = 1 THEN fields[1] ELSE f[n] \o <<Comma>> \o fields[n + 1]
                     ELSE f[i]]
  <2>2. \A i \in 1..n : f[i] = IF i = 1 THEN fields[1] ELSE f[i - 1] \o <<Comma>> \o fields[i]
    BY <2>1 DEF Joined
  <2>3. \A i \in 1..(n + 1) : g[i] = IF i = 1 THEN fields[1] ELSE g[i - 1] \o <<Comma>> \o fields[i]
    BY <2>2
  <2>4. Joined(g, fields, n + 1)
    BY <2>3 DEF Joined
  <2> QED
    BY <2>4
<1> HIDE DEF S
<1>3. Nat \subseteq S
  BY <1>1, <1>2, Inductive
<1> QED
  BY <1>3 DEF S

LEMMA JoinDef ==
  ASSUME NEW fields \in Seq(Clean)
  PROVE  \E f : Joined(f, fields, Len(fields)) /\ Join(fields) = f[Len(fields)]
<1>1. Len(fields) \in Nat /\ DOMAIN fields = 1..Len(fields)
  OBVIOUS
<1>2. \E f : Joined(f, fields, Len(fields))
  BY <1>1, JoinExists
<1> DEFINE f == CHOOSE f : Joined(f, fields, Len(fields))
<1>3. Join(fields) = f[Len(fields)]
  BY <1>1, Zenon DEF Join, Joined
<1> QED
  BY <1>2, <1>3, Zenon

(* splitCSV takes apart what has been joined with commas.                  *)
LEMMA SplitJoin ==
  ASSUME NEW fields \in Seq(Clean), fields # <<>>
  PROVE  Join(fields) \in Seq(Int) /\ SplitCSV(Join(fields)) = fields
<1>1. PICK l \in Nat : l = Len(fields) /\ l >= 1 /\ \A i \in 1..l : fields[i] \in Clean
  BY ElementOfSeq
<1>2. PICK j : Joined(j, fields, l) /\ Join(fields) = j[l]
  BY <1>1, JoinDef
<1>3. \A i \in 1..l : j[i] = IF i = 1 THEN fields[1] ELSE j[i - 1] \o <<Comma>> \o fields[i]
  BY <1>2 DEF Joined
<1>4. Clean \subseteq Fields /\ Clean \subseteq Seq(Int)
  BY DEF Clean, Fields
<1> DEFINE Here(n) == /\ j[n + 1] \in Seq(Int)
                    /\ Scan(j[n + 1]) = [fields |-> SubSeq(fields, 1, n), field |-> fields[n + 1]]
           S == {n \in Nat : n + 1 <= l => Here(n)}
<1>5. 0 \in S
  <2>1. PICK f \in Clean : f = fields[1]
    BY <1>1
  <2>2. j[1] = f
    BY <1>1, <1>3, <2>1
  <2>3. <<>> \o f = f /\ <<>> \in Seq(Int)
    BY <1>4, ConcatEmptySeq
  <2>4. Scan(<<>> \o f) = [fields |-> <<>>, field |-> f]
    BY <1>4, <2>3, ScanEmpty, ScanField DEF NoField
  <2>5. SubSeq(fields, 1, 0) = <<>>
    BY SubSeqEmpty
  <2>6. Here(0)
    <3>1. 0 + 1 = 1
      OBVIOUS
    <3>2. f \in Seq(Int)
      BY <1>4
    <3> QED
      BY <2>1, <2>2, <2>3, <2>4, <2>5, <3>1, <3>2, Zenon
  <2> HIDE DEF Here
  <2>7. 0 \in Nat
    OBVIOUS
  <2> QED
    BY <2>6, <2>7, Zenon
<1>6. ASSUME NEW n \in Nat, n \in S PROVE n + 1 \in S
  <2> SUFFICES ASSUME (n + 1) + 1 <= l PROVE Here(n + 1)
    OBVIOUS
  <2>1. Here(n)
    <3>1. n + 1 <= l
      BY <1>1
    <3> HIDE DEF Here
    <3> QED
      BY <1>6, <3>1, Zenon
  <2>2. PICK f \in Clean : f = fields[n + 1]
    BY <1>1
  <2>3. PICK g \in Clean : g = fields[(n + 1) + 1]
    BY <1>1
  <2>4. PICK s \in Seq(Int) : s = j[n + 1]
    BY <2>1
  <2>5. j[(n + 1) + 1] = (s \o <<Comma>>) \o g
    <3>1. (n + 1) + 1 \in 1..l /\ (n + 1) + 1 # 1 /\ ((n + 1) + 1) - 1 = n + 1
      BY <1>1
    <3> QED
      BY <1>3, <2>3, <2>4, <3>1
  <2>6. PICK done : done = SubSeq(fields, 1, n)
    OBVIOUS
  <2>7. n + 1 <= Len(fields)
    BY <1>1
  <2>8. done \in Seq(Clean)
    BY <2>6, <2>7, OneMore
  <2>9. Scan(s) = [fields |-> done, field |-> f]
    BY <2>1, <2>2, <2>4, <2>6, Zenon
  <2>10. SubSeq(fields, 1, n + 1) = Append(done, f)
    BY <2>2, <2>6, <2>7, OneMore
  <2>11. PICK t : t = s \o <<Comma>>
    OBVIOUS
  <2>12. t = Append(s, Comma) /\ t \in Seq(Int)
    <3>1. Comma \in Int
      BY DEF Comma
    <3>2. t = Append(s, Comma)
      BY <2>11, <3>1, ConcatOne
    <3> QED
      BY <3>1, <3>2
  <2>13. Scan(t) = [fields |-> Append(done, f), field |-> <<>>]
    <3>1. Comma \in Int
      BY DEF Comma
    <3>2. Scan(t) = Read(Scan(s), Comma)
      BY <2>12, <3>1, ScanAppend
    <3>3. Read(Scan(s), Comma) = [fields |-> Kept(done, f), field |-> <<>>]
      BY <2>9 DEF Read
    <3>4. Kept(done, f) = Append(done, f)
      BY <1>4, <2>8, KeptClean
    <3> QED
      BY <3>2, <3>3, <3>4, Zenon
  <2>14. Scan(t \o g) = [fields |-> Append(done, f), field |-> g]
    BY <1>4, <2>12, <2>13, ScanField
  <2>15. t \o g \in Seq(Int)
    BY <1>4, <2>12, ConcatProperties
  <2> QED
    BY <2>3, <2>5, <2>10, <2>11, <2>14, <2>15, Zenon
<1> HIDE DEF Here, S
<1>7. Nat \subseteq S
  BY <1>5, <1>6, Inductive
<1>8. PICK n \in Nat : n + 1 = l
  <2>1. l - 1 \in Nat /\ (l - 1) + 1 = l
    BY <1>1
  <2> QED
    BY <2>1
<1>9. Here(n)
  <2>1. n + 1 <= l
    BY <1>8
  <2> QED
    BY <1>7, <2>1, Zenon DEF S
<1>10. PICK f \in Clean : f = fields[n + 1]
  BY <1>1, <1>8
<1>11. PICK done : done = SubSeq(fields, 1, n)
  OBVIOUS
<1>12. n + 1 <= Len(fields)
  BY <1>1, <1>8
<1>13. done \in Seq(Clean)
  BY <1>11, <1>12, OneMore
<1>14. SubSeq(fields, 1, n + 1) = Append(done, f)
  BY <1>10, <1>11, <1>12, OneMore
<1>15. Append(done, f) = fields
  BY <1>1, <1>8, <1>14, SubSeqFull
<1>16. Join(fields) \in Seq(Int) /\ Scan(Join(fields)) = [fields |-> done, field |-> f]
  BY <1>2, <1>8, <1>9, <1>10, <1>11, Zenon DEF Here
<1>17. Kept(done, f) = Append(done, f)
  BY <1>4, <1>13, KeptClean
<1> QED
  BY <1>15, <1>16, <1>17 DEF SplitCSV

(* The value of a flag that is given once, and of one that is not.         *)
Once(args, flag, k) ==
  /\ Len(args) \in Nat /\ k \in 1..Len(args) /\ args[k].flag = flag
  /\ \A i \in 1..Len(args) : args[i].flag = flag => i = k

LEMMA ValueAt ==
  ASSUME NEW args, NEW flag, NEW default, NEW k, Once(args, flag, k)
  PROVE  Value(args, flag, default) = args[k].value
<1>1. {i \in 1..Len(args) : args[i].flag = flag} = {k} /\ k \in Nat \ {0}
  BY DEF Once
<1>2. Max({k}) = k
  <2>1. \A n \in {k} : k >= n
    BY <1>1
  <2> QED
    BY <2>1, Zenon DEF Max
<1>3. SelectLastInSeq(args, LAMBDA a : a.flag = flag) = k
  BY <1>1, <1>2, Zenon DEF SelectLastInSeq
<1>4. k # 0
  BY <1>1
<1> QED
  BY <1>3, <1>4 DEF Value

LEMMA ValueAbsent ==
  ASSUME NEW args, NEW flag, NEW default,
         \A i \in 1..Len(args) : args[i].flag # flag
  PROVE  Value(args, flag, default) = default
<1>1. SelectLastInSeq(args, LAMBDA a : a.flag = flag) = 0
  BY Zenon DEF SelectLastInSeq
<1> QED
  BY <1>1 DEF Value

LEMMA NoOperand ==
  ASSUME NEW args, \A i \in 1..Len(args) : args[i].flag # ""
  PROVE  Given(args) = args
<1>1. SelectInSeq(args, LAMBDA a : a.flag = "") = 0
  BY Zenon DEF SelectInSeq
<1> QED
  BY <1>1 DEF Given

(* What Value returns is the default or one of the values.                 *)
LEMMA ValueGiven ==
  ASSUME NEW args, Len(args) \in Nat, NEW flag, NEW default
  PROVE  \/ Value(args, flag, default) = default
         \/ \E i \in 1..Len(args) : args[i].flag = flag /\ Value(args, flag, default) = args[i].value
<1> DEFINE I == {i \in 1..Len(args) : args[i].flag = flag}
<1>1. CASE I = {}
  BY <1>1, ValueAbsent
<1>2. CASE I # {}
  <2>1. SelectLastInSeq(args, LAMBDA a : a.flag = flag) = Max(I)
    BY <1>2, Zenon DEF SelectLastInSeq
  <2>2. I \subseteq 0..Len(args)
    OBVIOUS
  <2> HIDE DEF I
  <2>3. \E m \in I : \A n \in I : m >= n
    BY <1>2, <2>2, Greatest
  <2>4. Max(I) \in I
    BY <2>3, Zenon DEF Max
  <2>5. Max(I) \in 1..Len(args) /\ args[Max(I)].flag = flag
    BY <2>4 DEF I
  <2>6. Max(I) # 0
    BY <2>5
  <2>7. Value(args, flag, default) = args[Max(I)].value
    BY <2>1, <2>6, Zenon DEF Value
  <2> QED
    BY <2>5, <2>7
<1> QED
  BY <1>1, <1>2

(* The arguments in front of an operand.                                   *)
LEMMA GivenOf ==
  ASSUME NEW args, Len(args) \in Nat, DOMAIN args = 1..Len(args)
  PROVE  /\ Len(Given(args)) \in Nat
         /\ \A i \in 1..Len(Given(args)) : \E k \in DOMAIN args : Given(args)[i] = args[k]
<1> DEFINE I == {i \in 1..Len(args) : args[i].flag = ""}
<1>1. CASE I = {}
  BY <1>1, NoOperand
<1>2. CASE I # {}
  <2>1. SelectInSeq(args, LAMBDA a : a.flag = "") = Min(I)
    BY <1>2, Zenon DEF SelectInSeq
  <2>2. \A i \in I : i \in 1..Len(args)
    OBVIOUS
  <2> HIDE DEF I
  <2>3. I \subseteq Nat
    BY <2>2
  <2>4. \E m \in I : \A n \in I : m <= n
    BY <1>2, <2>3, Least
  <2>5. Min(I) \in I
    BY <2>4, Zenon DEF Min
  <2>6. PICK k : k = Min(I)
    OBVIOUS
  <2>7. k \in 1..Len(args) /\ k # 0
    <3>1. k \in 1..Len(args)
      BY <2>2, <2>5, <2>6
    <3> QED
      BY <3>1
  <2>8. Given(args) = SubSeq(args, 1, k - 1)
    BY <2>1, <2>6, <2>7, Zenon DEF Given
  <2> DEFINE T == {args[i] : i \in DOMAIN args}
  <2>9. \A i \in 1..(k - 1) : args[i] \in T
    BY <2>7
  <2> HIDE DEF T
  <2>10. k - 1 \in Int
    BY <2>7
  <2>11. SubSeq(args, 1, k - 1) \in Seq(T)
    BY <2>9, <2>10, SubSeqProperties
  <2>12. \A i \in 1..Len(Given(args)) : Given(args)[i] \in T
    BY <2>8, <2>11, ElementOfSeq
  <2> QED
    BY <2>8, <2>11, <2>12 DEF T
<1> QED
  BY <1>1, <1>2

(* A path without commas is one after it has been made absolute.           *)
LEMMA AbsClean ==
  ASSUME NEW dir \in Seq(Int), dir # <<>>, dir[1] = Root,
         \A k \in DOMAIN dir : dir[k] # Comma, NEW path \in Clean
  PROVE  Abs(dir, path) \in Clean /\ Abs(dir, path)[1] = Root
<1>1. path \in Seq(Int) /\ path # <<>> /\ path[Len(path)] # Blank /\ \A i \in 1..Len(path) : path[i] # Comma
  BY DEF Clean, Fields
<1>2. CASE path[1] = Root
  BY <1>2 DEF Abs
<1>3. CASE path[1] # Root
  <2>1. PICK p : p = dir \o path
    OBVIOUS
  <2>2. Abs(dir, path) = p
    BY <1>3, <2>1 DEF Abs
  <2>3. PICK l \in Nat : l = Len(dir) /\ l >= 1
    BY EmptySeq
  <2>4. PICK m \in Nat : m = Len(path) /\ m >= 1
    BY <1>1, EmptySeq
  <2>5. p \in Seq(Int) /\ Len(p) = l + m /\ \A i \in 1..(l + m) : p[i] = IF i <= l THEN dir[i] ELSE path[i - l]
    BY <1>1, <2>1, <2>3, <2>4, ConcatProperties
  <2>6. p[1] = Root
    BY <2>3, <2>4, <2>5
  <2>7. p # <<>> /\ p[Len(p)] # Blank
    <3>1. (l + m) - l = m /\ ~(l + m <= l) /\ l + m \in 1..(l + m)
      BY <2>3, <2>4
    <3> QED
      BY <1>1, <2>4, <2>5, <3>1
  <2>8. ASSUME NEW i \in 1..(l + m) PROVE p[i] # Comma
    <3>1. CASE i <= l
      BY <2>3, <2>5, <3>1
    <3>2. CASE i > l
      <4>1. i - l \in 1..m
        BY <3>2
      <4> QED
        BY <1>1, <2>4, <2>5, <3>2, <4>1, SMTT(30)
    <3> QED
      BY <3>1, <3>2
  <2>9. p \in Fields
    BY <2>5, <2>8, Zenon DEF Fields
  <2>10. Root # Blank
    BY DEF Root, Blank
  <2> QED
    BY <2>2, <2>6, <2>7, <2>9, <2>10 DEF Clean
<1> QED
  BY <1>2, <1>3

(* The ports of a valid configuration, as Args writes them, and Parse      *)
(* reads them.                                                             *)
LEMMA PortsClean ==
  ASSUME NEW list \in Seq(Int), ArePorts(list)
  PROVE  /\ [i \in DOMAIN list |-> <<list[i]>>] \in Seq(Clean)
         /\ [i \in DOMAIN list |-> <<list[i]>>] # <<>>
<1>1. PICK l \in Nat : l = Len(list) /\ DOMAIN list = 1..l
  OBVIOUS
<1>2. list # <<>> /\ \A i \in 1..l : list[i] > 0 /\ list[i] \in Int
  <2>1. list # <<>>
    BY Zenon DEF ArePorts
  <2>2. \A i \in 1..l : list[i] \in AllPorts
    BY <1>1, Zenon DEF ArePorts
  <2>3. AllPorts \subseteq {n \in Int : n > 0}
    BY DEF AllPorts
  <2> QED
    BY <2>1, <2>2, <2>3
<1>3. ASSUME NEW n \in Int, n > 0 PROVE <<n>> \in Clean
  <2>1. n # Comma /\ n # Blank
    BY <1>3 DEF Comma, Blank
  <2>2. <<n>> \in Seq(Int) /\ Len(<<n>>) = 1 /\ <<n>>[1] = n /\ <<n>> # <<>>
    OBVIOUS
  <2>3. <<n>> \in Fields
    BY <2>1, <2>2 DEF Fields
  <2> QED
    BY <2>1, <2>2, <2>3 DEF Clean
<1> DEFINE e(i) == <<list[i]>>
<1>4. \A i \in 1..l : e(i) \in Clean
  BY <1>2, <1>3
<1> HIDE DEF e
<1>5. [i \in 1..l |-> e(i)] \in Seq(Clean)
  BY <1>4, IsASeq
<1>6. [i \in DOMAIN list |-> <<list[i]>>] \in Seq(Clean)
  BY <1>1, <1>5 DEF e
<1>7. 1 \in 1..l
  BY <1>1, <1>2, EmptySeq
<1> QED
  BY <1>1, <1>6, <1>7

LEMMA PortsBack ==
  ASSUME NEW ports \in Seq(Int)
  PROVE  LET fields == [i \in DOMAIN ports |-> <<ports[i]>>]
         IN  [i \in DOMAIN fields |-> PortNumber(fields[i])] = ports
<1>1. \A i \in DOMAIN ports : PortNumber(<<ports[i]>>) = ports[i]
  BY DEF PortNumber
<1> QED
  BY <1>1

LEMMA Six ==
  ASSUME NEW a, NEW b, NEW c, NEW d, NEW e, NEW f, NEW s, s = <<a>> \o (<<b, c, d, e, f>> \o <<>>)
  PROVE  Len(s) = 6 /\ s[1] = a /\ s[2] = b /\ s[3] = c /\ s[4] = d /\ s[5] = e /\ s[6] = f
<1> DEFINE T == {a, b, c, d, e, f}
<1>1. <<a>> \in Seq(T) /\ <<b, c, d, e, f>> \in Seq(T)
  OBVIOUS
<1> HIDE DEF T
<1>2. <<b, c, d, e, f>> \o <<>> = <<b, c, d, e, f>>
  BY <1>1, ConcatEmptySeq
<1>3. s = <<a>> \o <<b, c, d, e, f>>
  BY <1>2, Zenon
<1>4. /\ Len(s) = 1 + 5
      /\ \A i \in 1..(1 + 5) : s[i] = IF i <= 1 THEN <<a>>[i] ELSE <<b, c, d, e, f>>[i - 1]
  BY <1>1, <1>3, ConcatProperties
<1> QED
  BY <1>4

LEMMA Seven ==
  ASSUME NEW a, NEW b, NEW c, NEW d, NEW e, NEW f, NEW g, NEW s,
         s = <<a>> \o (<<b, c, d, e, f>> \o <<g>>)
  PROVE  Len(s) = 7 /\ s[1] = a /\ s[2] = b /\ s[3] = c /\ s[4] = d /\ s[5] = e /\ s[6] = f /\ s[7] = g
<1> DEFINE T == {a, b, c, d, e, f, g}
<1>1. <<a>> \in Seq(T) /\ <<b, c, d, e, f>> \in Seq(T) /\ g \in T
  OBVIOUS
<1> HIDE DEF T
<1>2. PICK t : t = <<b, c, d, e, f>> \o <<g>>
  OBVIOUS
<1>3. <<g>> \in Seq(T)
  BY <1>1
<1>4. t \in Seq(T)
  BY <1>1, <1>2, <1>3, ConcatProperties
<1>5. Len(t) = 6 /\ \A i \in 1..6 : t[i] = IF i <= 5 THEN <<b, c, d, e, f>>[i] ELSE <<g>>[i - 5]
  <2>1. /\ Len(t) = 5 + 1
        /\ \A i \in 1..(5 + 1) : t[i] = IF i <= 5 THEN <<b, c, d, e, f>>[i] ELSE <<g>>[i - 5]
    BY <1>1, <1>2, <1>3, ConcatProperties
  <2> QED
    BY <2>1
<1>6. /\ Len(s) = 1 + 6
      /\ \A i \in 1..(1 + 6) : s[i] = IF i <= 1 THEN <<a>>[i] ELSE t[i - 1]
  BY <1>1, <1>2, <1>4, <1>5, ConcatProperties
<1>7. t[1] = b /\ t[2] = c /\ t[3] = d /\ t[4] = e /\ t[5] = f /\ t[6] = g
  BY <1>5
<1> QED
  BY <1>6, <1>7

(* A configuration.                                                        *)
Record(st, ttl, lists, q, sp, sv, ports) ==
  [Strategy |-> st, FakeTTL |-> ttl, Lists |-> lists, QUIC |-> q, SplitPos |-> sp,
   Service |-> sv, Ports |-> ports]

(* What a command line that is accepted stands for.                        *)
LEMMA Accepted ==
  ASSUME NEW i \in DOMAIN Lines, Parsed[i] # <<>>
  PROVE  \E st, ttl, q, sp, sv : \E lists \in Seq(Clean), ports \in Seq(Int) :
           /\ Parsed[i] = <<Record(st, ttl, lists, q, sp, sv, ports)>>
           /\ Validate(Record(st, ttl, lists, q, sp, sv, ports))
<1>1. PICK given : given = Given(Lines[i].args)
  OBVIOUS
<1>2. /\ Len(given) \in Nat
      /\ \A k \in 1..Len(given) : \E j \in DOMAIN Lines[i].args : given[k] = Lines[i].args[j]
  BY <1>1, GivenOf, LinesAssumption
<1>3. ASSUME NEW flag \in {"lists", "ports"}, NEW default \in Seq(Int)
      PROVE  Value(given, flag, default) \in Seq(Int)
  <2>1. \A j \in DOMAIN Lines[i].args :
          Lines[i].args[j].flag \in {"lists", "ports"} => Lines[i].args[j].value \in Seq(Int)
    BY LinesAssumption
  <2>2. \A k \in 1..Len(given) : given[k].flag = flag => given[k].value \in Seq(Int)
    BY <1>2, <2>1
  <2> QED
    BY <1>2, <2>2, ValueGiven
<1>4. UsualPorts \in Seq(Int) /\ <<>> \in Seq(Int)
  BY DEF UsualPorts, Comma
<1>5. PICK fields : fields = SplitCSV(Value(given, "ports", UsualPorts))
  OBVIOUS
<1>6. fields \in Seq(Clean)
  BY <1>3, <1>4, <1>5, SplitClean
<1>7. PICK lists : lists = SplitCSV(Value(given, "lists", <<>>))
  OBVIOUS
<1>8. lists \in Seq(Clean)
  BY <1>3, <1>4, <1>7, SplitClean
<1>9. PICK c : c = FromFlags(given)
  OBVIOUS
<1>10. Parsed[i] = <<c>> /\ Validate(c)
  BY <1>1, <1>9, Zenon DEF Parsed, Parse
<1>11. PICK ports : ports = [k \in DOMAIN fields |-> PortNumber(fields[k])]
  OBVIOUS
<1>12. ports \in Seq(Int)
  <2>1. PICK n \in Nat : n = Len(fields) /\ DOMAIN fields = 1..n
    BY <1>6
  <2> DEFINE e(k) == PortNumber(fields[k])
  <2>2. ASSUME NEW k \in 1..n PROVE e(k) \in Int
    <3>1. fields[k] \in Seq(Int)
      BY <1>6, <2>1 DEF Clean, Fields
    <3> QED
      BY <3>1 DEF PortNumber
  <2> HIDE DEF e
  <2>3. [k \in 1..n |-> e(k)] \in Seq(Int)
    BY <2>2, IsASeq
  <2> QED
    BY <1>11, <2>1, <2>3 DEF e
<1>13. c = Record(Value(given, "strategy", Default.Strategy), Value(given, "fake-ttl", Default.FakeTTL),
                  lists, Value(given, "quic", Default.QUIC), Value(given, "split", Default.SplitPos),
                  Value(given, "service", Default.Service), ports)
  BY <1>5, <1>7, <1>9, <1>11 DEF FromFlags, Record
<1> QED
  BY <1>8, <1>10, <1>12, <1>13, Zenon

(* The fields that stand for the ports.                                    *)
Words(ports) == [i \in DOMAIN ports |-> <<ports[i]>>]

(* What Parse makes of a command line with these options.                  *)
Written(args, st, ttl, lists, q, sp, ports) ==
  /\ Len(args) = IF lists = <<>> THEN 6 ELSE 7
  /\ DOMAIN args = 1..Len(args)
  /\ args[1] = Option("service", "run")
  /\ args[2] = Option("strategy", st)
  /\ args[3] = Option("fake-ttl", ttl)
  /\ args[4] = Option("quic", q)
  /\ args[5] = Option("split", sp)
  /\ args[6] = Option("ports", Join(Words(ports)))
  /\ lists # <<>> => args[7] = Option("lists", Join(lists))

LEMMA Reparsed ==
  ASSUME NEW st, NEW ttl, NEW q, NEW sp, NEW lists \in Seq(Clean), NEW ports \in Seq(Int),
         Validate(Record(st, ttl, lists, q, sp, "run", ports)),
         NEW args, Written(args, st, ttl, lists, q, sp, ports)
  PROVE  Parse(args) = <<Record(st, ttl, lists, q, sp, "run", ports)>>
<1>1. /\ args[1].flag = "service" /\ args[1].value = "run"
      /\ args[2].flag = "strategy" /\ args[2].value = st
      /\ args[3].flag = "fake-ttl" /\ args[3].value = ttl
      /\ args[4].flag = "quic" /\ args[4].value = q
      /\ args[5].flag = "split" /\ args[5].value = sp
      /\ args[6].flag = "ports" /\ args[6].value = Join(Words(ports))
      /\ lists # <<>> => args[7].flag = "lists" /\ args[7].value = Join(lists)
  BY DEF Written, Option
<1>2. /\ Len(args) \in Nat /\ DOMAIN args = 1..Len(args) /\ (lists # <<>> => 7 \in 1..Len(args))
      /\ 1 \in 1..Len(args) /\ 2 \in 1..Len(args) /\ 3 \in 1..Len(args)
      /\ 4 \in 1..Len(args) /\ 5 \in 1..Len(args) /\ 6 \in 1..Len(args)
      /\ \A i \in 1..Len(args) :
           i = 1 \/ i = 2 \/ i = 3 \/ i = 4 \/ i = 5 \/ i = 6 \/ (i = 7 /\ lists # <<>>)
  BY DEF Written
<1>3. Given(args) = args
  <2>1. \A i \in 1..Len(args) : args[i].flag # ""
    BY <1>1, <1>2
  <2> QED
    BY <2>1, NoOperand
<1>4. Value(args, "service", Default.Service) = "run"
  <2>1. Once(args, "service", 1)
    BY <1>1, <1>2 DEF Once
  <2>2. Value(args, "service", Default.Service) = args[1].value
    BY <2>1, ValueAt
  <2> QED
    BY <1>1, <2>2
<1>5. Value(args, "strategy", Default.Strategy) = st
  <2>1. Once(args, "strategy", 2)
    BY <1>1, <1>2 DEF Once
  <2>2. Value(args, "strategy", Default.Strategy) = args[2].value
    BY <2>1, ValueAt
  <2> QED
    BY <1>1, <2>2
<1>6. Value(args, "fake-ttl", Default.FakeTTL) = ttl
  <2>1. Once(args, "fake-ttl", 3)
    BY <1>1, <1>2 DEF Once
  <2>2. Value(args, "fake-ttl", Default.FakeTTL) = args[3].value
    BY <2>1, ValueAt
  <2> QED
    BY <1>1, <2>2
<1>7. Value(args, "quic", Default.QUIC) = q
  <2>1. Once(args, "quic", 4)
    BY <1>1, <1>2 DEF Once
  <2>2. Value(args, "quic", Default.QUIC) = args[4].value
    BY <2>1, ValueAt
  <2> QED
    BY <1>1, <2>2
<1>8. Value(args, "split", Default.SplitPos) = sp
  <2>1. Once(args, "split", 5)
    BY <1>1, <1>2 DEF Once
  <2>2. Value(args, "split", Default.SplitPos) = args[5].value
    BY <2>1, ValueAt
  <2> QED
    BY <1>1, <2>2
<1>9. Value(args, "ports", UsualPorts) = Join(Words(ports))
  <2>1. Once(args, "ports", 6)
    BY <1>1, <1>2 DEF Once
  <2>2. Value(args, "ports", UsualPorts) = args[6].value
    BY <2>1, ValueAt
  <2> QED
    BY <1>1, <2>2
<1>10. Value(args, "lists", <<>>) = IF lists = <<>> THEN <<>> ELSE Join(lists)
  <2>1. CASE lists = <<>>
    <3>1. \A i \in 1..Len(args) : args[i].flag # "lists"
      BY <1>1, <1>2, <2>1
    <3> QED
      BY <2>1, <3>1, ValueAbsent
  <2>2. CASE lists # <<>>
    <3>1. 7 \in 1..Len(args)
      BY <1>2, <2>2
    <3>2. Once(args, "lists", 7)
      BY <1>1, <1>2, <2>2, <3>1 DEF Once
    <3>3. Value(args, "lists", <<>>) = args[7].value
      BY <3>2, ValueAt
    <3> QED
      BY <1>1, <2>2, <3>3
  <2> QED
    BY <2>1, <2>2
<1>11. SplitCSV(<<>>) = <<>>
  <2>1. {i \in DOMAIN <<>> : <<>>[i] # Blank} = {}
    OBVIOUS
  <2>2. TrimBlanks(<<>>) = <<>>
    BY <2>1, Zenon DEF TrimBlanks
  <2> QED
    BY <2>2, ScanEmpty DEF SplitCSV, Kept, NoField
<1>12. SplitCSV(Value(args, "lists", <<>>)) = lists
  BY <1>10, <1>11, SplitJoin
<1>13. ArePorts(ports)
  BY DEF Validate, Record
<1>14. SplitCSV(Value(args, "ports", UsualPorts)) = Words(ports)
  <2>1. Words(ports) \in Seq(Clean) /\ Words(ports) # <<>>
    BY <1>13, PortsClean DEF Words
  <2> QED
    BY <1>9, <2>1, SplitJoin
<1>15. [k \in DOMAIN Words(ports) |-> PortNumber(Words(ports)[k])] = ports
  BY PortsBack DEF Words
<1>16. FromFlags(args) = Record(st, ttl, lists, q, sp, "run", ports)
  BY <1>4, <1>5, <1>6, <1>7, <1>8, <1>12, <1>14, <1>15 DEF FromFlags, Record
<1>17. ttl >= 0
  <2>1. ttl \in 1..255
    BY DEF Validate, Record
  <2> QED
    BY <2>1
<1>18. \A i \in DOMAIN args : args[i].flag \in Flags /\ (args[i].flag = "fake-ttl" => args[i].value >= 0)
  <2> QED
    BY <1>1, <1>2, <1>17 DEF Flags
<1> QED
  BY <1>3, <1>16, <1>18 DEF Parse

(* No directory the service is installed from has a comma in its path.     *)
NoCommaDirs == \A i \in DOMAIN Lines : Asks(i, "install") =>
  \A k \in DOMAIN Lines[i].dir : Lines[i].dir[k] # Comma

(* The command line that is stored for the service means the configuration *)
(* that was typed.                                                         *)
ArgsRoundTrip ==
  \A i \in DOMAIN Lines : Asks(i, "install") =>
    LET entry == Entry(Lines[i].dir, Parsed[i][1]) IN Stored(entry) = <<entry[2]>>

(* The lists with their paths made absolute.                               *)
Absolute(dir, lists) == [k \in DOMAIN lists |-> Abs(dir, lists[k])]

LEMMA ResolvedRecord ==
  ASSUME NEW dir, NEW st, NEW ttl, NEW lists, NEW q, NEW sp, NEW sv, NEW ports
  PROVE  Resolved(dir, Record(st, ttl, lists, q, sp, sv, ports)) =
           Record(st, ttl, Absolute(dir, lists), q, sp, sv, ports)
BY DEF Resolved, Record, Absolute

(* The command line of the service has each option once.                   *)
LEMMA ArgsWritten ==
  ASSUME NEW st, NEW ttl, NEW lists, NEW q, NEW sp, NEW sv, NEW ports
  PROVE  Written(<<Option("service", "run")>> \o Args(Record(st, ttl, lists, q, sp, sv, ports)),
                 st, ttl, lists, q, sp, ports)
<1>1. PICK o1, o2, o3, o4, o5, o6, o7 :
        /\ o1 = Option("service", "run")
        /\ o2 = Option("strategy", st) /\ o3 = Option("fake-ttl", ttl)
        /\ o4 = Option("quic", q) /\ o5 = Option("split", sp)
        /\ o6 = Option("ports", Join(Words(ports))) /\ o7 = Option("lists", Join(lists))
  OBVIOUS
<1>2. Args(Record(st, ttl, lists, q, sp, sv, ports)) =
        <<o2, o3, o4, o5, o6>> \o (IF lists = <<>> THEN <<>> ELSE <<o7>>)
  BY <1>1 DEF Args, Record, Words
<1>3. PICK s : s = <<Option("service", "run")>> \o Args(Record(st, ttl, lists, q, sp, sv, ports))
  OBVIOUS
<1>4. CASE lists = <<>>
  <2>1. s = <<o1>> \o (<<o2, o3, o4, o5, o6>> \o <<>>)
    BY <1>1, <1>2, <1>3, <1>4
  <2>2. Len(s) = 6 /\ s[1] = o1 /\ s[2] = o2 /\ s[3] = o3 /\ s[4] = o4 /\ s[5] = o5 /\ s[6] = o6
    BY <2>1, Six
  <2> QED
    BY <1>1, <1>3, <1>4, <2>2 DEF Written
<1>5. CASE lists # <<>>
  <2>1. s = <<o1>> \o (<<o2, o3, o4, o5, o6>> \o <<o7>>)
    BY <1>1, <1>2, <1>3, <1>5
  <2>2. /\ Len(s) = 7 /\ s[1] = o1 /\ s[2] = o2 /\ s[3] = o3 /\ s[4] = o4 /\ s[5] = o5 /\ s[6] = o6
        /\ s[7] = o7
    BY <2>1, Seven
  <2> QED
    BY <1>1, <1>3, <1>5, <2>2 DEF Written
<1> QED
  BY <1>4, <1>5

(* Whatever a user types to install the service, the command line that is  *)
(* stored means the configuration that was typed, wherever it is run.      *)
LEMMA RoundTrip == ASSUME NoCommaDirs PROVE ArgsRoundTrip
<1> SUFFICES ASSUME NEW i \in DOMAIN Lines, Asks(i, "install")
             PROVE  LET entry == Entry(Lines[i].dir, Parsed[i][1]) IN Stored(entry) = <<entry[2]>>
  BY DEF ArgsRoundTrip
<1>1. PICK dir : dir = Lines[i].dir
  OBVIOUS
<1>2. dir \in Seq(Int) /\ dir # <<>> /\ dir[1] = Root /\ \A k \in DOMAIN dir : dir[k] # Comma
  BY <1>1, LinesAssumption DEF NoCommaDirs
<1>3. Parsed[i] # <<>>
  BY DEF Asks
<1>4. PICK st, ttl, q, sp, sv : \E lists \in Seq(Clean), ports \in Seq(Int) :
        /\ Parsed[i] = <<Record(st, ttl, lists, q, sp, sv, ports)>>
        /\ Validate(Record(st, ttl, lists, q, sp, sv, ports))
  BY <1>3, Accepted, Zenon
<1>5. PICK lists \in Seq(Clean), ports \in Seq(Int) :
        /\ Parsed[i] = <<Record(st, ttl, lists, q, sp, sv, ports)>>
        /\ Validate(Record(st, ttl, lists, q, sp, sv, ports))
  BY <1>4, Zenon
<1>6. PICK abs : abs = Absolute(dir, lists)
  OBVIOUS
<1>7. PICK n \in Nat : n = Len(lists) /\ DOMAIN lists = 1..n /\ \A k \in 1..n : lists[k] \in Clean
  BY ElementOfSeq
<1>8. abs \in Seq(Clean)
  <2> DEFINE e(k) == Abs(dir, lists[k])
  <2>1. \A k \in 1..n : e(k) \in Clean
    BY <1>2, <1>7, AbsClean
  <2> HIDE DEF e
  <2>2. [k \in 1..n |-> e(k)] \in Seq(Clean)
    BY <2>1, IsASeq
  <2> QED
    BY <1>6, <1>7, <2>2 DEF e, Absolute
<1>9. Absolute(System, abs) = abs
  <2>1. \A k \in DOMAIN lists : abs[k] = Abs(dir, lists[k]) /\ abs[k][1] = Root
    BY <1>2, <1>6, <1>7, AbsClean DEF Absolute
  <2>2. \A k \in DOMAIN lists : Abs(System, abs[k]) = abs[k]
    BY <2>1 DEF Abs
  <2> QED
    BY <1>6, <2>2 DEF Absolute
<1>10. Validate(Record(st, ttl, abs, q, sp, "run", ports))
  BY <1>5 DEF Validate, Record
<1>11. Written(<<Option("service", "run")>> \o Args(Record(st, ttl, abs, q, sp, sv, ports)),
               st, ttl, abs, q, sp, ports)
  BY ArgsWritten
<1>12. ServiceArgs(dir, Parsed[i][1]) =
         <<Option("service", "run")>> \o Args(Record(st, ttl, abs, q, sp, sv, ports))
  BY <1>5, <1>6, ResolvedRecord DEF ServiceArgs
<1>13. Parse(ServiceArgs(dir, Parsed[i][1])) = <<Record(st, ttl, abs, q, sp, "run", ports)>>
  BY <1>5, <1>8, <1>10, <1>11, <1>12, Reparsed
<1>14. [Resolved(dir, Parsed[i][1]) EXCEPT !.Service = "run"] = Record(st, ttl, abs, q, sp, "run", ports)
  <2>1. Resolved(dir, Parsed[i][1]) = Record(st, ttl, abs, q, sp, sv, ports)
    BY <1>5, <1>6, ResolvedRecord
  <2> QED
    BY <2>1 DEF Record
<1>15. Resolved(System, Record(st, ttl, abs, q, sp, "run", ports)) = Record(st, ttl, abs, q, sp, "run", ports)
  BY <1>9, ResolvedRecord
<1>16. PICK entry : entry = Entry(dir, Parsed[i][1])
  OBVIOUS
<1>17. entry[1] = ServiceArgs(dir, Parsed[i][1]) /\ entry[2] = Record(st, ttl, abs, q, sp, "run", ports)
  BY <1>14, <1>16 DEF Entry
<1>18. Stored(entry) = <<Record(st, ttl, abs, q, sp, "run", ports)>>
  BY <1>13, <1>15, <1>17 DEF Stored, In
<1> QED
  BY <1>1, <1>16, <1>17, <1>18

-----------------------------------------------------------------------------
(* The service's command line means the configuration it stands for, and   *)
(* its process was started with that one.                                  *)
EntryInv == status # "absent" => Stored(installed) = <<installed[2]>>
InstallInv == EntryInv /\ ServiceAsInstalled

(* A step that leaves the service's entry and process, or ends the latter. *)
Leaves ==
  /\ installed' = installed /\ (status' = "absent" <=> status = "absent")
  /\ main'["service"] # "none" => main["service"] # "none" /\ conf'["service"] = conf["service"]

(* Such a step keeps the entry and what the process was started with.      *)
LEMMA LeavesKeeps == ASSUME InstallInv, Leaves PROVE InstallInv'
<1>1. Stored(installed)' = Stored(installed) /\ installed'[2] = installed[2]
  BY DEF Leaves, Stored
<1>2. EntryInv'
  BY <1>1 DEF InstallInv, EntryInv, Leaves
<1>3. ServiceAsInstalled'
  BY <1>1 DEF InstallInv, ServiceAsInstalled, Leaves
<1> QED
  BY <1>2, <1>3 DEF InstallInv

(* So does the end of the process, with which a marked service vanishes.   *)
LEMMA RemovedKeeps ==
  ASSUME InstallInv, Removed, status # "absent", main'["service"] = "none"
  PROVE  InstallInv'
<1>1. CASE marked
  BY <1>1 DEF Removed, InstallInv, EntryInv, ServiceAsInstalled
<1>2. CASE ~marked
  <2>1. Leaves
    BY <1>2 DEF Removed, Leaves
  <2> QED
    BY <2>1, LeavesKeeps
<1> QED
  BY <1>1, <1>2

(* A process that is started gets the configuration of the entry.          *)
LEMMA LaunchKeeps ==
  ASSUME InstallInv, ConfTypes, status # "absent", Launch("service", Stored(installed)),
         installed' = installed
  PROVE  InstallInv'
<1>1. Stored(installed)' = Stored(installed) /\ Stored(installed) = <<installed[2]>>
  BY DEF Stored, InstallInv, EntryInv
<1>2. conf'["service"] = <<installed[2]>>
  BY <1>1 DEF Launch, Set, ConfTypes, Procs
<1> QED
  BY <1>1, <1>2 DEF InstallInv, EntryInv, ServiceAsInstalled

(* Every step keeps the entry of the service, changes it while there is no *)
(* process of the service, or starts one with the configuration it has.    *)
LEMMA InstallStep ==
  ASSUME ArgsRoundTrip, Inv, ConfTypes, InstallInv, [Next]_vars
  PROVE  InstallInv'
<1>1. /\ main = [p \in Procs |-> main[p]] /\ conf = [p \in Procs |-> conf[p]]
      /\ "service" \in Procs /\ "foreground" \in Procs
      /\ status \in {"absent", "stopped"} => main["service"] = "none"
  BY DEF Inv, ProcTypes, ConfTypes, StopInv, HandlerInv, Procs
<1>2. ASSUME NEW exit, Gone("service", exit), Removed, main["service"] # "none"
      PROVE  InstallInv'
  <2>1. main'["service"] = "none" /\ status # "absent"
    BY <1>1, <1>2 DEF Gone, Set
  <2> QED
    BY <1>2, <2>1, RemovedKeeps
<1>3. ASSUME UNCHANGED <<installed, status>>,
             \A p \in Procs : p # "foreground" =>
               /\ main'[p] # "none" => main[p] # "none"
               /\ conf'[p] = conf[p]
      PROVE  InstallInv'
  <2>1. Leaves
    BY <1>1, <1>3 DEF Leaves
  <2> QED
    BY <2>1, LeavesKeeps
<1>4. ASSUME NEW p \in Procs, Process(p)
      PROVE  InstallInv'
  <2>1. CASE Load(p)
    BY <2>1, <1>1, <1>3 DEF Load, At, Set, scmVars
  <2>2. CASE LoadFails(p)
    <3>1. CASE p = "service"
      BY <2>2, <3>1, <1>2 DEF LoadFails, At
    <3>2. CASE p # "service"
      BY <2>2, <3>2, <1>1, <1>3 DEF LoadFails, Gone, Set, scmVars, Procs
    <3> QED
      BY <3>1, <3>2
  <2>3. CASE Open(p) \/ CloseOnStop(p) \/ RunReturns(p)
    BY <2>3, <1>3 DEF Open, CloseOnStop, RunReturns, scmVars
  <2> QED
    BY <1>4, <2>1, <2>2, <2>3 DEF Process
<1>5. CASE Console
  <2>1. ASSUME NEW i \in DOMAIN Lines, StartForeground(i)
        PROVE  InstallInv'
    BY <2>1, <1>1, <1>3 DEF StartForeground, Launch, Set, scmVars
  <2>2. CASE Foreground \/ StopOnSignal
    BY <2>2, <1>1, <1>3 DEF Foreground, StopOnSignal, Set, scmVars
  <2>3. CASE NoController \/ Exit
    BY <2>3, <1>1, <1>3 DEF NoController, Exit, Gone, Set, scmVars
  <2>4. CASE Interrupt
    BY <2>4, <1>1, <1>3 DEF Interrupt, Gone, Set, scmVars, procVars
  <2> QED
    BY <1>5, <2>1, <2>2, <2>3, <2>4 DEF Console
<1>6. CASE Handler
  <2>1. CASE ReportRunning \/ ReportStopPending
    <3>1. main["service"] # "none" /\ conf' = conf /\ installed' = installed
      BY <2>1 DEF ReportRunning, ReportStopPending, At
    <3>2. status' # "absent" /\ status # "absent"
      BY <2>1, <1>1, <3>1 DEF ReportRunning, ReportStopPending
    <3>3. Leaves
      BY <3>1, <3>2 DEF Leaves
    <3> QED
      BY <3>3, LeavesKeeps
  <2>2. CASE HandleInterrogate
    BY <2>2, <1>3 DEF HandleInterrogate, procVars
  <2>3. CASE HandleStop
    BY <2>3, <1>1, <1>3 DEF HandleStop, At, Set
  <2>4. CASE HandleDone
    BY <2>4, <1>2 DEF HandleDone
  <2> QED
    BY <1>6, <2>1, <2>2, <2>3, <2>4 DEF Handler
<1>7. CASE Scm
  <2>1. CASE StartService
    BY <2>1, LaunchKeeps DEF StartService
  <2>2. CASE Request("stop") \/ Request("interrogate")
    BY <2>2, <1>3 DEF Request, procVars
  <2>3. CASE Shutdown
    <3>1. main'["service"] = "none"
      BY <2>3, <1>1 DEF Shutdown
    <3>2. CASE status # "absent" /\ ~marked
      <4>1. Leaves
        BY <2>3, <3>1, <3>2 DEF Shutdown, Leaves
      <4> QED
        BY <4>1, LeavesKeeps
    <3>3. CASE ~(status # "absent" /\ ~marked)
      BY <2>3, <3>1, <3>3 DEF Shutdown, InstallInv, EntryInv, ServiceAsInstalled
    <3> QED
      BY <3>2, <3>3
  <2> QED
    BY <1>7, <2>1, <2>2, <2>3 DEF Scm
<1>8. CASE Command
  <2>1. ASSUME NEW i \in DOMAIN Lines, Install(i)
        PROVE  InstallInv'
    <3>1. CASE status = "absent"
      <4>1. PICK entry : entry = Entry(Lines[i].dir, Parsed[i][1])
        OBVIOUS
      <4>2. Asks(i, "install") /\ installed' = entry /\ main' = main
        BY <2>1, <3>1, <4>1 DEF Install, procVars
      <4>3. Stored(entry) = <<entry[2]>>
        BY <4>1, <4>2 DEF ArgsRoundTrip
      <4>4. EntryInv'
        BY <4>2, <4>3 DEF EntryInv, Stored
      <4>5. ServiceAsInstalled'
        BY <1>1, <3>1, <4>2 DEF ServiceAsInstalled
      <4> QED
        BY <4>4, <4>5 DEF InstallInv
    <3>2. CASE status # "absent"
      BY <2>1, <3>2, <1>3 DEF Install, procVars
    <3> QED
      BY <3>1, <3>2
  <2>2. ASSUME NEW i \in DOMAIN Lines, Uninstall(i)
        PROVE  InstallInv'
    BY <2>2, <1>3 DEF Uninstall, procVars
  <2>3. CASE InstallStarts
    <3>1. CASE status = "stopped" /\ Launch("service", Stored(installed))
      BY <2>3, <3>1, LaunchKeeps DEF InstallStarts
    <3>2. CASE UNCHANGED <<procVars, status>>
      BY <2>3, <3>2, <1>3 DEF InstallStarts, procVars
    <3> QED
      BY <2>3, <3>1, <3>2 DEF InstallStarts
  <2>4. CASE InstallReturns
    BY <2>4, <1>3 DEF InstallReturns, procVars, scmVars
  <2>5. CASE UninstallDeletes
    <3>1. CASE status = "stopped"
      BY <2>5, <3>1, <1>1
         DEF UninstallDeletes, procVars, InstallInv, EntryInv, ServiceAsInstalled
    <3>2. CASE status # "stopped"
      BY <2>5, <3>2, <1>3 DEF UninstallDeletes, procVars
    <3> QED
      BY <3>1, <3>2
  <2> QED
    BY <1>8, <2>1, <2>2, <2>3, <2>4, <2>5 DEF Command
<1>9. CASE UNCHANGED vars
  BY <1>9, <1>3 DEF vars, procVars, scmVars
<1> QED
  BY <1>4, <1>5, <1>6, <1>7, <1>8, <1>9 DEF Next

(* "the service runs with a different working directory": every process of *)
(* the service has the configuration that was installed, whatever is       *)
(* installed and removed again while it runs, and however requests,        *)
(* failures and restarts of the machine interleave, if it was not          *)
(* installed from a directory whose path has a comma.                      *)
THEOREM ServiceInstalledCorrect ==
  ASSUME NoCommaDirs
  PROVE  Spec => []ServiceAsInstalled
<1>1. Init => ConfTypes /\ InstallInv
  BY DEF Init, ConfTypes, InstallInv, EntryInv, ServiceAsInstalled, Procs
<1>2. Inv /\ ConfTypes /\ InstallInv /\ [Next]_vars => (ConfTypes /\ InstallInv)'
  BY RoundTrip, ConfStep, InstallStep
<1>3. InstallInv => ServiceAsInstalled
  BY DEF InstallInv
<1> QED
  BY <1>1, <1>2, <1>3, Invariant, PTL DEF Spec
=============================================================================
