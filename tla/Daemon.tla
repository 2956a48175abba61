------------------------------- MODULE Daemon -------------------------------
(***************************************************************************)
(* The command-line program, cmd/skvoz/main.go: a foreground process that  *)
(* Ctrl+C stops, and a process that runs as a Windows service              *)
(* (internal/service/service_windows.go) under the service control manager *)
(* (SCM), and the commands that install and uninstall that service.  They  *)
(* are one program: what it does depends on its command line.              *)
(*                                                                         *)
(* Both processes run the same engine closure; a stop request closes the   *)
(* channel stop, which makes a goroutine close the handle, which makes     *)
(* Recv, and with it the engine, return.                                   *)
(***************************************************************************)
EXTENDS Config

CONSTANTS
  Faults,    \* what may fail: "load", "open", "recv", "start"
  Lines,     \* the users' command lines, and the directories they are typed in
  Files,     \* the list files: how many domains each path has
  System     \* the directory a service runs in

ASSUME FaultsAssumption == Faults \subseteq {"load", "open", "recv", "start"}

(* A working directory is an absolute path.                                *)
ASSUME LinesAssumption == \A i \in DOMAIN Lines :
  /\ Lines[i].dir \in Seq(Int) /\ Lines[i].dir # <<>> /\ Lines[i].dir[1] = Root
  /\ ~IsGUI(Lines[i].args)
  /\ Len(Lines[i].args) \in Nat /\ DOMAIN Lines[i].args = 1..Len(Lines[i].args)
  /\ \A k \in DOMAIN Lines[i].args :
       Lines[i].args[k].flag \in {"lists", "ports"} => Lines[i].args[k].value \in Seq(Int)

Procs == {"foreground", "service"}

(* What main makes of each command line, and where its lists are.          *)
In(dir, parsed) == [k \in DOMAIN parsed |-> Resolved(dir, parsed[k])]
Parsed == [i \in DOMAIN Lines |-> Parse(Lines[i].args)]
Asks(i, service) == Parsed[i] # <<>> /\ Parsed[i][1].Service = service

VARIABLES
  main,      \* where the main goroutine of each process is
  run,       \* where the engine closure is
  stopped,   \* how often the channel stop has been closed
  handle,    \* src
  closer,    \* the goroutine that waits for stop and closes src
  code,      \* its exit code, 0 until it is gone
  signal,    \* foreground: where the goroutine that waits for Ctrl+C is
  control,   \* service: the request in channel r
  status,    \* service: its status in the SCM; "absent" if not installed
  marked,    \* service: is it marked for deletion?
  cli,       \* where the install or uninstall command is, or its result
  conf,      \* the configuration of each process, <<>> if it has none
  installed      \* the service's command line, and the configuration it stands for

procVars == <<main, run, stopped, handle, closer, code, conf>>
scmVars == <<control, status, marked, installed>>
vars == <<procVars, signal, scmVars, cli>>

MainPC == {"none", "load", "begin", "running", "loop", "stopping", "wait"}
RunPC == {"none", "open", "recv", "returned"}
Statuses == {"absent", "stopped", "StartPending", "running", "StopPending"}

TypeOK ==
  /\ main \in [Procs -> MainPC]
  /\ run \in [Procs -> RunPC]
  /\ stopped \in [Procs -> 0..1]
  /\ handle \in [Procs -> {"none", "open", "closed"}]
  /\ closer \in [Procs -> {"none", "wait", "end"}]
  /\ code \in [Procs -> 0..2]
  /\ signal \in {"none", "wait", "caught", "end"}
  /\ control \in {"none", "interrogate", "stop"}
  /\ status \in Statuses
  /\ marked \in BOOLEAN
  /\ cli \in {"idle", "start", "starting", "delete", "installed", "failed", "removed"}
  /\ \A p \in Procs : conf[p] # <<>> => Validate(conf[p][1])

Init ==
  /\ main = [p \in Procs |-> "none"]
  /\ run = [p \in Procs |-> "none"]
  /\ stopped = [p \in Procs |-> 0]
  /\ handle = [p \in Procs |-> "none"]
  /\ closer = [p \in Procs |-> "none"]
  /\ code = [p \in Procs |-> 0]
  /\ signal = "none"
  /\ control = "none"
  /\ status = "absent"
  /\ marked = FALSE
  /\ cli = "idle"
  /\ conf = [p \in Procs |-> <<>>]
  /\ installed = <<>>

-----------------------------------------------------------------------------
At(f, p, from) == f[p] = from
Set(f, p, to) == f' = [f EXCEPT ![p] = to]

(* close(stop).                                                            *)
CloseStop(p) == stopped' = [stopped EXCEPT ![p] = @ + 1]

(* A process is launched, or is gone, and all its goroutines with it.      *)
Launch(p, parsed) ==
  /\ Set(main, p, "load")
  /\ Set(conf, p, parsed)
  /\ Set(code, p, 0)
  /\ UNCHANGED <<run, stopped, handle, closer>>
Stored(e) == In(System, Parse(e[1]))
Gone(p, exit) ==
  /\ Set(main, p, "none")
  /\ Set(run, p, "none")
  /\ Set(stopped, p, 0)
  /\ Set(handle, p, "none")
  /\ Set(closer, p, "none")
  /\ Set(code, p, exit)
  /\ Set(conf, p, <<>>)

(* What the SCM does when the process of the service is gone.              *)
Removed == /\ status' = IF marked THEN "absent" ELSE "stopped"
           /\ installed' = IF marked THEN <<>> ELSE installed
           /\ marked' = FALSE
           /\ control' = "none"

-----------------------------------------------------------------------------
(* Actions with a plausible bug, which the properties are shown to catch.  *)

(* After a stop request the handler goes on serving requests.              *)
StopContinues ==
  /\ At(main, "service", "stopping")
  /\ Set(main, "service", "loop")
  /\ status' = "StopPending"
  /\ UNCHANGED <<run, stopped, handle, closer, code, conf, control, signal, marked, installed, cli>>

(* The handler does not look at done while it waits for requests.          *)
DoneUnread ==
  /\ main["service"] = "wait"
  /\ At(run, "service", "returned")
  /\ Gone("service", 0)
  /\ Removed
  /\ UNCHANGED <<signal, cli>>

(* The result of the engine is an error whatever stop says.                *)
ExitAlwaysFatal ==
  /\ At(main, "foreground", "running")
  /\ At(run, "foreground", "returned")
  /\ Gone("foreground", 1)
  /\ signal' = "none"
  /\ UNCHANGED <<scmVars, cli>>

(* The goroutine that closes the handle is forgotten.                      *)
CloseNever(p) == FALSE /\ UNCHANGED vars

-----------------------------------------------------------------------------
(* run, up to the engine closure, in either process.                       *)

StartForeground(i) ==
  /\ ~Asks(i, "install") /\ ~Asks(i, "uninstall")
  /\ At(main, "foreground", "none")
  /\ Launch("foreground", In(Lines[i].dir, Parsed[i]))
  /\ UNCHANGED <<signal, scmVars, cli>>

(* loadLists and engine.New: every list is there, and some have a domain.  *)
Loads(c) ==
  /\ ToSet(c.Lists) \subseteq DOMAIN Files
  /\ \E i \in DOMAIN c.Lists : Files[c.Lists[i]] > 0

Load(p) ==
  /\ At(main, p, "load")
  /\ conf[p] # <<>> /\ Loads(conf[p][1])
  /\ Set(main, p, "begin")
  /\ UNCHANGED <<run, stopped, handle, closer, code, conf, signal, scmVars, cli>>

LoadFails(p) ==
  /\ At(main, p, "load")
  /\ \/ conf[p] = <<>> /\ Gone(p, 2)
     \/ conf[p] # <<>> /\ ("load" \in Faults \/ ~Loads(conf[p][1])) /\ Gone(p, 1)
  /\ IF p = "service" THEN Removed ELSE UNCHANGED scmVars
  /\ UNCHANGED <<signal, cli>>

-----------------------------------------------------------------------------
(* The closure runEngine and the goroutine it starts.                      *)

Open(p) ==
  /\ At(run, p, "open")
  /\ \/ /\ Set(run, p, "recv")
        /\ Set(handle, p, "open")
        /\ Set(closer, p, "wait")
     \/ /\ "open" \in Faults
        /\ Set(run, p, "returned")
        /\ UNCHANGED <<handle, closer>>
  /\ UNCHANGED <<main, stopped, code, conf, signal, scmVars, cli>>

CloseOnStop(p) ==
  /\ At(closer, p, "wait")
  /\ stopped[p] > 0
  /\ Set(closer, p, "end")
  /\ Set(handle, p, "closed")
  /\ UNCHANGED <<main, run, stopped, code, conf, signal, scmVars, cli>>

(* eng.Run returns when Recv returns an error.                             *)
RunReturns(p) ==
  /\ At(run, p, "recv")
  /\ At(handle, p, "closed") \/ "recv" \in Faults
  /\ Set(run, p, "returned")
  /\ UNCHANGED <<main, stopped, handle, closer, code, conf, signal, scmVars, cli>>

-----------------------------------------------------------------------------
(* The foreground process.                                                 *)

Foreground ==
  /\ At(main, "foreground", "begin")
  /\ conf["foreground"][1].Service = ""
  /\ Set(main, "foreground", "running")
  /\ Set(run, "foreground", "open")
  /\ signal' = "wait"
  /\ UNCHANGED <<stopped, handle, closer, code, conf, scmVars, cli>>

(* svc.Run fails in a process that the SCM has not launched.               *)
NoController ==
  /\ At(main, "foreground", "begin")
  /\ conf["foreground"][1].Service = "run"
  /\ Gone("foreground", 1)
  /\ UNCHANGED <<signal, scmVars, cli>>

(* Ctrl+C ends the process before signal.Notify, is caught the first time  *)
(* after it, and then is ignored.                                          *)
Interrupt ==
  \/ /\ main["foreground"] \in {"load", "begin"}
     /\ Gone("foreground", 1)
     /\ UNCHANGED <<signal, scmVars, cli>>
  \/ /\ signal = "wait"
     /\ signal' = "caught"
     /\ UNCHANGED <<procVars, scmVars, cli>>

StopOnSignal ==
  /\ signal = "caught"
  /\ signal' = "end"
  /\ CloseStop("foreground")
  /\ UNCHANGED <<main, run, handle, closer, code, conf, scmVars, cli>>

Exit ==
  /\ At(main, "foreground", "running")
  /\ At(run, "foreground", "returned")
  /\ Gone("foreground", IF stopped["foreground"] > 0 THEN 0 ELSE 1)
  /\ signal' = "none"
  /\ UNCHANGED <<scmVars, cli>>

-----------------------------------------------------------------------------
(* The service process: handler.Execute.                                   *)

ReportRunning ==
  /\ At(main, "service", "begin")
  /\ Set(main, "service", "loop")
  /\ Set(run, "service", "open")
  /\ status' = "running"
  /\ UNCHANGED <<stopped, handle, closer, code, conf, control, signal, marked, installed, cli>>

HandleInterrogate ==
  /\ At(main, "service", "loop")
  /\ control = "interrogate"
  /\ control' = "none"
  /\ UNCHANGED <<procVars, signal, status, marked, installed, cli>>

HandleStop ==
  /\ At(main, "service", "loop")
  /\ control = "stop"
  /\ Set(main, "service", "stopping")
  /\ CloseStop("service")
  /\ control' = "none"
  /\ UNCHANGED <<run, handle, closer, code, conf, signal, status, marked, installed, cli>>

ReportStopPending ==
  /\ At(main, "service", "stopping")
  /\ Set(main, "service", "wait")
  /\ status' = "StopPending"
  /\ UNCHANGED <<run, stopped, handle, closer, code, conf, control, signal, marked, installed, cli>>

(* Whether or not a stop was requested, Execute returns (false, 0).        *)
HandleDone ==
  /\ main["service"] \in {"loop", "wait"}
  /\ At(run, "service", "returned")
  /\ Gone("service", 0)
  /\ Removed
  /\ UNCHANGED <<signal, cli>>

-----------------------------------------------------------------------------
(* The SCM and its users.                                                  *)

StartService ==
  /\ status = "stopped"
  /\ ~marked
  /\ status' = "StartPending"
  /\ Launch("service", Stored(installed))
  /\ UNCHANGED <<control, marked, installed, signal, cli>>

(* A stop is accepted while the status is "running".                       *)
Accepting == status = "running" /\ control = "none"

Request(kind) ==
  /\ Accepting
  /\ control' = kind
  /\ UNCHANGED <<procVars, signal, status, marked, installed, cli>>

(* The machine goes down; when it is up again, StartService may follow:    *)
(* the service starts with the machine.                                    *)
Shutdown ==
  /\ main' = [p \in Procs |-> "none"]
  /\ run' = [p \in Procs |-> "none"]
  /\ stopped' = [p \in Procs |-> 0]
  /\ handle' = [p \in Procs |-> "none"]
  /\ closer' = [p \in Procs |-> "none"]
  /\ conf' = [p \in Procs |-> <<>>]
  /\ signal' = "none"
  /\ control' = "none"
  /\ status' = IF status # "absent" /\ ~marked THEN "stopped" ELSE "absent"
  /\ installed' = IF marked THEN <<>> ELSE installed
  /\ marked' = FALSE
  /\ cli' = "idle"
  /\ UNCHANGED code

-----------------------------------------------------------------------------
(* The commands --service install and --service uninstall, one at a time.  *)
NoCommand == cli \notin {"start", "starting", "delete"}

Entry(dir, c) == <<ServiceArgs(dir, c), [Resolved(dir, c) EXCEPT !.Service = "run"]>>

Install(i) ==
  /\ NoCommand
  /\ Asks(i, "install")
  /\ IF status = "absent"
     THEN cli' = "start" /\ status' = "stopped" /\ installed' = Entry(Lines[i].dir, Parsed[i][1])
     ELSE cli' = "failed" /\ UNCHANGED <<status, installed>>
  /\ UNCHANGED <<procVars, signal, control, marked>>

InstallStarts ==
  /\ cli = "start"
  /\ \/ /\ status = "stopped" /\ ~marked
        /\ status' = "StartPending"
        /\ Launch("service", Stored(installed))
        /\ cli' = "starting"
     \/ /\ status # "stopped" \/ marked \/ "start" \in Faults
        /\ cli' = "failed"
        /\ UNCHANGED <<procVars, status>>
  /\ UNCHANGED <<control, marked, installed, signal>>

(* Start returns once the process has called svc.Run.                      *)
InstallReturns ==
  /\ cli = "starting"
  /\ main["service"] # "load"
  /\ cli' = IF main["service"] = "none" THEN "failed" ELSE "installed"
  /\ UNCHANGED <<procVars, signal, scmVars>>

(* The error of Control(Stop), which a service that has not yet reported   *)
(* "running" refuses, is ignored.                                          *)
Uninstall(i) ==
  /\ NoCommand
  /\ Asks(i, "uninstall")
  /\ \/ status = "absent" /\ cli' = "failed" /\ UNCHANGED control
     \/ status # "absent" /\ cli' = "delete" /\ Accepting /\ control' = "stop"
     \/ status \notin {"absent", "running"} /\ cli' = "delete" /\ UNCHANGED control
  /\ UNCHANGED <<procVars, signal, status, marked, installed>>

UninstallDeletes ==
  /\ cli = "delete"
  /\ cli' = IF status = "absent" \/ marked THEN "failed" ELSE "removed"
  /\ status' = IF status = "stopped" THEN "absent" ELSE status
  /\ installed' = IF status = "stopped" THEN <<>> ELSE installed
  /\ marked' = (status \notin {"absent", "stopped"})
  /\ UNCHANGED <<procVars, signal, control>>

-----------------------------------------------------------------------------
Process(p) == Load(p) \/ LoadFails(p) \/ Open(p) \/ CloseOnStop(p) \/ RunReturns(p)
Console == (\E i \in DOMAIN Lines : StartForeground(i))
             \/ Foreground \/ NoController \/ Interrupt \/ StopOnSignal \/ Exit
Handler == ReportRunning \/ HandleInterrogate \/ HandleStop \/ ReportStopPending \/ HandleDone
Scm == StartService \/ Request("stop") \/ Request("interrogate") \/ Shutdown
Command == (\E i \in DOMAIN Lines : Install(i) \/ Uninstall(i))
             \/ InstallStarts \/ InstallReturns \/ UninstallDeletes

Next == (\E p \in Procs : Process(p)) \/ Console \/ Handler \/ Scm \/ Command

(* The Go scheduler runs every goroutine; select takes each of its ready   *)
(* cases again and again; WinDivertRecv returns once its handle is closed. *)
Fairness ==
  /\ \A p \in Procs : /\ WF_vars(Load(p) \/ LoadFails(p))
                      /\ WF_vars(Open(p))
                      /\ WF_vars(CloseOnStop(p))
                      /\ WF_vars(handle[p] = "closed" /\ RunReturns(p))
  /\ WF_vars(Foreground \/ NoController) /\ WF_vars(StopOnSignal) /\ WF_vars(Exit)
  /\ WF_vars(ReportRunning) /\ WF_vars(ReportStopPending)
  /\ SF_vars(HandleStop) /\ SF_vars(HandleDone)

Spec == Init /\ [][Next]_vars
FairSpec == Spec /\ Fairness

-----------------------------------------------------------------------------
(* Properties.                                                             *)

(* A channel that is closed twice panics.                                  *)
ClosedOnce == \A p \in Procs : stopped[p] <= 1

(* "A closed handle after a stop request is the normal shutdown path": the *)
(* exit code of a foreground process whose handle was closed is 0.         *)
CleanExit ==
  [][Exit /\ handle["foreground"] = "closed" => code'["foreground"] = 0]_vars

(* A request to stop, by Ctrl+C or the SCM, ends the process, wherever the *)
(* opening of the driver stands at that time.                              *)
StopEnds == \A p \in Procs :
  (stopped[p] > 0 \/ (p = "foreground" /\ signal = "caught") \/ (p = "service" /\ control = "stop"))
    ~> main[p] = "none"

(* A process whose engine has ended does not linger.                       *)
DeadEngineNoticed == \A p \in Procs : run[p] = "returned" ~> main[p] = "none"

(* "the service runs with a different working directory": whatever the     *)
(* options and wherever the command was typed, each process of the service *)
(* has the configuration that was installed, its list files included.      *)
ServiceAsInstalled == main["service"] # "none" => conf["service"] = <<installed[2]>>

(* "Uninstall stops and removes the service": when it has returned without *)
(* an error, the process of the service is gone or has been told to stop.  *)
UninstallStops == cli = "removed" /\ marked /\ main["service"] # "none" =>
  control = "stop" \/ stopped["service"] > 0
=============================================================================
