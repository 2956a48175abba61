-------------------------------- MODULE Tray --------------------------------
(***************************************************************************)
(* The tray application, internal/tray/tray_windows.go, with the strategy  *)
(* selection of internal/autopick and the probe of internal/prober: one    *)
(* goroutine that serves the menu, and any number of reconfigure           *)
(* goroutines ("sweeps") that it starts and that share u.state, the        *)
(* settings file, the status line and the engine with it and one another,  *)
(* with no lock but the manager's.                                         *)
(*                                                                         *)
(* The manager is used as the one slot of EngineSlot, which module Manager *)
(* implements.  The process may die at any moment and be started again.    *)
(***************************************************************************)
EXTENDS Settings, Sequences

CONSTANTS
  Sweeps,    \* reconfigure goroutines; bounds how many run at once
  Tried,     \* how many Candidates are tried (all of them in the code)
  Working,   \* the positions of the Candidates the provider lets through
  Buttons,   \* the menu items that get clicked
  Failures   \* what may fail: "apply", "task", "query", "save", "read", "crash"

Targets == {"YouTube", "Discord"}

Candidates == << [Strategy |-> "fakedsplit", FakeTTL |-> 8],
                 [Strategy |-> "fake",       FakeTTL |-> 6],
                 [Strategy |-> "fake",       FakeTTL |-> 3],
                 [Strategy |-> "split",      FakeTTL |-> 0],
                 [Strategy |-> "disorder",   FakeTTL |-> 0] >>

Files == [len : Nat, st : States \cup {None}]

ASSUME ConstantsAssumption ==
  /\ "loop" \notin Sweeps /\ None \notin States \cup Files
  /\ Tried \in 1..Len(Candidates)
  /\ Working \subseteq 1..Tried
  /\ Buttons \subseteq Targets \cup {"autostart", "check", "quit"}
  /\ Failures \subseteq {"apply", "task", "query", "save", "read", "crash"}

VARIABLES
  disk,      \* config.json
  task,      \* does the logon task exist?
  state,     \* u.state
  checked,   \* the checkbox of mAutostart
  engine,    \* the configuration in the manager's slot
  status,    \* the status line, <<kind, strategy>>
  loop,      \* where the menu loop is; "down" when there is no process
  after,     \* what it does once the state is saved
  pc,        \* where each sweep is
  lists,     \* the targets whose lists it loaded
  cand,      \* the candidate it is at
  buf,       \* the copy of u.state that Save's receiver is, per goroutine
  lone,      \* history: the sweep started last has run by itself
  toggled,   \* history: since the launch, the autostart item has been toggled
  mixed,     \* history: since the launch, a click has come during a sweep
  denied,    \* history: the query of the last toggle of autostart failed
  parted     \* history: the last Load or Save of the settings failed

Goroutines == Sweeps \cup {"loop"}

uiVars == <<checked, loop, after>>
sweepVars == <<pc, lists, cand>>
clicks == <<lone, toggled, mixed, denied>>
history == <<clicks, parted>>
vars == <<disk, task, state, engine, status, uiVars, sweepVars, buf, history>>

LoopPC == {"down", "wait", "schtasks", "toggled", "open", "write", "spawn", "quit"}
SweepPC == {"none", "both", "both2", "youtube", "discord", "stop", "off", "announce", "apply",
            "probe", "fallback", "default", "failed", "strategy", "length", "pointer", "ttl",
            "copy", "open", "write", "picked"}
Statuses == {"starting", "off", "picking", "default", "failed"} \X {""}
              \cup {"picked"} \X Names
Engines == [lists : (SUBSET Targets) \ {{}}, Strategy : Names, FakeTTL : 0..255]

TypeOK ==
  /\ disk \in Files \cup {None}
  /\ task \in BOOLEAN
  /\ state \in States
  /\ checked \in BOOLEAN
  /\ engine \in Engines \cup {None}
  /\ status \in Statuses
  /\ loop \in LoopPC
  /\ after \in {"wait", "spawn"}
  /\ pc \in [Sweeps -> SweepPC]
  /\ lists \in [Sweeps -> SUBSET Targets]
  /\ cand \in [Sweeps -> 1..Tried]
  /\ buf \in [Goroutines -> States \cup {None}]
  /\ lone \in BOOLEAN
  /\ toggled \in BOOLEAN
  /\ mixed \in BOOLEAN
  /\ denied \in BOOLEAN
  /\ parted \in BOOLEAN

Init ==
  /\ disk = None
  /\ task = FALSE
  /\ state = Zero
  /\ checked = FALSE
  /\ engine = None
  /\ status = <<"off", "">>
  /\ loop = "down"
  /\ after = "wait"
  /\ pc = [g \in Sweeps |-> "none"]
  /\ lists = [g \in Sweeps |-> {}]
  /\ cand = [g \in Sweeps |-> 1]
  /\ buf = [g \in Goroutines |-> None]
  /\ lone = TRUE
  /\ toggled = FALSE
  /\ mixed = FALSE
  /\ denied = FALSE
  /\ parted = FALSE

-----------------------------------------------------------------------------
Idle == \A g \in Sweeps : pc[g] = "none"
Free == {g \in Sweeps : pc[g] = "none"}
Enabled == {t \in Targets : state[t]}
Candidate(g) == Candidates[cand[g]]
Config(ls, strategy, ttl) == [lists |-> ls, Strategy |-> strategy, FakeTTL |-> ttl]

(* The probe reaches the host if the engine in force, whoever applied it,  *)
(* desyncs the host in a way the provider lets through.                    *)
Host(ls) == IF "YouTube" \in ls THEN "YouTube" ELSE "Discord"
Reaches(host) ==
  /\ engine # None
  /\ host \in engine.lists
  /\ \E k \in Working : /\ Candidates[k].Strategy = engine.Strategy
                        /\ Candidates[k].FakeTTL = engine.FakeTTL

At(g, from, to) == pc[g] = from /\ pc' = [pc EXCEPT ![g] = to]
Loop(from, to) == loop = from /\ loop' = to

(* A sweep starts: go u.reconfigure().                                     *)
Begin(g) ==
  /\ pc[g] = "none"
  /\ pc' = [pc EXCEPT ![g] = "both"]
  /\ lone' = Idle

(* It is remembered when a click comes during a sweep.                     *)
Clicked ==
  /\ lone' = (lone /\ Idle)
  /\ mixed' = (mixed \/ ~Idle)
  /\ UNCHANGED <<toggled, denied, parted>>

(* IsAutostartEnabled: schtasks finds the task, or fails.                  *)
IsAutostartEnabled == {task} \cup (IF "query" \in Failures THEN {FALSE} ELSE {})

Reflect(real) ==
  /\ Loop("schtasks", "toggled")
  /\ state' = [state EXCEPT !.Autostart = real]
  /\ checked' = real
  /\ toggled' = TRUE
  /\ UNCHANGED <<disk, task, engine, status, after, sweepVars, buf, lone, mixed, parted>>

-----------------------------------------------------------------------------
(* Actions with a plausible bug, which the properties are shown to catch.  *)

(* The loop over the candidates runs one too far.                          *)
NextCandidateOver(g, from) ==
  /\ At(g, from, IF cand[g] <= Tried THEN "apply" ELSE "fallback")
  /\ cand' = [cand EXCEPT ![g] = @ + 1]

(* The candidates are tried again and again until one works.               *)
NextCandidateAgain(g, from) ==
  /\ At(g, from, "apply")
  /\ cand' = [cand EXCEPT ![g] = IF @ < Tried THEN @ + 1 ELSE 1]

(* The answer of schtasks is not asked for.                                *)
ReflectWanted == Reflect(~state.Autostart) /\ denied' = FALSE

(* The error of the probe is not looked at.                                *)
ProbeIgnored(g) ==
  /\ At(g, "probe", "strategy")
  /\ UNCHANGED <<disk, task, state, engine, status, uiVars, lists, cand, buf, history>>

(* The fallback leaves the last candidate running.                         *)
FallbackKeeps(g) ==
  /\ At(g, "fallback", "default")
  /\ UNCHANGED <<disk, task, state, engine, status, uiVars, lists, cand, buf, history>>

(* The picked strategy is not saved.                                       *)
SavePickedNot(g) ==
  /\ At(g, "copy", "picked")
  /\ UNCHANGED <<disk, task, state, engine, status, uiVars, lists, cand, buf, history>>

-----------------------------------------------------------------------------
(* Save, by the menu loop or a sweep g: the receiver is a copy of u.state. *)
(* The copy is taken in one step: what it could mix is what the sweeps'    *)
(* separate stores already let it see.                                     *)
Copy(g) == buf' = [buf EXCEPT ![g] = state] /\ UNCHANGED <<disk, parted>>
OpenFile(g) == disk' = Truncated /\ UNCHANGED <<buf, parted>>
WriteFile(g) ==
  /\ disk' = Overwritten(disk, buf[g])
  /\ buf' = [buf EXCEPT ![g] = None]
  /\ parted' = FALSE

(* The file cannot be opened, or not be written once it is open (and       *)
(* empty).  Save returns the error, and nobody looks at it.                *)
SaveFails(g) ==
  /\ "save" \in Failures
  /\ buf' = [buf EXCEPT ![g] = None]
  /\ parted' = TRUE
OpenFails(g) == SaveFails(g) /\ UNCHANGED disk
WriteFails(g) == SaveFails(g) /\ disk' \in Remains(disk, buf[g])

-----------------------------------------------------------------------------
(* The menu loop.                                                          *)

(* onReady: load the settings, then start the loop and the first sweep.  A *)
(* file that is there may not be readable.                                 *)
Start ==
  /\ Loop("down", "wait")
  /\ \/ state' = Load(disk) /\ parted' = FALSE
     \/ "read" \in Failures /\ disk # None /\ state' = Zero /\ parted' = TRUE
  /\ status' = <<"starting", "">>
  /\ \E g \in Sweeps : Begin(g)
  /\ checked' \in IsAutostartEnabled
  /\ toggled' = FALSE
  /\ mixed' = FALSE
  /\ denied' = FALSE
  /\ UNCHANGED <<disk, task, engine, after, lists, cand, buf>>

ToggleTarget(t) ==
  /\ Free # {}
  /\ Loop("wait", "toggled")
  /\ state' = [state EXCEPT ![t] = ~@]
  /\ after' = "spawn"
  /\ Clicked
  /\ UNCHANGED <<disk, task, checked, engine, status, sweepVars, buf>>

(* schtasks creates or deletes the task, or fails; its error is logged.    *)
ToggleAutostart ==
  /\ Loop("wait", "schtasks")
  /\ after' = "wait"
  /\ \/ task' = ~state.Autostart
     \/ "task" \in Failures /\ UNCHANGED task
  /\ Clicked
  /\ UNCHANGED <<disk, state, checked, engine, status, sweepVars, buf>>

QueryAutostart ==
  \/ Reflect(task) /\ denied' = FALSE
  \/ "query" \in Failures /\ Reflect(FALSE) /\ denied' = TRUE

SaveToggle ==
  /\ \/ Loop("toggled", "open") /\ Copy("loop")
     \/ Loop("open", "write") /\ OpenFile("loop")
     \/ Loop("open", after) /\ OpenFails("loop")
     \/ Loop("write", after) /\ (WriteFile("loop") \/ WriteFails("loop"))
  /\ UNCHANGED <<task, state, checked, engine, status, after, sweepVars, clicks>>

CheckNow ==
  /\ Free # {}
  /\ Loop("wait", "spawn")
  /\ Clicked
  /\ UNCHANGED <<disk, task, state, checked, engine, status, after, sweepVars, buf>>

Spawn ==
  /\ Loop("spawn", "wait")
  /\ \E g \in Sweeps : Begin(g)
  /\ after' = "wait"
  /\ UNCHANGED <<disk, task, state, checked, engine, status, lists, cand, buf, toggled, mixed, denied, parted>>

(* mgr.Stop(); systray.Quit() then ends the process, at some later time.   *)
Quit ==
  /\ Loop("wait", "quit")
  /\ engine' = None
  /\ Clicked
  /\ UNCHANGED <<disk, task, state, checked, status, after, sweepVars, buf>>

(* The process ends, and every goroutine with it, wherever it is.          *)
Die ==
  /\ loop' = "down"
  /\ state' = Zero
  /\ checked' = FALSE
  /\ engine' = None
  /\ status' = <<"off", "">>
  /\ after' = "wait"
  /\ pc' = [g \in Sweeps |-> "none"]
  /\ lists' = [g \in Sweeps |-> {}]
  /\ cand' = [g \in Sweeps |-> 1]
  /\ buf' = [g \in Goroutines |-> None]
  /\ lone' = TRUE
  /\ toggled' = FALSE
  /\ mixed' = FALSE
  /\ denied' = FALSE
  /\ parted' = FALSE
  /\ UNCHANGED <<disk, task>>

Exit == loop = "quit" /\ Die
Crash == "crash" \in Failures /\ loop # "down" /\ Die

-----------------------------------------------------------------------------
(* A sweep.                                                                *)

(* enabledLists: the cases of its switch, each of which reads u.state      *)
(* again; "both" stands for the first operand of the &&.                   *)
Cases ==
  [both    |-> [field |-> "YouTube", then |-> "both2",    else |-> "youtube", lists |-> {}],
   both2   |-> [field |-> "Discord", then |-> "announce", else |-> "youtube", lists |-> Targets],
   youtube |-> [field |-> "YouTube", then |-> "announce", else |-> "discord", lists |-> {"YouTube"}],
   discord |-> [field |-> "Discord", then |-> "announce", else |-> "stop",    lists |-> {"Discord"}]]

EnabledLists(g) ==
  /\ pc[g] \in DOMAIN Cases
  /\ LET case == Cases[pc[g]] IN
       /\ pc' = [pc EXCEPT ![g] = IF state[case.field] THEN case.then ELSE case.else]
       /\ lists' = [lists EXCEPT ![g] = IF state[case.field] THEN case.lists ELSE {}]
  /\ UNCHANGED <<disk, task, state, engine, status, uiVars, cand, buf, history>>

StopEngine(g) ==
  /\ At(g, "stop", "off")
  /\ engine' = None
  /\ UNCHANGED <<disk, task, state, status, uiVars, lists, cand, buf, history>>

Announce(g) ==
  /\ At(g, "announce", "apply")
  /\ status' = <<"picking", "">>
  /\ UNCHANGED <<disk, task, state, engine, uiVars, lists, cand, buf, history>>

(* The 60 seconds are over before a candidate is tried.                    *)
TimeOut(g) ==
  /\ At(g, "apply", "fallback")
  /\ UNCHANGED <<disk, task, state, engine, status, uiVars, lists, cand, buf, history>>

Apply(g) ==
  /\ At(g, "apply", "probe")
  /\ engine' = Config(lists[g], Candidate(g).Strategy, Candidate(g).FakeTTL)
  /\ UNCHANGED <<disk, task, state, status, uiVars, lists, cand, buf, history>>

NextCandidate(g, from) ==
  /\ At(g, from, IF cand[g] < Tried THEN "apply" ELSE "fallback")
  /\ cand' = [cand EXCEPT ![g] = IF @ < Tried THEN @ + 1 ELSE 1]

ApplyFails(g) ==
  /\ "apply" \in Failures
  /\ NextCandidate(g, "apply")
  /\ engine' = None
  /\ UNCHANGED <<disk, task, state, status, uiVars, lists, buf, history>>

ProbeOK(g) ==
  /\ Reaches(Host(lists[g]))
  /\ At(g, "probe", "strategy")
  /\ UNCHANGED <<disk, task, state, engine, status, uiVars, lists, cand, buf, history>>

(* A probe may fail whatever is in force: its own 5 seconds, the network.  *)
ProbeFails(g) ==
  /\ NextCandidate(g, "probe")
  /\ UNCHANGED <<disk, task, state, engine, status, uiVars, lists, buf, history>>

(* Nothing probed clean: Apply the saved strategy.                         *)
Fallback(g) ==
  LET strategy == Text(state.Strategy) IN
  /\ \/ /\ strategy \in Names
        /\ At(g, "fallback", "default")
        /\ engine' = Config(lists[g], strategy, state.FakeTTL)
     \/ /\ strategy \notin Names \/ "apply" \in Failures
        /\ At(g, "fallback", "failed")
        /\ engine' = None
  /\ UNCHANGED <<disk, task, state, status, uiVars, lists, cand, buf, history>>

(* u.state.Strategy = picked.Strategy: two words, in an order that is the  *)
(* compiler's.                                                             *)
StoreLength(g) ==
  /\ At(g, "strategy", "pointer") \/ At(g, "length", "ttl")
  /\ state' = [state EXCEPT !.Strategy.len = NameLen[Candidate(g).Strategy]]
  /\ UNCHANGED <<disk, task, engine, status, uiVars, lists, cand, buf, history>>

StorePointer(g) ==
  /\ At(g, "strategy", "length") \/ At(g, "pointer", "ttl")
  /\ state' = [state EXCEPT !.Strategy.ptr = Candidate(g).Strategy]
  /\ UNCHANGED <<disk, task, engine, status, uiVars, lists, cand, buf, history>>

StoreTTL(g) ==
  /\ At(g, "ttl", "copy")
  /\ state' = [state EXCEPT !.FakeTTL = Candidate(g).FakeTTL]
  /\ UNCHANGED <<disk, task, engine, status, uiVars, lists, cand, buf, history>>

SavePicked(g) ==
  /\ \/ At(g, "copy", "open") /\ Copy(g)
     \/ At(g, "open", "write") /\ OpenFile(g)
     \/ At(g, "open", "picked") /\ OpenFails(g)
     \/ At(g, "write", "picked") /\ (WriteFile(g) \/ WriteFails(g))
  /\ UNCHANGED <<task, state, engine, status, uiVars, lists, cand, clicks>>

(* The last setStatus, and the end of the goroutine.                       *)
Finish(g) ==
  /\ pc[g] \in {"off", "default", "failed", "picked"}
  /\ status' = <<pc[g], IF pc[g] = "picked" THEN Candidate(g).Strategy ELSE "">>
  /\ pc' = [pc EXCEPT ![g] = "none"]
  /\ lists' = [lists EXCEPT ![g] = {}]
  /\ cand' = [cand EXCEPT ![g] = 1]
  /\ UNCHANGED <<disk, task, state, engine, uiVars, buf, history>>

-----------------------------------------------------------------------------
Click ==
  \/ \E t \in Targets \cap Buttons : ToggleTarget(t)
  \/ "autostart" \in Buttons /\ ToggleAutostart
  \/ "check" \in Buttons /\ CheckNow
  \/ "quit" \in Buttons /\ Quit

LoopStep == QueryAutostart \/ SaveToggle \/ Spawn \/ Exit

SweepStep(g) ==
  \/ EnabledLists(g) \/ StopEngine(g) \/ Announce(g)
  \/ TimeOut(g) \/ Apply(g) \/ ApplyFails(g) \/ ProbeOK(g) \/ ProbeFails(g) \/ Fallback(g)
  \/ StoreLength(g) \/ StorePointer(g) \/ StoreTTL(g) \/ SavePicked(g) \/ Finish(g)

Next ==
  \/ Start \/ Click \/ LoopStep \/ Crash
  \/ \E g \in Sweeps : SweepStep(g)

(* The Go scheduler runs every goroutine, and every step of a sweep ends:  *)
(* a probe has 5 seconds.  Clicks, launches and crashes are nobody's duty. *)
Fairness == WF_vars(LoopStep) /\ \A g \in Sweeps : WF_vars(SweepStep(g))

Spec == Init /\ [][Next]_vars
FairSpec == Spec /\ Fairness

-----------------------------------------------------------------------------
(* Properties.                                                             *)

Quiescent == loop = "wait" /\ Idle

(* A sweep that ran by itself leaves engine, targets, strategy and status  *)
(* line in agreement, whatever overlapping sweeps have done before it:     *)
(* "Check now" repairs.                                                    *)
InForce == Quiescent /\ lone =>
  CASE Enabled = {}       -> engine = None /\ status[1] = "off"
    [] status[1] = "failed" -> engine = None
    [] OTHER -> /\ engine = Config(Enabled, Text(state.Strategy), state.FakeTTL)
                /\ status \in {<<"default", "">>, <<"picked", engine.Strategy>>}

(* "keeps the first that works" (autopick): the sweep that ran by itself   *)
(* stores a strategy the provider lets through, and it is the one running. *)
PickedWorks == \A g \in Sweeps : lone /\ pc[g] = "strategy" =>
  /\ cand[g] \in Working
  /\ engine = Config(lists[g], Candidate(g).Strategy, Candidate(g).FakeTTL)

(* "so the tray app remembers the user's choices between launches": with   *)
(* no click during a sweep, what the next launch would load is u.state,    *)
(* unless the last Load or Save failed.  So every Save that succeeds       *)
(* repairs what failed ones have spoilt, and what a crash has left.        *)
Remembered == Quiescent /\ ~mixed /\ ~parted => Load(disk) = Normal(state)

(* "reflects the resulting real state in the checkbox": once the item has  *)
(* been toggled, whether schtasks failed then, and whatever a crash had    *)
(* left behind before, the checkbox is u.state's and says whether there is *)
(* a logon task, unless the query for it failed, when it says no; and the  *)
(* saved settings say the same, with the provisos of Remembered.           *)
AutostartAgrees == Quiescent /\ toggled =>
  /\ state.Autostart = checked
  /\ checked <=> task /\ ~denied
  /\ ~mixed /\ ~parted => Load(disk).Autostart = checked

(* Every sweep comes to an end, and so does "picking".                     *)
SweepsEnd == \A g \in Sweeps : pc[g] # "none" ~> pc[g] = "none"

(* A launch never comes up with State{}: both targets off, no strategy.    *)
ChoicesSurvive == loop # "down" => state # Zero
=============================================================================
