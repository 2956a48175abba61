----------------------------- MODULE TrayProofs -----------------------------
(***************************************************************************)
(* Proofs about module Tray, for any number of sweeps at once, whatever is *)
(* clicked and whatever fails: a sweep that ran by itself has picked a     *)
(* strategy that works, and leaves engine, targets, strategy and status    *)
(* line in agreement; without clicks during a sweep the file remembers     *)
(* u.state, unless its last Load or Save failed; the autostart item says   *)
(* whether there is a logon task, unless schtasks did not answer.          *)
(***************************************************************************)
EXTENDS Tray, TLAPS

Storing == {"strategy", "length", "pointer", "ttl", "copy", "open", "write", "picked"}
Listed == {"announce", "apply", "probe", "fallback", "default", "failed"} \cup Storing

(* A sweep that is past enabledLists has lists; who is about to write has  *)
(* a copy of the state and a file to write it to.                          *)
Place(g) ==
  /\ pc[g] \in Listed => lists[g] # {}
  /\ pc[g] \in {"open", "write"} => buf[g] \in States
  /\ pc[g] = "write" => disk \in Files
PlaceInv ==
  /\ \A g \in Sweeps : Place(g)
  /\ loop \in {"open", "write"} => buf["loop"] \in States
  /\ loop = "write" => disk \in Files

(* While a sweep runs by itself no click comes, and nothing else does.     *)
Sole(g) == lone /\ pc[g] # "none" =>
  /\ loop = "wait"
  /\ \A h \in Sweeps \ {g} : pc[h] = "none"
SoleInv == \A g \in Sweeps : Sole(g)

(* The configuration of the candidate that g is at.                        *)
Applied(g) == Config(lists[g], Candidate(g).Strategy, Candidate(g).FakeTTL)

(* What a sweep that runs by itself has read, applied and stored so far.   *)
Reading(g) ==
  /\ pc[g] = "both2" => state["YouTube"]
  /\ pc[g] = "youtube" => ~(state["YouTube"] /\ state["Discord"])
  /\ pc[g] = "discord" => ~state["YouTube"]
  /\ pc[g] \in {"stop", "off"} => Enabled = {}
  /\ pc[g] \in Listed => lists[g] = Enabled
InEngine(g) ==
  /\ pc[g] \in {"off", "failed"} => engine = None
  /\ pc[g] = "default" => engine = Config(lists[g], Text(state.Strategy), state.FakeTTL)
  /\ pc[g] \in {"probe"} \cup Storing => engine = Applied(g)
  /\ pc[g] \in Storing => cand[g] \in Working
InState(g) ==
  /\ pc[g] \in {"pointer", "ttl", "copy", "open", "write", "picked"}
       => state.Strategy.len = NameLen[Candidate(g).Strategy]
  /\ pc[g] \in {"length", "ttl", "copy", "open", "write", "picked"}
       => state.Strategy.ptr = Candidate(g).Strategy
  /\ pc[g] \in {"copy", "open", "write", "picked"} => state.FakeTTL = Candidate(g).FakeTTL
Phase(g) == lone /\ pc[g] # "none" => Reading(g) /\ InEngine(g) /\ InState(g)
PhaseInv == \A g \in Sweeps : Phase(g)

(* Between sweeps the last one's work stands until a target is toggled or  *)
(* the next sweep is asked for; toggling autostart does not disturb it.    *)
Settled == Idle /\ lone /\ \/ loop = "wait"
                           \/ loop \in {"schtasks", "toggled", "open", "write"} /\ after = "wait"
Agree ==
  CASE Enabled = {}       -> engine = None /\ status[1] = "off"
    [] status[1] = "failed" -> engine = None
    [] OTHER -> /\ engine = Config(Enabled, Text(state.Strategy), state.FakeTTL)
                /\ status \in {<<"default", "">>, <<"picked", engine.Strategy>>}
SettledInv == Settled => Agree

(* While no click has come during a sweep there is one writer at a time:   *)
(* the file is u.state, but between a store and the end of its Save, and   *)
(* from a Load or Save that fails until a Save that succeeds.              *)
Unsaved == {"length", "pointer", "ttl", "copy", "open", "write"}
Orderly(g) == pc[g] # "none" =>
  /\ loop # "down"
  /\ ~mixed => loop = "wait" /\ \A h \in Sweeps \ {g} : pc[h] = "none"
Current == Load(disk) = Normal(state)
Writing(g, at) ==
  /\ at \in {"open", "write"} => buf[g] = state
  /\ at = "write" => disk = Truncated
Memory ==
  /\ ~parted /\ loop \in {"wait", "schtasks", "spawn", "quit"} /\ (\A g \in Sweeps : pc[g] \notin Unsaved)
       => Current
  /\ Writing("loop", loop)
  /\ \A g \in Sweeps : Writing(g, pc[g])
OrderlyInv == \A g \in Sweeps : Orderly(g)
MemoryInv == ~mixed => Memory

(* Once toggled, the checkbox is u.state's, and what schtasks has answered *)
(* but while it is at work.                                                *)
AutostartInv == toggled =>
  /\ state.Autostart = checked
  /\ loop # "schtasks" => (checked <=> task /\ ~denied)

Inv == /\ TypeOK /\ PlaceInv /\ SoleInv /\ PhaseInv /\ SettledInv
       /\ OrderlyInv /\ MemoryInv /\ AutostartInv

-----------------------------------------------------------------------------
LEMMA FirstCandidate == 1 \in 1..Tried
<1>1. Tried \in 1..5
  BY ConstantsAssumption DEF Candidates
<1> QED BY <1>1

(* A candidate is a configuration, and its position tells it.              *)
LEMMA CandidateKinds == ASSUME NEW i \in 1..Tried
                        PROVE  Candidates[i].Strategy \in Names /\ Candidates[i].FakeTTL \in 0..255
<1>1. i \in 1..5
  BY ConstantsAssumption DEF Candidates
<1> QED BY <1>1 DEF Candidates, Names, NameLen

LEMMA CandidatesDiffer == ASSUME NEW i \in 1..Tried, NEW j \in 1..Tried,
                                 Candidates[i].Strategy = Candidates[j].Strategy,
                                 Candidates[i].FakeTTL = Candidates[j].FakeTTL
                          PROVE  i = j
<1>1. i \in 1..5 /\ j \in 1..5
  BY ConstantsAssumption DEF Candidates
<1> QED BY <1>1 DEF Candidates

LEMMA ConfigKinds == ASSUME NEW ls \in SUBSET Targets, ls # {}, NEW strategy \in Names,
                            NEW ttl \in 0..255
                     PROVE  Config(ls, strategy, ttl) \in Engines
<1>1. ls \in (SUBSET Targets) \ {{}}
  OBVIOUS
<1> QED BY <1>1 DEF Config, Engines

(* Strings in memory keep their kind, and what they denote is a string.    *)
LEMMA Texts == ASSUME NEW str \in Strings PROVE Text(str) \in Names \cup {"garbled", ""}
BY DEF Strings, Text, Names, NameLen

LEMMA NormalState == ASSUME NEW st \in States PROVE Normal(st) \in States
<1>1. st.Strategy \in Strings
  BY DEF States
<1>2. [ptr |-> Text(st.Strategy), len |-> st.Strategy.len] \in Strings
  BY <1>1, Texts DEF Strings
<1> QED BY <1>2 DEF Normal, States

LEMMA FixedStates == Default \in States /\ Zero \in States
BY DEF Default, Zero, States, Strings, String, Names, NameLen

LEMMA LoadState == ASSUME NEW file \in Files \cup {None} PROVE Load(file) \in States
<1>1. Default \in States /\ Zero \in States
  BY FixedStates
<1>2. file # None /\ file.st # None => file.st \in States
  BY DEF Files
<1> QED BY <1>1, <1>2, NormalState DEF Load

LEMMA LengthKind == ASSUME NEW st \in States PROVE Length(st) \in Nat
<1>1. \A name \in Names : NameLen[name] \in Nat
  BY DEF Names, NameLen
<1>2. st.Strategy.len \in Nat
  <2>1. st.Strategy \in Strings
    BY DEF States
  <2>2. st.Strategy.len \in {0} \cup {NameLen[n] : n \in Names}
    BY <2>1 DEF Strings
  <2> QED BY <1>1, <2>2
<1>3. \A b : Bool(b) \in Nat /\ Digits(st.FakeTTL) \in Nat
  BY DEF Bool, Digits
<1> QED BY <1>2, <1>3 DEF Length

LEMMA FileKinds == /\ Truncated \in Files
                   /\ \A file \in Files, st \in States : Overwritten(file, st) \in Files
<1>1. Truncated \in Files
  BY DEF Truncated, Files
<1>2. ASSUME NEW st \in States PROVE Length(st) \in Nat
  BY LengthKind
<1>3. ASSUME NEW file \in Files, NEW st \in States PROVE Overwritten(file, st) \in Files
  BY <1>2, <1>3 DEF Overwritten, Files
<1> QED BY <1>1, <1>3

(* What a Save that fails leaves is a file.                                *)
LEMMA RemainKinds == \A file \in Files, st \in States : Remains(file, st) \subseteq Files
<1>1. ASSUME NEW st \in States PROVE Length(st) - 1 \in Nat
  <2>1. st.Strategy.len \in Nat
    <3>1. \A name \in Names : NameLen[name] \in Nat
      BY DEF Names, NameLen
    <3>2. st.Strategy.len \in {0} \cup {NameLen[n] : n \in Names}
      BY DEF States, Strings
    <3> QED BY <3>1, <3>2
  <2>2. \A b : Bool(b) \in Nat /\ Digits(st.FakeTTL) \in Nat
    BY DEF Bool, Digits
  <2> QED BY <2>1, <2>2 DEF Length
<1> QED BY <1>1 DEF Remains, Files

(* The menu and the sweeps store into the fields of u.state.               *)
LEMMA FieldStores ==
  ASSUME NEW st \in States
  PROVE  /\ \A b \in BOOLEAN, t \in Targets : [st EXCEPT ![t] = b] \in States
         /\ \A b \in BOOLEAN : [st EXCEPT !.Autostart = b] \in States
         /\ \A name \in Names : /\ [st EXCEPT !.Strategy.len = NameLen[name]] \in States
                               /\ [st EXCEPT !.Strategy.ptr = name] \in States
         /\ \A ttl \in 0..255 : [st EXCEPT !.FakeTTL = ttl] \in States
         /\ \A t \in Targets : st[t] \in BOOLEAN
<1>1. \A name \in Names : NameLen[name] \in Nat /\ NameLen[name] \in {NameLen[n] : n \in Names}
  BY DEF Names, NameLen
<1>2. ASSUME NEW name \in Names
      PROVE  /\ [st EXCEPT !.Strategy.len = NameLen[name]] \in States
             /\ [st EXCEPT !.Strategy.ptr = name] \in States
  BY <1>1 DEF States, Strings
<1>3. ASSUME NEW b \in BOOLEAN, NEW t \in Targets
      PROVE  [st EXCEPT ![t] = b] \in States /\ st[t] \in BOOLEAN
  BY DEF States, Targets
<1>4. ASSUME NEW b \in BOOLEAN PROVE [st EXCEPT !.Autostart = b] \in States
  BY DEF States
<1>5. ASSUME NEW ttl \in 0..255 PROVE [st EXCEPT !.FakeTTL = ttl] \in States
  BY DEF States
<1> QED BY <1>2, <1>3, <1>4, <1>5

-----------------------------------------------------------------------------
LEMMA InvInit == Init => Inv
<1> SUFFICES ASSUME Init PROVE Inv
  OBVIOUS
<1> USE DEF Init
<1>1. 1 \in 1..Tried
  BY FirstCandidate
<1>2. TypeOK
  BY <1>1, FixedStates DEF TypeOK, Statuses, LoopPC, SweepPC
<1>3. PlaceInv /\ SoleInv /\ PhaseInv
  BY DEF PlaceInv, Place, SoleInv, Sole, PhaseInv, Phase, Listed, Storing
<1>4. SettledInv /\ OrderlyInv /\ AutostartInv
  BY DEF SettledInv, Settled, OrderlyInv, Orderly, AutostartInv
<1>5. MemoryInv
  BY DEF MemoryInv, Memory, Writing
<1> QED BY <1>2, <1>3, <1>4, <1>5 DEF Inv

(* Each action of the menu loop, and a launch or an end, keeps the types.  *)
LEMMA LoopTypes == ASSUME TypeOK, PlaceInv, Start \/ Click \/ LoopStep \/ Crash PROVE TypeOK'
<1> USE DEF TypeOK, Loop, sweepVars, uiVars, history, clicks, Clicked
<1>1. CASE Start
  <2>1. Load(disk) \in States
    BY LoadState
  <2>2. <<"starting", "">> \in Statuses
    BY DEF Statuses
  <2>3. IsAutostartEnabled \subseteq BOOLEAN /\ Zero \in States
    BY FixedStates DEF IsAutostartEnabled
  <2> QED BY <1>1, <2>1, <2>2, <2>3 DEF Start, Begin, Idle, LoopPC, SweepPC
<1>2. ASSUME NEW t \in Targets, ToggleTarget(t) PROVE TypeOK'
  <2>1. [state EXCEPT ![t] = ~@] \in States
    BY FieldStores
  <2> QED BY <1>2, <2>1 DEF ToggleTarget, LoopPC, Idle
<1>3. CASE ToggleAutostart
  <2>1. state.Autostart \in BOOLEAN
    BY DEF States
  <2> QED BY <1>3, <2>1 DEF ToggleAutostart, LoopPC, Idle
<1>4. CASE QueryAutostart
  <2>1. PICK real \in BOOLEAN : Reflect(real) /\ denied' \in BOOLEAN
    BY <1>4 DEF QueryAutostart
  <2>2. [state EXCEPT !.Autostart = real] \in States
    BY FieldStores
  <2> QED BY <2>1, <2>2 DEF Reflect, LoopPC
<1>5. CASE SaveToggle
  <2>1. CASE Loop("toggled", "open") /\ Copy("loop")
    BY <1>5, <2>1, ZenonT(60) DEF SaveToggle, Copy, LoopPC
  <2>2. CASE Loop("open", "write") /\ OpenFile("loop")
    BY <1>5, <2>2, FileKinds DEF SaveToggle, OpenFile, LoopPC
  <2>3. CASE Loop("write", after) /\ WriteFile("loop")
    <3>1. Overwritten(disk, buf["loop"]) \in Files
      BY <2>3, FileKinds DEF PlaceInv
    <3> QED BY <1>5, <2>3, <3>1 DEF SaveToggle, WriteFile, LoopPC
  <2>4. CASE Loop("open", after) /\ OpenFails("loop")
    BY <1>5, <2>4 DEF SaveToggle, OpenFails, SaveFails, LoopPC
  <2>5. CASE Loop("write", after) /\ WriteFails("loop")
    <3>1. Remains(disk, buf["loop"]) \subseteq Files
      BY <2>5, RemainKinds DEF PlaceInv
    <3> QED BY <1>5, <2>5, <3>1 DEF SaveToggle, WriteFails, SaveFails, LoopPC
  <2> QED BY <1>5, <2>1, <2>2, <2>3, <2>4, <2>5 DEF SaveToggle
<1>6. CASE CheckNow \/ Spawn
  BY <1>6 DEF CheckNow, Spawn, Begin, Idle, LoopPC, SweepPC
<1>7. CASE Quit
  BY <1>7 DEF Quit, Idle, LoopPC
<1>8. CASE Die
  <2>1. Zero \in States
    BY FixedStates
  <2>2. <<"off", "">> \in Statuses
    BY DEF Statuses
  <2>3. 1 \in 1..Tried
    BY FirstCandidate
  <2> QED BY <1>8, <2>1, <2>2, <2>3 DEF Die, LoopPC, SweepPC
<1> QED BY <1>1, <1>2, <1>3, <1>4, <1>5, <1>6, <1>7, <1>8 DEF Click, LoopStep, Crash, Exit

(* A case of enabledLists leads to the next one or out of the switch.      *)
LEMMA Switches == ASSUME TypeOK, NEW g \in Sweeps, EnabledLists(g)
                  PROVE  /\ pc' = [pc EXCEPT ![g] = pc'[g]]
                         /\ lists' = [lists EXCEPT ![g] = lists'[g]]
                         /\ pc'[g] \in {"both2", "youtube", "discord", "stop", "announce"}
                         /\ lists'[g] \in SUBSET Targets
                         /\ pc'[g] = "announce" => lists'[g] # {}
<1> USE DEF TypeOK, EnabledLists, Cases, Targets
<1>1. CASE pc[g] = "both"
  BY <1>1
<1>2. CASE pc[g] = "both2"
  BY <1>2
<1>3. CASE pc[g] = "youtube"
  BY <1>3
<1>4. CASE pc[g] = "discord"
  BY <1>4, SMTT(30)
<1> QED BY <1>1, <1>2, <1>3, <1>4

(* Each action of a sweep keeps the types.                                 *)
LEMMA SweepTypes == ASSUME TypeOK, PlaceInv, NEW g \in Sweeps, SweepStep(g) PROVE TypeOK'
<1> USE DEF TypeOK, At, uiVars, sweepVars, history, clicks
<1>1. /\ Candidate(g).Strategy \in Names /\ Candidate(g).FakeTTL \in 0..255
      /\ lists[g] \in SUBSET Targets /\ Place(g)
  BY CandidateKinds DEF Candidate, PlaceInv
<1>2. CASE EnabledLists(g)
  <2>1. pc' \in [Sweeps -> SweepPC] /\ lists' \in [Sweeps -> SUBSET Targets]
    BY <1>2, Switches DEF SweepPC
  <2> QED BY <1>2, <2>1 DEF EnabledLists
<1>3. CASE StopEngine(g) \/ TimeOut(g) \/ ProbeOK(g)
  BY <1>3 DEF StopEngine, TimeOut, ProbeOK, SweepPC
<1>4. CASE Announce(g)
  BY <1>4, ZenonT(60) DEF Announce, SweepPC, Statuses
<1>5. CASE Apply(g)
  <2>1. Config(lists[g], Candidate(g).Strategy, Candidate(g).FakeTTL) \in Engines
    <3>1. lists[g] # {}
      BY <1>1, <1>5 DEF Apply, Place, Listed
    <3> QED BY <1>1, <3>1, ConfigKinds
  <2> QED BY <1>5, <2>1 DEF Apply, SweepPC
<1>6. CASE ApplyFails(g) \/ ProbeFails(g)
  <2>1. Tried \in Nat /\ 1 \in 1..Tried
    BY ConstantsAssumption DEF Candidates
  <2>2. PICK from \in {"apply", "probe"} : NextCandidate(g, from)
    BY <1>6 DEF ApplyFails, ProbeFails
  <2>3. pc' \in [Sweeps -> SweepPC] /\ cand' \in [Sweeps -> 1..Tried]
    BY <2>1, <2>2 DEF NextCandidate, SweepPC
  <2>4. engine' \in Engines \cup {None}
        /\ UNCHANGED <<disk, task, state, status, uiVars, lists, buf, history>>
    BY <1>6 DEF ApplyFails, ProbeFails
  <2> QED BY <2>3, <2>4
<1>7. CASE Fallback(g)
  <2>1. Text(state.Strategy) \in Names /\ pc[g] = "fallback"
          => Config(lists[g], Text(state.Strategy), state.FakeTTL) \in Engines
    <3>1. pc[g] = "fallback" => lists[g] # {}
      BY <1>1 DEF Place, Listed
    <3>2. state.FakeTTL \in 0..255
      BY DEF States
    <3> QED BY <1>1, <3>1, <3>2, ConfigKinds
  <2> QED BY <1>7, <2>1 DEF Fallback, SweepPC
<1>8. CASE StoreLength(g) \/ StorePointer(g) \/ StoreTTL(g)
  <2>1. state' \in States
    <3>1. CASE StoreLength(g)
      BY <1>1, <3>1, FieldStores DEF StoreLength
    <3>2. CASE StorePointer(g)
      BY <1>1, <3>2, FieldStores DEF StorePointer
    <3>3. CASE StoreTTL(g)
      BY <1>1, <3>3, FieldStores DEF StoreTTL
    <3> QED BY <1>8, <3>1, <3>2, <3>3
  <2> QED BY <1>8, <2>1 DEF StoreLength, StorePointer, StoreTTL, SweepPC
<1>9. CASE SavePicked(g)
  <2>1. CASE At(g, "copy", "open") /\ Copy(g)
    BY <1>9, <2>1 DEF SavePicked, Copy, Goroutines, SweepPC
  <2>2. CASE At(g, "open", "write") /\ OpenFile(g)
    BY <1>9, <2>2, FileKinds DEF SavePicked, OpenFile, SweepPC
  <2>3. CASE At(g, "write", "picked") /\ WriteFile(g)
    <3>1. Overwritten(disk, buf[g]) \in Files
      BY <1>1, <2>3, FileKinds DEF Place
    <3> QED BY <1>9, <2>3, <3>1 DEF SavePicked, WriteFile, Goroutines, SweepPC
  <2>4. CASE At(g, "open", "picked") /\ OpenFails(g)
    BY <1>9, <2>4 DEF SavePicked, OpenFails, SaveFails, Goroutines, SweepPC
  <2>5. CASE At(g, "write", "picked") /\ WriteFails(g)
    <3>1. Remains(disk, buf[g]) \subseteq Files
      BY <1>1, <2>5, RemainKinds DEF Place
    <3> QED BY <1>9, <2>5, <3>1 DEF SavePicked, WriteFails, SaveFails, Goroutines, SweepPC
  <2> QED BY <1>9, <2>1, <2>2, <2>3, <2>4, <2>5 DEF SavePicked
<1>10. CASE Finish(g)
  <2>1. <<pc[g], IF pc[g] = "picked" THEN Candidate(g).Strategy ELSE "">> \in Statuses
    BY <1>1, <1>10 DEF Finish, Statuses
  <2>2. 1 \in 1..Tried
    BY FirstCandidate
  <2> QED BY ZenonT(40), <1>10, <2>1, <2>2 DEF Finish, SweepPC
<1> QED BY <1>2, <1>3, <1>4, <1>5, <1>6, <1>7, <1>8, <1>9, <1>10 DEF SweepStep

LEMMA TypeStep == TypeOK /\ PlaceInv /\ [Next]_vars => TypeOK'
<1>1. ASSUME TypeOK, UNCHANGED vars PROVE TypeOK'
  BY <1>1 DEF TypeOK, vars, uiVars, sweepVars, history, clicks
<1> QED BY <1>1, LoopTypes, SweepTypes DEF Next

-----------------------------------------------------------------------------
(* Who gets to a place has what it takes.                                  *)
LEMMA LoopPlaces == ASSUME TypeOK, PlaceInv, Start \/ Click \/ LoopStep \/ Crash PROVE PlaceInv'
<1>1. "loop" \in Goroutines /\ "loop" \notin Sweeps
  BY ConstantsAssumption DEF Goroutines
<1> USE DEF PlaceInv, Place, Loop, sweepVars, uiVars, history, clicks, Clicked
<1>2. CASE Start
  BY <1>2 DEF Start, Begin, Listed, Storing, TypeOK
<1>3. CASE Click
  BY <1>3 DEF Click, ToggleTarget, ToggleAutostart, CheckNow, Quit
<1>4. CASE QueryAutostart
  BY <1>4 DEF QueryAutostart, Reflect
<1>5. CASE SaveToggle
  <2>1. CASE Loop("toggled", "open") /\ Copy("loop")
    BY <1>1, <1>5, <2>1 DEF SaveToggle, Copy, Goroutines, TypeOK
  <2>2. CASE Loop("open", "write") /\ OpenFile("loop")
    BY <1>5, <2>2, FileKinds DEF SaveToggle, OpenFile
  <2>3. CASE Loop("write", after) /\ WriteFile("loop")
    <3>1. Overwritten(disk, buf["loop"]) \in Files
      BY <2>3, FileKinds
    <3>2. \A g \in Sweeps : buf'[g] = buf[g]
      BY <1>1, <2>3 DEF WriteFile, Goroutines, TypeOK
    <3> QED BY <1>5, <2>3, <3>1, <3>2 DEF SaveToggle, WriteFile, TypeOK
  <2>4. CASE Loop("open", after) /\ OpenFails("loop")
    BY <1>1, <1>5, <2>4 DEF SaveToggle, OpenFails, SaveFails, Goroutines, TypeOK
  <2>5. CASE Loop("write", after) /\ WriteFails("loop")
    <3>1. disk' \in Files
      BY <2>5, RemainKinds DEF WriteFails
    <3>2. \A g \in Sweeps : buf'[g] = buf[g]
      BY <1>1, <2>5 DEF WriteFails, SaveFails, Goroutines, TypeOK
    <3> QED BY <1>5, <2>5, <3>1, <3>2 DEF SaveToggle, TypeOK
  <2> QED BY <1>5, <2>1, <2>2, <2>3, <2>4, <2>5 DEF SaveToggle
<1>6. CASE Spawn
  BY <1>6 DEF Spawn, Begin, Listed, Storing, TypeOK
<1>7. CASE Die
  BY <1>7 DEF Die, Listed, Storing
<1> QED BY <1>2, <1>3, <1>4, <1>5, <1>6, <1>7 DEF LoopStep, Crash, Exit

LEMMA SweepPlaces == ASSUME TypeOK, PlaceInv, NEW g \in Sweeps, SweepStep(g) PROVE PlaceInv'
<1>1. g \in Goroutines /\ g # "loop"
  BY ConstantsAssumption DEF Goroutines
<1> USE DEF PlaceInv, Place, Listed, Storing, At, uiVars, sweepVars, history, clicks
<1>2. CASE EnabledLists(g)
  <2>1. \A h \in Sweeps : h # g => pc'[h] = pc[h] /\ lists'[h] = lists[h]
    BY <1>2, Switches DEF TypeOK
  <2>2. /\ pc'[g] \in {"both2", "youtube", "discord", "stop", "announce"}
        /\ pc'[g] = "announce" => lists'[g] # {}
    BY <1>2, Switches
  <2> QED BY <1>2, <2>1, <2>2 DEF EnabledLists
<1>3. CASE StopEngine(g) \/ TimeOut(g) \/ ProbeOK(g) \/ Announce(g) \/ Apply(g)
  BY <1>3 DEF StopEngine, TimeOut, ProbeOK, Announce, Apply, TypeOK
<1>4. CASE ApplyFails(g) \/ ProbeFails(g)
  BY <1>4 DEF ApplyFails, ProbeFails, NextCandidate, TypeOK
<1>5. CASE Fallback(g)
  BY <1>5 DEF Fallback, TypeOK
<1>6. CASE StoreLength(g) \/ StorePointer(g) \/ StoreTTL(g)
  BY <1>6 DEF StoreLength, StorePointer, StoreTTL, TypeOK
<1>7. CASE SavePicked(g)
  <2>1. CASE At(g, "copy", "open") /\ Copy(g)
    BY <1>1, <1>7, <2>1 DEF SavePicked, Copy, Goroutines, TypeOK
  <2>2. CASE At(g, "open", "write") /\ OpenFile(g)
    BY <1>7, <2>2, FileKinds DEF SavePicked, OpenFile, TypeOK
  <2>3. CASE At(g, "write", "picked") /\ WriteFile(g)
    <3>1. Overwritten(disk, buf[g]) \in Files
      BY <2>3, FileKinds
    <3>2. \A h \in Goroutines : h # g => buf'[h] = buf[h]
      BY <2>3 DEF WriteFile, TypeOK
    <3> QED BY <1>1, <1>7, <2>3, <3>1, <3>2 DEF SavePicked, WriteFile, Goroutines, TypeOK
  <2>4. CASE At(g, "open", "picked") /\ OpenFails(g)
    BY <1>1, <1>7, <2>4 DEF SavePicked, OpenFails, SaveFails, Goroutines, TypeOK
  <2>5. CASE At(g, "write", "picked") /\ WriteFails(g)
    <3>1. disk' \in Files
      BY <2>5, RemainKinds DEF WriteFails
    <3>2. \A h \in Goroutines : h # g => buf'[h] = buf[h]
      BY <2>5 DEF WriteFails, SaveFails, TypeOK
    <3> QED BY <1>1, <1>7, <2>5, <3>1, <3>2 DEF SavePicked, Goroutines, TypeOK
  <2> QED BY <1>7, <2>1, <2>2, <2>3, <2>4, <2>5 DEF SavePicked
<1>8. CASE Finish(g)
  BY <1>8 DEF Finish, TypeOK
<1> QED BY <1>2, <1>3, <1>4, <1>5, <1>6, <1>7, <1>8 DEF SweepStep

LEMMA PlaceStep == TypeOK /\ PlaceInv /\ [Next]_vars => PlaceInv'
<1>1. ASSUME PlaceInv, UNCHANGED vars PROVE PlaceInv'
  BY <1>1 DEF PlaceInv, Place, vars, uiVars, sweepVars
<1> QED BY <1>1, LoopPlaces, SweepPlaces DEF Next

-----------------------------------------------------------------------------
(* A step of a sweep disturbs no other sweep and not the menu.             *)
LEMMA SweepFrame == ASSUME TypeOK, NEW g \in Sweeps, SweepStep(g)
                    PROVE  /\ pc[g] # "none"
                           /\ \A h \in Sweeps \ {g} : pc'[h] = pc[h]
                           /\ pc'[g] = "none" => Finish(g)
                           /\ UNCHANGED <<lone, mixed, loop, after>>
<1> USE DEF TypeOK, At, uiVars, history, clicks
<1>1. CASE EnabledLists(g)
  BY <1>1 DEF EnabledLists, Cases
<1>2. CASE StopEngine(g) \/ TimeOut(g) \/ ProbeOK(g) \/ Announce(g) \/ Apply(g)
  BY <1>2 DEF StopEngine, TimeOut, ProbeOK, Announce, Apply
<1>3. CASE ApplyFails(g) \/ ProbeFails(g)
  BY <1>3 DEF ApplyFails, ProbeFails, NextCandidate
<1>4. CASE Fallback(g)
  BY <1>4 DEF Fallback
<1>5. CASE StoreLength(g) \/ StorePointer(g) \/ StoreTTL(g)
  BY <1>5 DEF StoreLength, StorePointer, StoreTTL
<1>6. CASE SavePicked(g)
  BY <1>6 DEF SavePicked
<1>7. CASE Finish(g)
  BY <1>7 DEF Finish
<1> QED BY <1>1, <1>2, <1>3, <1>4, <1>5, <1>6, <1>7 DEF SweepStep

(* After a step of the menu loop no sweep is under way that runs by        *)
(* itself, but for one that has just begun.                                *)
LEMMA LoopFrame == ASSUME TypeOK, SoleInv, Start \/ Click \/ LoopStep \/ Crash,
                          NEW g \in Sweeps, lone', pc'[g] # "none"
                   PROVE  /\ pc'[g] = "both" /\ loop' = "wait"
                          /\ \A h \in Sweeps \ {g} : pc'[h] = "none"
<1> USE DEF TypeOK, SoleInv, Sole, Loop, sweepVars, history, clicks, Clicked, Idle
<1>1. CASE Start
  BY <1>1 DEF Start, Begin
<1>2. CASE Spawn
  BY <1>2 DEF Spawn, Begin
<1>3. CASE Click
  BY <1>3 DEF Click, ToggleTarget, ToggleAutostart, CheckNow, Quit
<1>4. CASE QueryAutostart
  BY <1>4 DEF QueryAutostart, Reflect
<1>5. CASE SaveToggle
  BY <1>5 DEF SaveToggle
<1>6. CASE Die
  BY <1>6 DEF Die
<1> QED BY <1>1, <1>2, <1>3, <1>4, <1>5, <1>6 DEF LoopStep, Crash, Exit

LEMMA SoleStep == TypeOK /\ SoleInv /\ [Next]_vars => SoleInv'
<1> SUFFICES ASSUME TypeOK, SoleInv, [Next]_vars, NEW g \in Sweeps, lone', pc'[g] # "none"
             PROVE  loop' = "wait" /\ \A h \in Sweeps \ {g} : pc'[h] = "none"
  BY DEF SoleInv, Sole
<1>1. CASE UNCHANGED vars
  BY <1>1 DEF SoleInv, Sole, vars, uiVars, sweepVars, history, clicks
<1>2. CASE Start \/ Click \/ LoopStep \/ Crash
  BY <1>2, LoopFrame
<1>3. ASSUME NEW h \in Sweeps, SweepStep(h)
      PROVE  loop' = "wait" /\ \A i \in Sweeps \ {g} : pc'[i] = "none"
  BY <1>3, SweepFrame DEF SoleInv, Sole
<1> QED BY <1>1, <1>2, <1>3 DEF Next

-----------------------------------------------------------------------------
(* What the probe that answered went through is the candidate itself, and  *)
(* one that the provider lets through.                                     *)
LEMMA ProbeTells == ASSUME TypeOK, NEW g \in Sweeps, engine = Applied(g), Reaches(Host(lists[g]))
                    PROVE  cand[g] \in Working
<1>1. PICK k \in Working : /\ Candidates[k].Strategy = Candidates[cand[g]].Strategy
                           /\ Candidates[k].FakeTTL = Candidates[cand[g]].FakeTTL
  BY DEF Reaches, Applied, Config, Candidate
<1>2. k \in 1..Tried /\ cand[g] \in 1..Tried
  BY ConstantsAssumption DEF TypeOK
<1> QED BY <1>1, <1>2, CandidatesDiffer

(* Storing the strategy leaves the targets as they are.                    *)
LEMMA SameTargets == ASSUME \A t \in Targets : state'[t] = state[t] PROVE Enabled' = Enabled
BY DEF Enabled

(* A sweep that runs by itself does what its place says.                   *)
LEMMA OwnPhase == ASSUME TypeOK, NEW g \in Sweeps, SweepStep(g), pc'[g] # "none",
                         Reading(g), InEngine(g), InState(g)
                  PROVE  Reading(g)' /\ InEngine(g)' /\ InState(g)'
<1> USE DEF TypeOK, At, Reading, InEngine, InState, Listed, Storing, uiVars, sweepVars
<1>1. CASE EnabledLists(g)
  <2>1. UNCHANGED <<state, engine, cand>> /\ Enabled' = Enabled
    BY <1>1 DEF EnabledLists, Enabled
  <2>2. CASE pc[g] = "both"
    BY <1>1, <2>1, <2>2 DEF EnabledLists, Cases
  <2>3. CASE pc[g] = "both2"
    BY <1>1, <2>1, <2>3 DEF EnabledLists, Cases, Enabled, Targets
  <2>4. CASE pc[g] = "youtube"
    BY <1>1, <2>1, <2>4 DEF EnabledLists, Cases, Enabled, Targets
  <2>5. CASE pc[g] = "discord"
    BY <1>1, <2>1, <2>5 DEF EnabledLists, Cases, Enabled, Targets
  <2> QED BY <1>1, <2>2, <2>3, <2>4, <2>5 DEF EnabledLists, Cases
<1>2. CASE StopEngine(g) \/ TimeOut(g) \/ Announce(g)
  <2>1. CASE StopEngine(g)
    BY <2>1 DEF StopEngine, Enabled
  <2>2. CASE TimeOut(g)
    BY <2>2 DEF TimeOut, Enabled
  <2>3. CASE Announce(g)
    BY <2>3 DEF Announce, Enabled
  <2> QED BY <1>2, <2>1, <2>2, <2>3
<1>3. CASE Apply(g)
  BY <1>3 DEF Apply, Applied, Candidate, Enabled
<1>4. CASE ApplyFails(g) \/ ProbeFails(g)
  BY <1>4 DEF ApplyFails, ProbeFails, NextCandidate, Enabled
<1>5. CASE ProbeOK(g)
  BY <1>5, ProbeTells DEF ProbeOK, Applied, Candidate, Enabled
<1>6. CASE Fallback(g)
  BY <1>6 DEF Fallback, Enabled
<1>7. CASE StoreLength(g)
  <2>1. /\ state'.Strategy.len = NameLen[Candidate(g).Strategy]
        /\ state'.Strategy.ptr = state.Strategy.ptr
    BY <1>7 DEF StoreLength, States, Strings
  <2>2. Enabled' = Enabled
    BY <1>7, SameTargets DEF StoreLength, States, Targets
  <2>3. /\ (pc[g] = "strategy" /\ pc'[g] = "pointer") \/ (pc[g] = "length" /\ pc'[g] = "ttl")
        /\ UNCHANGED <<engine, lists, cand>>
    BY <1>7 DEF StoreLength
  <2> QED BY <2>1, <2>2, <2>3 DEF Applied, Candidate
<1>8. CASE StorePointer(g)
  <2>1. /\ state'.Strategy.ptr = Candidate(g).Strategy
        /\ state'.Strategy.len = state.Strategy.len
    BY <1>8 DEF StorePointer, States, Strings
  <2>2. Enabled' = Enabled
    BY <1>8, SameTargets DEF StorePointer, States, Targets
  <2>3. /\ (pc[g] = "strategy" /\ pc'[g] = "length") \/ (pc[g] = "pointer" /\ pc'[g] = "ttl")
        /\ UNCHANGED <<engine, lists, cand>>
    BY <1>8 DEF StorePointer
  <2> QED BY <2>1, <2>2, <2>3 DEF Applied, Candidate
<1>9. CASE StoreTTL(g)
  <2>1. state'.Strategy = state.Strategy /\ state'.FakeTTL = Candidate(g).FakeTTL
    BY <1>9 DEF StoreTTL, States
  <2>2. Enabled' = Enabled
    BY <1>9, SameTargets DEF StoreTTL, States, Targets
  <2>3. pc[g] = "ttl" /\ pc'[g] = "copy" /\ UNCHANGED <<engine, lists, cand>>
    BY <1>9 DEF StoreTTL
  <2> QED BY <2>1, <2>2, <2>3 DEF Applied, Candidate
<1>10. CASE SavePicked(g)
  BY <1>10 DEF SavePicked, Applied, Candidate, Enabled
<1>11. CASE Finish(g)
  BY <1>11 DEF Finish
<1> QED BY <1>1, <1>2, <1>3, <1>4, <1>5, <1>6, <1>7, <1>8, <1>9, <1>10, <1>11 DEF SweepStep

LEMMA PhaseStep == TypeOK /\ SoleInv /\ PhaseInv /\ [Next]_vars => PhaseInv'
<1> SUFFICES ASSUME TypeOK, SoleInv, PhaseInv, [Next]_vars, NEW g \in Sweeps, lone', pc'[g] # "none"
             PROVE  Reading(g)' /\ InEngine(g)' /\ InState(g)'
  BY DEF PhaseInv, Phase
<1>1. CASE UNCHANGED vars
  <2>1. pc'[g] = pc[g] /\ lone' = lone
    BY <1>1 DEF vars, sweepVars, history, clicks
  <2>2. Reading(g) /\ InEngine(g) /\ InState(g)
    BY <2>1 DEF PhaseInv, Phase
  <2>3. Enabled' = Enabled
    BY <1>1 DEF vars, Enabled
  <2> QED BY <1>1, <2>2, <2>3 DEF vars, sweepVars, Reading, InEngine, InState, Applied, Candidate
<1>2. CASE Start \/ Click \/ LoopStep \/ Crash
  BY <1>2, LoopFrame DEF Reading, InEngine, InState, Listed, Storing
<1>3. ASSUME NEW h \in Sweeps, SweepStep(h)
      PROVE  Reading(g)' /\ InEngine(g)' /\ InState(g)'
  <2>1. lone /\ pc[h] # "none" /\ (h # g => pc[g] # "none")
    BY <1>3, SweepFrame
  <2>2. h = g
    BY <2>1 DEF SoleInv, Sole
  <2> QED BY <1>3, <2>1, <2>2, OwnPhase DEF PhaseInv, Phase
<1> QED BY <1>1, <1>2, <1>3 DEF Next

-----------------------------------------------------------------------------
(* The agreement is about the targets, the strategy, the engine and the    *)
(* status line, and nothing else.                                          *)
LEMMA AgreeStays == ASSUME Agree, UNCHANGED <<engine, status>>,
                           \A t \in Targets : state'[t] = state[t],
                           state'.Strategy = state.Strategy, state'.FakeTTL = state.FakeTTL
                    PROVE  Agree'
<1>1. Enabled' = Enabled
  BY SameTargets
<1> QED BY <1>1 DEF Agree

(* What the last step of a sweep by itself leaves.                         *)
LEMMA FinishAgrees == ASSUME TypeOK, PlaceInv, PhaseInv, NEW g \in Sweeps, lone, Finish(g)
                      PROVE  Agree'
<1>1. Reading(g) /\ InEngine(g) /\ InState(g) /\ Place(g) /\ Candidate(g).Strategy \in Names
  BY CandidateKinds, ZenonT(40) DEF Finish, PhaseInv, Phase, PlaceInv, Candidate, TypeOK
<1>2. UNCHANGED <<engine, state>> /\ Enabled' = Enabled
  BY DEF Finish, Enabled
<1>3. CASE pc[g] = "off"
  BY <1>1, <1>2, <1>3 DEF Finish, Agree, Reading, InEngine
<1>4. CASE pc[g] = "failed"
  BY <1>1, <1>2, <1>4 DEF Finish, Agree, Reading, InEngine, Place, Listed
<1>5. CASE pc[g] = "default"
  BY <1>1, <1>2, <1>5 DEF Finish, Agree, Reading, InEngine, Place, Listed
<1>6. CASE pc[g] = "picked"
  <2>1. Text(state.Strategy) = Candidate(g).Strategy
    <3>1. \A name \in Names : NameLen[name] # 0
      BY DEF Names, NameLen
    <3> QED BY <1>1, <1>6, <3>1 DEF InState, Text
  <2>2. engine = Config(Enabled, Text(state.Strategy), state.FakeTTL) /\ Enabled # {}
    BY <1>1, <1>6, <2>1 DEF InState, InEngine, Applied, Reading, Place, Listed, Storing
  <2>3. engine.Strategy = Candidate(g).Strategy
    BY <2>1, <2>2 DEF Config
  <2>4. status' = <<"picked", Candidate(g).Strategy>>
    BY <1>6 DEF Finish
  <2> QED BY <1>2, <2>2, <2>3, <2>4 DEF Agree
<1> QED BY <1>3, <1>4, <1>5, <1>6 DEF Finish

LEMMA SettledStep == Inv /\ [Next]_vars => SettledInv'
<1> SUFFICES ASSUME TypeOK, PlaceInv, SoleInv, PhaseInv, SettledInv, [Next]_vars, Settled'
             PROVE  Agree'
  BY DEF Inv, SettledInv
<1> USE DEF TypeOK, Settled, Loop, sweepVars, uiVars, history, clicks, Clicked, Idle
<1>1. CASE UNCHANGED vars
  BY <1>1, AgreeStays DEF vars, SettledInv
<1>2. CASE Start \/ Spawn
  BY <1>2 DEF Start, Spawn, Begin
<1>3. CASE Click
  <2>1. CASE ToggleAutostart
    BY <1>3, <2>1, AgreeStays DEF ToggleAutostart, SettledInv
  <2>2. CASE ~ToggleAutostart
    BY <1>3, <2>2 DEF Click, ToggleTarget, CheckNow, Quit
  <2> QED BY <2>1, <2>2
<1>4. CASE QueryAutostart
  <2>1. Agree
    BY <1>4 DEF QueryAutostart, Reflect, SettledInv
  <2>2. /\ \A t \in Targets : state'[t] = state[t]
        /\ state'.Strategy = state.Strategy /\ state'.FakeTTL = state.FakeTTL
    BY <1>4 DEF QueryAutostart, Reflect, States, Targets
  <2> QED BY <1>4, <2>1, <2>2, AgreeStays DEF QueryAutostart, Reflect
<1>5. CASE SaveToggle
  <2>1. Agree
    BY <1>5 DEF SaveToggle, SettledInv
  <2> QED BY <1>5, <2>1, AgreeStays DEF SaveToggle
<1>6. CASE Die
  BY <1>6 DEF Die
<1>7. ASSUME NEW g \in Sweeps, SweepStep(g) PROVE Agree'
  <2>1. lone /\ pc[g] # "none" /\ pc'[g] = "none"
    BY <1>7, SweepFrame
  <2>2. Finish(g)
    BY <1>7, <2>1, SweepFrame
  <2> QED BY <2>1, <2>2, FinishAgrees
<1> QED BY <1>1, <1>2, <1>3, <1>4, <1>5, <1>6, <1>7 DEF Next, LoopStep, Crash, Exit

-----------------------------------------------------------------------------
(* What is saved is what is loaded, and what was loaded is what is saved.  *)
LEMMA SavedState == ASSUME NEW st \in States PROVE Load(Overwritten(Truncated, st)) = Normal(st)
<1>1. Length(st) \in Nat
  BY LengthKind
<1>2. Overwritten(Truncated, st) = [len |-> Length(st), st |-> st]
  BY <1>1 DEF Overwritten, Truncated
<1>3. [len |-> Length(st), st |-> st] \in Files
  BY <1>1 DEF Files
<1>4. [len |-> Length(st), st |-> st] # None /\ st # None
  BY <1>3, ConstantsAssumption
<1> QED BY <1>2, <1>4 DEF Load

LEMMA NormalTwice == ASSUME NEW file \in Files \cup {None} PROVE Normal(Load(file)) = Load(file)
<1>1. Normal(Default) = Default /\ Normal(Zero) = Zero
  <2>1. Text(Default.Strategy) = Default.Strategy.ptr
    <3>1. "fakedsplit" \in Names /\ NameLen["fakedsplit"] # 0
      BY DEF Names, NameLen
    <3>2. Default.Strategy = [ptr |-> "fakedsplit", len |-> NameLen["fakedsplit"]]
      BY DEF Default, String
    <3> QED BY <3>1, <3>2 DEF Text
  <2>2. Text(Zero.Strategy) = Zero.Strategy.ptr
    BY DEF Zero, Text
  <2>3. Default.Strategy = [ptr |-> Default.Strategy.ptr, len |-> Default.Strategy.len]
    BY DEF Default, String
  <2>4. Zero.Strategy = [ptr |-> Zero.Strategy.ptr, len |-> Zero.Strategy.len]
    BY DEF Zero
  <2>5. ASSUME NEW st \in States, st.Strategy = [ptr |-> Text(st.Strategy), len |-> st.Strategy.len]
        PROVE  Normal(st) = st
    BY <2>5 DEF Normal, States
  <2> QED BY <2>1, <2>2, <2>3, <2>4, <2>5, FixedStates
<1>2. ASSUME NEW st \in States PROVE Normal(Normal(st)) = Normal(st)
  <2>1. st.Strategy \in Strings
    BY DEF States
  <2>2. ASSUME NEW str \in Strings PROVE Text([ptr |-> Text(str), len |-> str.len]) = Text(str)
    BY DEF Strings, Text, Names, NameLen
  <2> QED BY <2>1, <2>2 DEF Normal, States
<1>3. file # None /\ file.st # None => file.st \in States
  BY DEF Files
<1> QED BY <1>1, <1>2, <1>3 DEF Load

LEMMA OrderlyStep == TypeOK /\ OrderlyInv /\ [Next]_vars => OrderlyInv'
<1> SUFFICES ASSUME TypeOK, OrderlyInv, [Next]_vars, NEW g \in Sweeps, pc'[g] # "none"
             PROVE  /\ loop' # "down"
                    /\ ~mixed' => loop' = "wait" /\ \A h \in Sweeps \ {g} : pc'[h] = "none"
  BY DEF OrderlyInv, Orderly
<1> USE DEF TypeOK, OrderlyInv, Orderly, Loop, sweepVars, uiVars, history, clicks, Clicked, Idle
<1>1. CASE UNCHANGED vars
  BY <1>1 DEF vars
<1>2. CASE Start
  BY <1>2 DEF Start, Begin
<1>3. CASE Spawn
  BY <1>3 DEF Spawn, Begin
<1>4. CASE Click
  BY <1>4 DEF Click, ToggleTarget, ToggleAutostart, CheckNow, Quit
<1>5. CASE QueryAutostart
  BY <1>5 DEF QueryAutostart, Reflect
<1>6. CASE SaveToggle
  BY <1>6 DEF SaveToggle
<1>7. CASE Die
  BY <1>7 DEF Die
<1>8. ASSUME NEW h \in Sweeps, SweepStep(h)
      PROVE  /\ loop' # "down"
             /\ ~mixed' => loop' = "wait" /\ \A i \in Sweeps \ {g} : pc'[i] = "none"
  BY <1>8, SweepFrame
<1> QED BY <1>1, <1>2, <1>3, <1>4, <1>5, <1>6, <1>7, <1>8 DEF Next, LoopStep, Crash, Exit

(* The menu loop saves what it has toggled before it does anything else.   *)
LEMMA LoopMemory == ASSUME TypeOK, OrderlyInv, MemoryInv, ~mixed',
                           Start \/ Click \/ LoopStep \/ Crash
                    PROVE  Memory'
<1>1. "loop" \in Goroutines /\ "loop" \notin Sweeps
  BY ConstantsAssumption DEF Goroutines
<1> USE DEF TypeOK, Memory, Writing, Loop, sweepVars, uiVars, history, clicks, Clicked, Idle, Unsaved
<1>2. CASE Start
  <2>1. ~parted' => Current'
    BY <1>2, NormalTwice DEF Start, Current
  <2>2. \A g \in Sweeps : pc'[g] \in {"none", "both"}
    BY <1>2 DEF Start, Begin, OrderlyInv, Orderly
  <2> QED BY <1>2, <2>1, <2>2 DEF Start
<1>3. CASE Click
  <2>1. ~mixed /\ Idle /\ loop = "wait"
    BY <1>3 DEF Click, ToggleTarget, ToggleAutostart, CheckNow, Quit
  <2>2. UNCHANGED <<disk, pc>>
    BY <1>3 DEF Click, ToggleTarget, ToggleAutostart, CheckNow, Quit
  <2>3. loop' # "toggled" /\ ~parted' => Current'
    BY <1>3, <2>1 DEF Click, ToggleTarget, ToggleAutostart, CheckNow, Quit, MemoryInv, Current
  <2>4. loop' \in {"toggled", "schtasks", "spawn", "quit"}
    BY <1>3 DEF Click, ToggleTarget, ToggleAutostart, CheckNow, Quit
  <2> QED BY <2>1, <2>2, <2>3, <2>4
<1>4. ASSUME QueryAutostart \/ SaveToggle PROVE Memory'
  <2>1. ~mixed /\ loop # "wait" /\ UNCHANGED pc
    BY <1>4 DEF QueryAutostart, Reflect, SaveToggle
  <2>2. \A g \in Sweeps : pc[g] = "none" /\ pc'[g] = "none"
    BY <2>1 DEF OrderlyInv, Orderly
  <2>3. CASE QueryAutostart
    BY <2>2, <2>3 DEF QueryAutostart, Reflect
  <2>4. CASE Loop("toggled", "open") /\ Copy("loop") /\ SaveToggle
    BY <1>1, <2>2, <2>4 DEF Copy, SaveToggle
  <2>5. CASE Loop("open", "write") /\ OpenFile("loop") /\ SaveToggle
    BY <2>1, <2>2, <2>5 DEF OpenFile, SaveToggle, MemoryInv
  <2>6. CASE Loop("write", after) /\ WriteFile("loop") /\ SaveToggle
    <3>1. disk = Truncated /\ buf["loop"] = state
      BY <2>1, <2>6 DEF MemoryInv
    <3>2. Current'
      BY <2>6, <3>1, SavedState DEF WriteFile, SaveToggle, Current
    <3> QED BY <2>2, <2>6, <3>2
  <2>7. CASE /\ \/ Loop("open", after) /\ OpenFails("loop")
                \/ Loop("write", after) /\ WriteFails("loop")
             /\ SaveToggle
    BY <2>2, <2>7 DEF OpenFails, WriteFails, SaveFails
  <2> QED BY <1>4, <2>3, <2>4, <2>5, <2>6, <2>7 DEF SaveToggle
<1>5. CASE Spawn
  <2>1. ~mixed /\ \A g \in Sweeps : pc[g] = "none" /\ pc'[g] \in {"none", "both"}
    BY <1>5 DEF Spawn, Begin, OrderlyInv, Orderly
  <2> QED BY <1>5, <2>1 DEF Spawn, MemoryInv, Current
<1>6. CASE Die
  BY <1>6 DEF Die
<1> QED BY <1>2, <1>3, <1>4, <1>5, <1>6 DEF LoopStep, Crash, Exit

(* A sweep that is the only one saves what it has stored.                  *)
LEMMA SweepMemory == ASSUME TypeOK, OrderlyInv, MemoryInv, ~mixed', NEW g \in Sweeps, SweepStep(g)
                     PROVE  Memory'
<1>1. g \in Goroutines
  BY DEF Goroutines
<1>2. /\ ~mixed /\ loop = "wait" /\ loop' = "wait"
      /\ \A h \in Sweeps \ {g} : pc[h] = "none" /\ pc'[h] = "none"
  BY SweepFrame DEF OrderlyInv, Orderly
<1> SUFFICES /\ ~parted' /\ pc'[g] \notin Unsaved => Current'
             /\ Writing(g, pc[g])'
  BY <1>2 DEF Memory, Writing
<1>3. /\ ~parted /\ pc[g] \notin Unsaved => Current
      /\ Writing(g, pc[g])
  BY <1>2 DEF MemoryInv, Memory, Unsaved
<1> USE DEF TypeOK, Unsaved, Writing, At, history
<1>4. CASE pc'[g] \notin Unsaved /\ pc[g] \notin Unsaved /\ UNCHANGED <<disk, state, parted>>
  BY <1>3, <1>4 DEF Current
<1>5. CASE EnabledLists(g)
  BY <1>4, <1>5, Switches DEF EnabledLists, Cases
<1>6. CASE StopEngine(g) \/ TimeOut(g) \/ ProbeOK(g) \/ Announce(g) \/ Apply(g)
  BY <1>4, <1>6 DEF StopEngine, TimeOut, ProbeOK, Announce, Apply
<1>7. CASE ApplyFails(g) \/ ProbeFails(g)
  BY <1>4, <1>7 DEF ApplyFails, ProbeFails, NextCandidate
<1>8. CASE Fallback(g)
  BY <1>4, <1>8 DEF Fallback
<1>9. CASE StoreLength(g) \/ StorePointer(g) \/ StoreTTL(g)
  BY <1>9 DEF StoreLength, StorePointer, StoreTTL
<1>10. CASE SavePicked(g)
  <2>1. CASE At(g, "copy", "open") /\ Copy(g)
    BY <1>1, <1>10, <2>1 DEF SavePicked, Copy
  <2>2. CASE At(g, "open", "write") /\ OpenFile(g)
    BY <1>3, <1>10, <2>2 DEF SavePicked, OpenFile
  <2>3. CASE At(g, "write", "picked") /\ WriteFile(g)
    <3>1. disk = Truncated /\ buf[g] = state
      BY <1>3, <2>3
    <3>2. Current'
      BY <1>10, <2>3, <3>1, SavedState DEF WriteFile, SavePicked, Current
    <3> QED BY <2>3, <3>2
  <2>4. CASE \/ At(g, "open", "picked") /\ OpenFails(g)
             \/ At(g, "write", "picked") /\ WriteFails(g)
    BY <2>4 DEF OpenFails, WriteFails, SaveFails
  <2> QED BY <1>10, <2>1, <2>2, <2>3, <2>4 DEF SavePicked
<1>11. CASE Finish(g)
  BY <1>4, <1>11 DEF Finish
<1> QED BY <1>5, <1>6, <1>7, <1>8, <1>9, <1>10, <1>11 DEF SweepStep

LEMMA MemoryStep == TypeOK /\ OrderlyInv /\ MemoryInv /\ [Next]_vars => MemoryInv'
<1>1. ASSUME MemoryInv, UNCHANGED vars PROVE MemoryInv'
  BY <1>1 DEF MemoryInv, Memory, Writing, Current, vars, uiVars, sweepVars, history, clicks
<1> QED BY <1>1, LoopMemory, SweepMemory DEF Next, MemoryInv

(* Only the menu loop touches the checkbox, the task and the field.        *)
LEMMA AutostartStep == TypeOK /\ AutostartInv /\ [Next]_vars => AutostartInv'
<1> SUFFICES ASSUME TypeOK, AutostartInv, [Next]_vars PROVE AutostartInv'
  OBVIOUS
<1> USE DEF AutostartInv, Loop, uiVars, history, clicks, Clicked
<1>1. CASE UNCHANGED vars
  BY <1>1 DEF vars
<1>2. CASE Start \/ Spawn \/ Die
  BY <1>2 DEF Start, Spawn, Die
<1>3. CASE Click
  <2>1. CASE \E t \in Targets : ToggleTarget(t)
    BY <2>1 DEF ToggleTarget, Targets, TypeOK, States
  <2> QED BY <1>3, <2>1 DEF Click, ToggleAutostart, CheckNow, Quit
<1>4. CASE QueryAutostart
  <2>1. PICK real \in BOOLEAN : Reflect(real) /\ (real <=> task /\ ~denied')
    BY <1>4 DEF QueryAutostart, TypeOK
  <2>2. state'.Autostart = real /\ checked' = real /\ task' = task
    BY <2>1 DEF Reflect, TypeOK, States
  <2> QED BY <2>1, <2>2 DEF TypeOK
<1>5. CASE SaveToggle
  BY <1>5 DEF SaveToggle
<1>6. ASSUME NEW g \in Sweeps, SweepStep(g) PROVE AutostartInv'
  <2>1. CASE StoreLength(g) \/ StorePointer(g) \/ StoreTTL(g)
    BY <2>1 DEF StoreLength, StorePointer, StoreTTL, TypeOK, States
  <2>2. CASE UNCHANGED <<state, checked, loop, task, toggled, denied>>
    BY <2>2
  <2> QED BY <1>6, <2>1, <2>2 DEF SweepStep, EnabledLists, StopEngine, Announce, TimeOut, Apply,
          ApplyFails, ProbeOK, ProbeFails, Fallback, SavePicked, Finish
<1> QED BY <1>1, <1>2, <1>3, <1>4, <1>5, <1>6 DEF Next, LoopStep, Crash, Exit

-----------------------------------------------------------------------------
LEMMA Invariant == Spec => []Inv
<1>1. Inv /\ [Next]_vars => Inv'
  BY TypeStep, PlaceStep, SoleStep, PhaseStep, SettledStep, OrderlyStep, MemoryStep,
     AutostartStep DEF Inv
<1> QED BY InvInit, <1>1, PTL DEF Spec

(* Every variable of the tray, of its sweeps and of the settings file      *)
(* stays within its type.                                                  *)
THEOREM TrayTypeCorrect == Spec => []TypeOK
<1>1. Inv => TypeOK
  BY DEF Inv
<1> QED BY Invariant, <1>1, PTL

(* The strategy that a sweep by itself is about to store works with this   *)
(* provider, and is the one that the engine runs.                          *)
THEOREM PickedWorksCorrect == Spec => []PickedWorks
<1>1. Inv => PickedWorks
  BY DEF Inv, PhaseInv, Phase, InEngine, Storing, Applied, PickedWorks
<1> QED BY Invariant, <1>1, PTL

(* When a sweep that ran by itself is over, engine, targets, stored        *)
(* strategy and status line agree, whatever overlapping sweeps did before. *)
THEOREM InForceCorrect == Spec => []InForce
<1>1. Inv => InForce
  BY DEF Inv, SettledInv, Settled, Agree, InForce, Quiescent
<1> QED BY Invariant, <1>1, PTL

(* With no click during a sweep, and unless the last Load or Save failed,  *)
(* the next launch would load what u.state says: targets, strategy, TTL    *)
(* and autostart are remembered.                                           *)
THEOREM RememberedCorrect == Spec => []Remembered
<1>1. Inv => Remembered
  BY DEF Inv, MemoryInv, Memory, Current, Unsaved, Remembered, Quiescent, Idle
<1> QED BY Invariant, <1>1, PTL

(* Once the autostart item has been toggled, the checkbox says what        *)
(* u.state says and whether there is a logon task, the last as far as the  *)
(* query did not fail; the saved settings say so too, as far as Remembered *)
(* goes.                                                                   *)
THEOREM AutostartAgreesCorrect == Spec => []AutostartAgrees
<1>1. Inv => AutostartAgrees
  <2> SUFFICES ASSUME Inv, Quiescent, toggled PROVE AutostartAgrees
    BY DEF AutostartAgrees
  <2>1. ~mixed /\ ~parted => Load(disk) = Normal(state)
    BY DEF Inv, MemoryInv, Memory, Current, Unsaved, Quiescent, Idle
  <2>2. Normal(state).Autostart = state.Autostart
    BY DEF Normal, Inv, TypeOK, States
  <2> QED BY <2>1, <2>2 DEF Inv, AutostartInv, AutostartAgrees, Quiescent
<1> QED BY Invariant, <1>1, PTL
=============================================================================
