------------------------------- MODULE Driver -------------------------------
(***************************************************************************)
(* What happens between a double-click and an open WinDivert handle:       *)
(* internal/winenv (EnsureElevated, ExtractDriver) and the loading of the  *)
(* extracted files by internal/divert.  Nothing keeps the program from     *)
(* being launched twice, in two versions: the instances share one          *)
(* directory, one driver in the kernel, and the locks the system holds on  *)
(* files that are loaded.                                                  *)
(***************************************************************************)
EXTENDS Naturals

CONSTANTS
  Procs,     \* bounds how many instances live at once
  Build,     \* the version of each
  Failures,  \* what may fail: "disk", "crash"
  None

Versions == {Build[p] : p \in Procs}
DriverFiles == {"WinDivert.dll", "WinDivert64.sys"}
DLL == "WinDivert.dll"
SYS == "WinDivert64.sys"

ASSUME DriverAssumption ==
  /\ Failures \subseteq {"disk", "crash"}
  /\ Versions \cap {"absent", "empty", "mixed", None} = {}
  /\ None # "mixed"

VARIABLES
  files,     \* what each file holds: a version, "mixed" parts of two, or "empty",
             \* which stands for everything that is not whole
  pc,        \* where each instance is
  elevated,  \* does it have administrator rights?
  todo,      \* the files ExtractDriver has not come to yet
  at,        \* the file it is about to write
  err,       \* the error it returned, which is only logged
  image,     \* the DLL that the instance has loaded
  handle,    \* has it an open WinDivert handle?
  kernel,    \* the driver that is loaded
  met        \* history: "other" if an instance of another version has lived at
             \* the same time, "same" if one of its own has extracted meanwhile

extractVars == <<todo, at, err>>
loadVars == <<image, handle, kernel>>
vars == <<files, pc, elevated, extractVars, loadVars, met>>

Contents == Versions \cup {"absent", "empty", "mixed"}
Loadable == Versions \cup {"mixed"}

TypeOK ==
  /\ files \in [DriverFiles -> Contents]
  /\ pc \in [Procs -> {"none", "main", "extract", "open", "write", "ready"}]
  /\ elevated \in [Procs -> BOOLEAN]
  /\ todo \in [Procs -> SUBSET DriverFiles]
  /\ at \in [Procs -> DriverFiles \cup {None}]
  /\ err \in [Procs -> {"", "disk", "lock"}]
  /\ image \in [Procs -> Loadable \cup {None}]
  /\ handle \in [Procs -> BOOLEAN]
  /\ kernel \in Loadable \cup {None}
  /\ met \in [Procs -> SUBSET {"other", "same"}]

Init ==
  /\ files = [f \in DriverFiles |-> "absent"]
  /\ pc = [p \in Procs |-> "none"]
  /\ elevated = [p \in Procs |-> FALSE]
  /\ todo = [p \in Procs |-> {}]
  /\ at = [p \in Procs |-> None]
  /\ err = [p \in Procs |-> ""]
  /\ image = [p \in Procs |-> None]
  /\ handle = [p \in Procs |-> FALSE]
  /\ kernel = None
  /\ met = [p \in Procs |-> {}]

-----------------------------------------------------------------------------
At(p, from, to) == pc[p] = from /\ pc' = [pc EXCEPT ![p] = to]
Extracting(p) == pc[p] \in {"extract", "open", "write"}

(* A file cannot be opened for writing while it is loaded, nor loaded      *)
(* while it is open for writing.                                           *)
InUse(f) == IF f = DLL THEN {image[p] : p \in Procs} \ {None} ELSE {kernel} \ {None}
Written(f) == \E p \in Procs : pc[p] = "write" /\ at[p] = f

(* What the instance p, about to extract, and q are to each other.         *)
Beside(p, q) ==
  CASE Build[q] # Build[p] /\ pc[q] # "none" -> {"other"}
    [] Build[q] = Build[p] /\ Extracting(q)  -> {"same"}
    [] OTHER                                 -> {}

(* What a writer makes of a file that it, or another one since, emptied.   *)
Over(contents, version) == IF contents \in {"empty", version} THEN {version} ELSE {version, "mixed"}

-----------------------------------------------------------------------------
(* Actions with a plausible bug, which the properties are shown to catch.  *)

(* A file that is there is taken for the right one.                        *)
CompareName(p, f) ==
  /\ f \in todo[p]
  /\ IF files[f] # "absent"
     THEN todo' = [todo EXCEPT ![p] = @ \ {f}] /\ UNCHANGED <<pc, at>>
     ELSE At(p, "extract", "open") /\ at' = [at EXCEPT ![p] = f] /\ UNCHANGED todo
  /\ pc[p] = "extract"
  /\ UNCHANGED <<files, elevated, err, loadVars, met>>

(* Every file is written at every launch.                                  *)
CompareNot(p, f) ==
  /\ f \in todo[p]
  /\ At(p, "extract", "open")
  /\ at' = [at EXCEPT ![p] = f]
  /\ UNCHANGED <<files, elevated, todo, err, loadVars, met>>

(* The error of dll.Load is not looked at.                                 *)
LoadUnchecked(p) ==
  /\ pc[p] = "ready"
  /\ image[p] = None
  /\ image' = [image EXCEPT ![p] = files[DLL]]
  /\ UNCHANGED <<files, pc, elevated, extractVars, handle, kernel, met>>

-----------------------------------------------------------------------------
(* main and Run, by a double-click or the logon task.                      *)
Launch(p) ==
  /\ At(p, "none", "main")
  /\ \E e \in BOOLEAN : elevated' = [elevated EXCEPT ![p] = e]
  /\ UNCHANGED <<files, extractVars, loadVars, met>>

(* The instance without rights ends; its elevated copy takes its place.    *)
RelaunchElevated(p) ==
  /\ pc[p] = "main"
  /\ ~elevated[p]
  /\ elevated' = [elevated EXCEPT ![p] = TRUE]
  /\ UNCHANGED <<files, pc, extractVars, loadVars, met>>

(* It has rights, or the user denies them, which is logged.                *)
EnsureElevated(p) ==
  /\ At(p, "main", "extract")
  /\ todo' = [todo EXCEPT ![p] = DriverFiles]
  /\ met' = [q \in Procs |-> IF q = p THEN UNION {Beside(p, r) : r \in Procs \ {p}}
                                       ELSE met[q] \cup Beside(p, q)]
  /\ UNCHANGED <<files, elevated, at, err, loadVars>>

-----------------------------------------------------------------------------
(* ExtractDriver: the files in any order, that of a Go map.                *)

Compare(p, f) ==
  /\ f \in todo[p]
  /\ IF files[f] = Build[p]
     THEN todo' = [todo EXCEPT ![p] = @ \ {f}] /\ UNCHANGED <<pc, at>>
     ELSE At(p, "extract", "open") /\ at' = [at EXCEPT ![p] = f] /\ UNCHANGED todo
  /\ pc[p] = "extract"
  /\ UNCHANGED <<files, elevated, err, loadVars, met>>

(* os.WriteFile: open and truncate, then write.                            *)
Truncate(p) ==
  /\ At(p, "open", "write")
  /\ InUse(at[p]) = {}
  /\ files' = [files EXCEPT ![at[p]] = "empty"]
  /\ UNCHANGED <<elevated, extractVars, loadVars, met>>

Write(p) ==
  /\ At(p, "write", "extract")
  /\ \E contents \in Over(files[at[p]], Build[p]) : files' = [files EXCEPT ![at[p]] = contents]
  /\ todo' = [todo EXCEPT ![p] = @ \ {at[p]}]
  /\ at' = [at EXCEPT ![p] = None]
  /\ UNCHANGED <<elevated, err, loadVars, met>>

(* ExtractDriver returns; an error leaves the rest of the files as it is.  *)
Fails(p, error) ==
  /\ pc' = [pc EXCEPT ![p] = "ready"]
  /\ err' = [err EXCEPT ![p] = error]
  /\ todo' = [todo EXCEPT ![p] = {}]
  /\ at' = [at EXCEPT ![p] = None]
  /\ UNCHANGED <<files, elevated, loadVars, met>>

FailsLocked(p) == pc[p] = "open" /\ InUse(at[p]) # {} /\ Fails(p, "lock")
FailsOnDisk(p) ==
  /\ "disk" \in Failures
  /\ pc[p] \in {"open", "write"} \/ (pc[p] = "extract" /\ todo[p] = DriverFiles)
  /\ Fails(p, "disk")

Extracted(p) ==
  /\ At(p, "extract", "ready")
  /\ todo[p] = {}
  /\ UNCHANGED <<files, elevated, extractVars, loadVars, met>>

-----------------------------------------------------------------------------
(* NewWinDivertSource, in Apply, tried again by every sweep.               *)

LoadDLL(p) ==
  /\ pc[p] = "ready"
  /\ image[p] = None
  /\ files[DLL] \in Loadable /\ ~Written(DLL)
  /\ image' = [image EXCEPT ![p] = files[DLL]]
  /\ UNCHANGED <<files, pc, elevated, extractVars, handle, kernel, met>>

(* WinDivertOpen loads the driver unless another handle has.               *)
Open(p) ==
  /\ image[p] # None
  /\ elevated[p] /\ ~handle[p]
  /\ \/ kernel # None /\ UNCHANGED kernel
     \/ kernel = None /\ files[SYS] \in Loadable /\ ~Written(SYS) /\ kernel' = files[SYS]
  /\ handle' = [handle EXCEPT ![p] = TRUE]
  /\ UNCHANGED <<files, pc, elevated, extractVars, image, met>>

(* The driver goes with its last handle.                                   *)
Released(p) == IF \E q \in Procs \ {p} : handle[q] THEN kernel ELSE None

Close(p) ==
  /\ handle[p]
  /\ handle' = [handle EXCEPT ![p] = FALSE]
  /\ kernel' = Released(p)
  /\ UNCHANGED <<files, pc, elevated, extractVars, image, met>>

(* "Quit", or a crash; both release what the instance has loaded.          *)
Exit(p) ==
  /\ pc[p] = "ready" \/ (pc[p] # "none" /\ "crash" \in Failures)
  /\ pc' = [pc EXCEPT ![p] = "none"]
  /\ elevated' = [elevated EXCEPT ![p] = FALSE]
  /\ todo' = [todo EXCEPT ![p] = {}]
  /\ at' = [at EXCEPT ![p] = None]
  /\ err' = [err EXCEPT ![p] = ""]
  /\ image' = [image EXCEPT ![p] = None]
  /\ handle' = [handle EXCEPT ![p] = FALSE]
  /\ kernel' = IF handle[p] THEN Released(p) ELSE kernel
  /\ met' = [met EXCEPT ![p] = {}]
  /\ UNCHANGED files

-----------------------------------------------------------------------------
Step(p) ==
  \/ Launch(p) \/ RelaunchElevated(p) \/ EnsureElevated(p)
  \/ \E f \in DriverFiles : Compare(p, f)
  \/ Truncate(p) \/ Write(p) \/ FailsLocked(p) \/ FailsOnDisk(p) \/ Extracted(p)
  \/ LoadDLL(p) \/ Open(p) \/ Close(p) \/ Exit(p)

Next == \E p \in Procs : Step(p)

Spec == Init /\ [][Next]_vars

-----------------------------------------------------------------------------
(* Properties.                                                             *)

(* After an ExtractDriver that returned no error both files are the        *)
(* instance's own, whatever a crash or an older version left behind, and   *)
(* however often its own version has been launched since; and what it      *)
(* captures with is its own DLL and its own driver, for as long as no      *)
(* other version is launched beside it.                                    *)
OwnDriver == \A p \in Procs : pc[p] = "ready" /\ err[p] = "" =>
  /\ met[p] = {} => \A f \in DriverFiles : files[f] = Build[p]
  /\ "other" \notin met[p] /\ handle[p] => image[p] = Build[p] /\ kernel = Build[p]

(* "so repeated launches don't churn the disk or fight a file lock on the  *)
(* loaded DLL": when ExtractDriver meets a lock, the file that is loaded   *)
(* is of another version, or one of its own was extracting it meanwhile.   *)
NoLockFight ==
  [][\A p \in Procs : FailsLocked(p) /\ "same" \notin met[p] => Build[p] \notin InUse(at[p])]_vars
=============================================================================
