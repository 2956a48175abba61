---------------------------- MODULE DriverProofs ----------------------------
(***************************************************************************)
(* Proofs about module Driver, for any number of instances and versions    *)
(* and whatever may fail: an instance that has extracted without an error  *)
(* and met no other version works with its own files, and instances of one *)
(* version do not lock each other out.                                     *)
(***************************************************************************)
EXTENDS Driver, TLAPS

(* What an instance has at each place; an error ends ExtractDriver.        *)
Place(p) ==
  /\ pc[p] \in {"open", "write"} => at[p] \in todo[p]
  /\ pc[p] \in {"none", "main", "ready"} => todo[p] = {}
  /\ pc[p] # "ready" => err[p] = "" /\ image[p] = None
  /\ handle[p] => image[p] # None /\ kernel # None
PlaceInv == \A p \in Procs : Place(p)

(* What is loaded is what its file holds, and nobody is writing the file.  *)
LoadInv ==
  /\ \A p \in Procs : image[p] # None => files[DLL] = image[p] /\ ~Written(DLL)
  /\ kernel # None => files[SYS] = kernel /\ ~Written(SYS)

(* What met says of the other instances.                                   *)
Present(p) == Extracting(p) \/ pc[p] = "ready"
Met(p, q) ==
  /\ Present(p) /\ "other" \notin met[p] /\ Build[q] # Build[p] => pc[q] \in {"none", "main"}
  /\ Extracting(p) /\ "same" \notin met[p] /\ Build[q] = Build[p] /\ q # p => ~Extracting(q)
MetInv == \A p, q \in Procs : Met(p, q)

(* What a file holds that the instance has been through, or is writing.    *)
Past(p) == {f \in DriverFiles : f \notin todo[p] \/ (pc[p] = "write" /\ at[p] = f)}
File(p) == Present(p) /\ err[p] = "" =>
  /\ "other" \notin met[p] => \A f \in Past(p) : files[f] \in {Build[p], "empty"}
  /\ met[p] = {} => \A f \in DriverFiles \ todo[p] : files[f] = Build[p]
  /\ met[p] = {} /\ pc[p] = "ready" => \A q \in Procs : pc[q] \notin {"open", "write"}
FileInv == \A p \in Procs : File(p)

(* A file that is about to be replaced is not the instance's own, unless   *)
(* one of its own version has written it since.                            *)
OpenInv == \A p \in Procs :
  pc[p] = "open" /\ "same" \notin met[p] => files[at[p]] # Build[p]

Inv == TypeOK /\ PlaceInv /\ LoadInv /\ MetInv /\ FileInv /\ OpenInv

-----------------------------------------------------------------------------
(* Every version is a content of its own.                                  *)
LEMMA OwnVersion == ASSUME NEW p \in Procs
                    PROVE  /\ Build[p] \in Versions
                           /\ Build[p] \notin {"absent", "empty", "mixed", None}
                           /\ None \notin Loadable /\ "empty" \notin Loadable
BY DriverAssumption DEF Versions, Loadable

LEMMA InvInit == Init => Inv
<1> SUFFICES ASSUME Init PROVE Inv
  OBVIOUS
<1> USE DEF Init
<1>1. TypeOK
  BY DEF TypeOK, Contents
<1>2. PlaceInv /\ LoadInv
  BY DEF PlaceInv, Place, LoadInv
<1>3. \A p \in Procs : pc[p] = "none" /\ ~Present(p) /\ ~Extracting(p)
  BY DEF Present, Extracting
<1>4. MetInv /\ FileInv /\ OpenInv
  BY <1>3 DEF MetInv, Met, FileInv, File, OpenInv
<1> QED BY <1>1, <1>2, <1>4 DEF Inv

(* Each action keeps the types.                                            *)
LEMMA TypeStep == TypeOK /\ [Next]_vars => TypeOK'
<1> SUFFICES ASSUME TypeOK, [Next]_vars PROVE TypeOK'
  OBVIOUS
<1> USE DEF TypeOK, At, extractVars, loadVars
<1>1. CASE UNCHANGED vars
  BY <1>1 DEF vars
<1>2. ASSUME NEW p \in Procs, Step(p) PROVE TypeOK'
  <2>1. CASE Launch(p) \/ RelaunchElevated(p)
    BY <2>1 DEF Launch, RelaunchElevated
  <2>2. CASE EnsureElevated(p)
    <3>1. \A q, r \in Procs : Beside(q, r) \in SUBSET {"other", "same"}
      BY DEF Beside
    <3>2. UNION {Beside(p, r) : r \in Procs \ {p}} \subseteq {"other", "same"}
      <4> SUFFICES ASSUME NEW m, NEW r \in Procs, m \in Beside(p, r) PROVE m \in {"other", "same"}
        BY ZenonT(40)
      <4> QED BY <3>1
    <3>3. ASSUME NEW q \in Procs
          PROVE  (IF q = p THEN UNION {Beside(p, r) : r \in Procs \ {p}}
                           ELSE met[q] \cup Beside(p, q)) \in SUBSET {"other", "same"}
      BY <3>1, <3>2
    <3>4. met' \in [Procs -> SUBSET {"other", "same"}]
      BY <2>2, <3>3 DEF EnsureElevated
    <3> QED BY <2>2, <3>4 DEF EnsureElevated
  <2>3. ASSUME NEW f \in DriverFiles, Compare(p, f) PROVE TypeOK'
    <3>1. CASE files[f] = Build[p]
      <4>1. todo[p] \ {f} \in SUBSET DriverFiles
        OBVIOUS
      <4>2. todo' = [todo EXCEPT ![p] = todo[p] \ {f}]
        BY <2>3, <3>1 DEF Compare
      <4>3. todo' \in [Procs -> SUBSET DriverFiles]
        BY <4>1, <4>2
      <4> QED BY <2>3, <3>1, <4>3 DEF Compare
    <3>2. CASE files[f] # Build[p]
      BY <2>3, <3>2, ZenonT(40) DEF Compare
    <3> QED BY <3>1, <3>2
  <2>4. CASE Truncate(p)
    BY <2>4 DEF Truncate, Contents
  <2>5. CASE Write(p)
    BY <2>5, OwnVersion, ZenonT(40) DEF Write, Over, Contents
  <2>6. CASE FailsLocked(p) \/ FailsOnDisk(p)
    BY <2>6 DEF FailsLocked, FailsOnDisk, Fails
  <2>7. CASE Extracted(p)
    BY <2>7 DEF Extracted
  <2>8. CASE LoadDLL(p)
    BY <2>8 DEF LoadDLL
  <2>9. CASE Open(p)
    BY <2>9 DEF Open
  <2>10. CASE Close(p) \/ Exit(p)
    BY <2>10 DEF Close, Exit, Released
  <2> QED BY <1>2, <2>1, <2>2, <2>3, <2>4, <2>5, <2>6, <2>7, <2>8, <2>9, <2>10 DEF Step
<1> QED BY <1>1, <1>2 DEF Next

(* Nobody is at a place where it has nothing to do.                        *)
LEMMA PlaceStep == TypeOK /\ PlaceInv /\ [Next]_vars => PlaceInv'
<1> SUFFICES ASSUME TypeOK, PlaceInv, [Next]_vars PROVE PlaceInv'
  OBVIOUS
<1> USE DEF TypeOK, PlaceInv, Place, At, extractVars, loadVars
<1>1. CASE UNCHANGED vars
  BY <1>1 DEF vars
<1>2. ASSUME NEW p \in Procs, Step(p) PROVE PlaceInv'
  <2> SUFFICES ASSUME NEW q \in Procs PROVE Place(q)'
    OBVIOUS
  <2>1. CASE Launch(p) \/ RelaunchElevated(p) \/ EnsureElevated(p)
    BY <2>1, ZenonT(40) DEF Launch, RelaunchElevated, EnsureElevated
  <2>2. ASSUME NEW f \in DriverFiles, Compare(p, f) PROVE Place(q)'
    <3>1. CASE files[f] = Build[p]
      <4>1. /\ todo'[p] = todo[p] \ {f} /\ \A i \in Procs : i # p => todo'[i] = todo[i]
            /\ pc[p] = "extract" /\ UNCHANGED <<pc, at, err, loadVars>>
        BY <2>2, <3>1 DEF Compare
      <4> QED BY <4>1
    <3>2. CASE files[f] # Build[p]
      <4>1. /\ at'[p] = f /\ pc'[p] = "open" /\ UNCHANGED <<todo, err, loadVars>>
            /\ pc[p] = "extract" /\ f \in todo[p]
            /\ \A i \in Procs : i # p => at'[i] = at[i] /\ pc'[i] = pc[i]
        BY <2>2, <3>2 DEF Compare
      <4> QED BY <4>1
    <3> QED BY <3>1, <3>2
  <2>3. CASE Truncate(p)
    BY <2>3 DEF Truncate
  <2>10. CASE Write(p)
    BY <2>10 DEF Write
  <2>4. ASSUME NEW error, Fails(p, error) PROVE Place(q)'
    BY <2>4 DEF Fails
  <2>5. CASE Extracted(p)
    BY <2>5 DEF Extracted
  <2>6. CASE LoadDLL(p)
    BY <2>6, OwnVersion DEF LoadDLL
  <2>7. CASE Open(p)
    <3>1. None \notin Loadable
      BY OwnVersion
    <3>2. kernel # None \/ kernel' \in Loadable
      BY <2>7 DEF Open
    <3>3. kernel # None => kernel' = kernel
      BY <2>7 DEF Open
    <3>4. kernel' # None
      BY <3>1, <3>2, <3>3
    <3> QED BY <2>7, <3>4 DEF Open
  <2>8. CASE Close(p)
    BY <2>8 DEF Close, Released
  <2>9. CASE Exit(p)
    BY <2>9 DEF Exit, Released
  <2> QED BY <1>2, <2>1, <2>2, <2>3, <2>4, <2>5, <2>6, <2>7, <2>8, <2>9, <2>10
      DEF Step, FailsLocked, FailsOnDisk
<1> QED BY <1>1, <1>2 DEF Next

(* What is loaded is not written, and what is written is not loaded.       *)
LEMMA LoadStep == TypeOK /\ PlaceInv /\ LoadInv /\ [Next]_vars => LoadInv'
<1> SUFFICES ASSUME TypeOK, PlaceInv, LoadInv, [Next]_vars PROVE LoadInv'
  OBVIOUS
<1> USE DEF TypeOK, LoadInv, Written, At, extractVars, loadVars
<1>1. CASE UNCHANGED vars
  BY <1>1 DEF vars
<1>2. ASSUME NEW p \in Procs, Step(p) PROVE LoadInv'
  <2>1. CASE Launch(p) \/ RelaunchElevated(p) \/ EnsureElevated(p)
    BY <2>1 DEF Launch, RelaunchElevated, EnsureElevated
  <2>2. CASE \E f \in DriverFiles : Compare(p, f)
    BY <2>2, ZenonT(40) DEF Compare
  <2>3. CASE Truncate(p)
    <3>1. at[p] \in DriverFiles /\ InUse(at[p]) = {}
      BY <2>3 DEF Truncate, PlaceInv, Place
    <3>2. at[p] = DLL => \A q \in Procs : image[q] = None
      BY <3>1 DEF InUse
    <3>3. at[p] = SYS => kernel = None
      BY <3>1 DEF InUse, DLL, SYS
    <3> QED BY <2>3, <3>1, <3>2, <3>3 DEF Truncate, DriverFiles, DLL, SYS
  <2>4. CASE Write(p)
    <3>1. at[p] \in DriverFiles /\ Written(at[p]) /\ pc[p] = "write"
      BY <2>4 DEF Write, PlaceInv, Place
    <3>2. /\ at[p] = DLL => \A q \in Procs : image[q] = None
          /\ at[p] = SYS => kernel = None
      BY <3>1
    <3>3. \A f \in DriverFiles : f # at[p] => files'[f] = files[f]
      BY <2>4, <3>1 DEF Write
    <3>4. \A f : Written(f)' => Written(f)
      BY <2>4, <3>1 DEF Write
    <3> HIDE DEF Written
    <3> QED BY <2>4, <3>2, <3>3, <3>4 DEF Write, DriverFiles, DLL, SYS
  <2>5. CASE FailsLocked(p) \/ FailsOnDisk(p) \/ Extracted(p)
    BY <2>5 DEF FailsLocked, FailsOnDisk, Fails, Extracted
  <2>6. CASE LoadDLL(p)
    BY <2>6 DEF LoadDLL
  <2>7. CASE Open(p)
    BY <2>7 DEF Open
  <2>8. CASE Close(p)
    BY <2>8 DEF Close, Released
  <2>9. CASE Exit(p)
    BY <2>9 DEF Exit, Released
  <2> QED BY <1>2, <2>1, <2>2, <2>3, <2>4, <2>5, <2>6, <2>7, <2>8, <2>9 DEF Step
<1> QED BY <1>1, <1>2 DEF Next

(* EnsureElevated tells an instance and those beside it of each other.     *)
LEMMA Meeting == ASSUME NEW p \in Procs, TypeOK, EnsureElevated(p), NEW q \in Procs, q # p
                 PROVE  /\ Beside(p, q) \subseteq met'[p]
                        /\ met'[q] = met[q] \cup Beside(p, q)
<1>1. met'[p] = UNION {Beside(p, r) : r \in Procs \ {p}}
  BY DEF EnsureElevated
<1>2. met'[q] = met[q] \cup Beside(p, q)
  BY DEF EnsureElevated
<1> QED BY <1>1, <1>2

(* An instance knows of those that may be in its way.                      *)
LEMMA MetStep == TypeOK /\ MetInv /\ [Next]_vars => MetInv'
<1> SUFFICES ASSUME TypeOK, MetInv, [Next]_vars PROVE MetInv'
  OBVIOUS
<1> USE DEF MetInv, Met, Present, Extracting
<1>1. CASE UNCHANGED vars
  BY <1>1 DEF vars
<1>2. ASSUME NEW p \in Procs, Step(p) PROVE MetInv'
  <2>1. CASE EnsureElevated(p)
    <3> SUFFICES ASSUME NEW q \in Procs, NEW r \in Procs
                 PROVE  Met(q, r)'
      OBVIOUS
    <3>1. pc[p] = "main" /\ pc'[p] = "extract" /\ \A i \in Procs : i # p => pc'[i] = pc[i]
      BY <2>1 DEF EnsureElevated, At, TypeOK
    <3>2. CASE q = p
      <4>1. Beside(p, r) \subseteq met'[p] \/ r = p
        BY <2>1, Meeting
      <4> QED BY <3>1, <3>2, <4>1 DEF Beside
    <3>3. CASE q # p
      <4>1. met'[q] = met[q] \cup Beside(p, q)
        BY <2>1, <3>3, Meeting
      <4> QED BY <3>1, <3>3, <4>1 DEF Beside
    <3> QED BY <3>2, <3>3
  <2>2. CASE ~EnsureElevated(p) /\ ~Exit(p)
    <3>1. met' = met
      BY <1>2, <2>2 DEF Step, Launch, RelaunchElevated, Compare, Truncate, Write, FailsLocked,
         FailsOnDisk, Fails, Extracted, LoadDLL, Open, Close, loadVars
    <3>2. /\ Present(p)' => Present(p)
          /\ Extracting(p)' => Extracting(p)
          /\ pc[p] \in {"none", "main"} => pc'[p] \in {"none", "main"}
          /\ \A i \in Procs : i # p => pc'[i] = pc[i]
      BY <1>2, <2>2, ZenonT(40) DEF Step, Launch, RelaunchElevated, Compare, Truncate, Write, FailsLocked,
         FailsOnDisk, Fails, Extracted, LoadDLL, Open, Close, extractVars, At, TypeOK
    <3> QED BY <3>1, <3>2
  <2>3. CASE Exit(p)
    <3>1. pc'[p] = "none" /\ \A i \in Procs : i # p => pc'[i] = pc[i] /\ met'[i] = met[i]
      BY <2>3 DEF Exit, TypeOK
    <3> SUFFICES ASSUME NEW q \in Procs, NEW r \in Procs PROVE Met(q, r)'
      OBVIOUS
    <3> QED BY <3>1
  <2> QED BY <2>1, <2>2, <2>3
<1> QED BY <1>1, <1>2 DEF Next

(* What an instance that takes no step keeps.                              *)
Same(q) == /\ pc'[q] = pc[q] /\ todo'[q] = todo[q] /\ at'[q] = at[q] /\ err'[q] = err[q]
           /\ met[q] \subseteq met'[q]
LEMMA OthersStay == ASSUME NEW p \in Procs, NEW q \in Procs, q # p, TypeOK, Step(p)
                    PROVE  Same(q)
<1> USE DEF Same, TypeOK, At, extractVars, loadVars
<1>1. CASE EnsureElevated(p)
  BY <1>1 DEF EnsureElevated
<1>2. CASE \E f \in DriverFiles : Compare(p, f)
  BY <1>2 DEF Compare
<1>3. CASE Launch(p) \/ RelaunchElevated(p) \/ Truncate(p) \/ Extracted(p)
  BY <1>3 DEF Launch, RelaunchElevated, Truncate, Extracted
<1>4. CASE Write(p)
  BY <1>4 DEF Write
<1>5. ASSUME NEW error, Fails(p, error) PROVE Same(q)
  BY <1>5 DEF Fails
<1>6. CASE LoadDLL(p) \/ Open(p) \/ Close(p)
  BY <1>6 DEF LoadDLL, Open, Close
<1>7. CASE Exit(p)
  BY <1>7 DEF Exit
<1> QED BY <1>1, <1>2, <1>3, <1>4, <1>5, <1>6, <1>7 DEF Step, FailsLocked, FailsOnDisk

(* The one that writes is in nobody's way unless that one knows.           *)
LEMMA FileStep == TypeOK /\ PlaceInv /\ MetInv /\ FileInv /\ [Next]_vars => FileInv'
<1> SUFFICES ASSUME TypeOK, PlaceInv, MetInv, FileInv, [Next]_vars PROVE FileInv'
  OBVIOUS
<1> USE DEF FileInv, File, Present, Extracting, Past
<1>1. CASE UNCHANGED vars
  BY <1>1 DEF vars, extractVars, loadVars
<1>2. ASSUME NEW p \in Procs, Step(p), NEW q \in Procs, q # p PROVE File(q)'
  <2>1. \A i \in Procs : i # p => Same(i)
    BY <1>2, OthersStay
  <2>2. CASE files' = files /\ (pc'[p] \in {"open", "write"} => pc[p] \in {"open", "write"})
    <3>1. Past(q)' = Past(q) /\ (DriverFiles \ todo[q])' = DriverFiles \ todo[q]
      BY <1>2, <2>1 DEF Same
    <3>2. \A i \in Procs : pc'[i] \in {"open", "write"} => pc[i] \in {"open", "write"}
      BY <2>1, <2>2 DEF Same
    <3>3. pc'[q] = pc[q] /\ err'[q] = err[q] /\ met[q] \subseteq met'[q]
      BY <1>2, <2>1 DEF Same
    <3> HIDE DEF Past
    <3> QED BY <2>2, <3>1, <3>2, <3>3
  <2>3. ASSUME NEW f \in DriverFiles, Compare(p, f), files[f] # Build[p] PROVE File(q)'
    <3>1. pc[p] = "extract" /\ UNCHANGED files
      BY <2>3 DEF Compare
    <3>2. Same(q)
      BY <1>2, <2>1
    <3>3. Present(q) /\ met[q] = {} /\ pc[q] = "ready" /\ err[q] = "" => FALSE
      BY <1>2, <2>3, <3>1 DEF PlaceInv, Place, MetInv, Met
    <3> QED BY <3>1, <3>2, <3>3 DEF Same
  <2>4. CASE Truncate(p) \/ Write(p)
    <3>1. pc[p] \in {"open", "write"} /\ at[p] \in DriverFiles
      BY <2>4 DEF Truncate, Write, At, PlaceInv, Place, TypeOK
    <3>2. Same(q)
      BY <1>2, <2>1
    <3>3. ASSUME Present(q), err[q] = "", met[q] = {} PROVE FALSE
      BY <1>2, <3>1, <3>3 DEF MetInv, Met
    <3>4. ASSUME Present(q), err[q] = "", "other" \notin met[q], NEW f \in Past(q)
          PROVE  files'[f] \in {Build[q], "empty"}
      <4>1. files[f] \in {Build[q], "empty"} /\ Build[p] = Build[q]
        BY <1>2, <3>1, <3>4 DEF MetInv, Met
      <4>2. CASE Truncate(p)
        BY <3>1, <4>1, <4>2 DEF Truncate, TypeOK
      <4>3. CASE Write(p)
        BY <3>1, <4>1, <4>3, ZenonT(40) DEF Write, Over, TypeOK
      <4> QED BY <2>4, <4>2, <4>3
    <3> QED BY <3>2, <3>3, <3>4 DEF Same
  <2>5. ASSUME ~(Truncate(p) \/ Write(p)),
               \A f \in DriverFiles : Compare(p, f) => files[f] = Build[p]
        PROVE  files' = files /\ (pc'[p] \in {"open", "write"} => pc[p] \in {"open", "write"})
    BY <1>2, <2>5, ZenonT(40) DEF Step, Launch, RelaunchElevated, EnsureElevated, Compare, FailsLocked,
       FailsOnDisk, Fails, Extracted, LoadDLL, Open, Close, Exit, At, extractVars, TypeOK
  <2> QED BY <2>2, <2>3, <2>4, <2>5
<1>3. ASSUME NEW p \in Procs, Step(p) PROVE File(p)'
  <2>1. CASE Launch(p) \/ RelaunchElevated(p) \/ EnsureElevated(p)
    BY <2>1, ZenonT(40) DEF Launch, RelaunchElevated, EnsureElevated, At, extractVars, TypeOK
  <2>2. ASSUME NEW f \in DriverFiles, Compare(p, f) PROVE File(p)'
    <3>1. CASE files[f] = Build[p]
      <4>1. todo'[p] = todo[p] \ {f} /\ UNCHANGED <<pc, at, files, err, met>> /\ pc[p] = "extract"
        BY <2>2, <3>1 DEF Compare, TypeOK
      <4> QED BY <3>1, <4>1
    <3>2. CASE files[f] # Build[p]
      BY <2>2, <3>2, ZenonT(40) DEF Compare, At, TypeOK
    <3> QED BY <3>1, <3>2
  <2>3. CASE Truncate(p)
    BY <2>3, ZenonT(40) DEF Truncate, At, extractVars, PlaceInv, Place, TypeOK
  <2>4. CASE Write(p)
    <3>1. pc[p] = "write" /\ pc'[p] = "extract" /\ at[p] \in DriverFiles
      BY <2>4, ZenonT(40) DEF Write, At, PlaceInv, Place, TypeOK
    <3>2. /\ UNCHANGED <<err, met>> /\ todo'[p] = todo[p] \ {at[p]}
          /\ files'[at[p]] \in Over(files[at[p]], Build[p])
          /\ \A f \in DriverFiles : f # at[p] => files'[f] = files[f]
      BY <2>4, <3>1 DEF Write, TypeOK
    <3> QED BY <3>1, <3>2 DEF Over
  <2>5. ASSUME NEW error \in {"disk", "lock"}, Fails(p, error) PROVE File(p)'
    BY <2>5 DEF Fails, TypeOK
  <2>6. CASE Extracted(p)
    <3>1. /\ pc[p] = "extract" /\ todo[p] = {} /\ pc'[p] = "ready"
          /\ \A i \in Procs : i # p => pc'[i] = pc[i]
          /\ UNCHANGED <<files, todo, err, met>>
      BY <2>6 DEF Extracted, At, extractVars, TypeOK
    <3>2. met[p] = {} => \A i \in Procs : pc'[i] \notin {"open", "write"}
      BY <3>1 DEF MetInv, Met
    <3> QED BY <3>1, <3>2
  <2>7. CASE LoadDLL(p) \/ Open(p) \/ Close(p)
    BY <2>7, ZenonT(40) DEF LoadDLL, Open, Close, extractVars
  <2>8. CASE Exit(p)
    BY <2>8 DEF Exit, TypeOK
  <2> QED BY <1>3, <2>1, <2>2, <2>3, <2>4, <2>5, <2>6, <2>7, <2>8 DEF Step, FailsLocked, FailsOnDisk
<1> QED BY <1>1, <1>2, <1>3 DEF Next

(* Only one of its own version makes a file an instance's own.             *)
LEMMA OpenStep == TypeOK /\ PlaceInv /\ MetInv /\ OpenInv /\ [Next]_vars => OpenInv'
<1> SUFFICES ASSUME TypeOK, PlaceInv, MetInv, OpenInv, [Next]_vars PROVE OpenInv'
  OBVIOUS
<1> USE DEF OpenInv
<1>1. CASE UNCHANGED vars
  BY <1>1 DEF vars, extractVars
<1>2. ASSUME NEW p \in Procs, Step(p), NEW q \in Procs, pc'[q] = "open", "same" \notin met'[q]
      PROVE  files'[at'[q]] # Build[q]
  <2>1. CASE q = p
    <3>1. PICK f \in DriverFiles : Compare(p, f) /\ files[f] # Build[p]
      <4>1. PICK f \in DriverFiles : Compare(p, f)
        <5>1. image[p] # None \/ handle[p] => pc[p] = "ready"
          BY DEF PlaceInv, Place
        <5> QED BY <1>2, <2>1, <5>1 DEF Step, Launch, RelaunchElevated, EnsureElevated, Truncate,
                Write, FailsLocked, FailsOnDisk, Fails, Extracted, LoadDLL, Open, Close, Exit, At,
                loadVars, TypeOK
      <4> QED BY <1>2, <2>1, <4>1 DEF Compare, At
    <3> QED BY <2>1, <3>1 DEF Compare, TypeOK
  <2>2. CASE q # p
    <3>1. Same(q)
      BY <1>2, <2>2, OthersStay
    <3>2. pc[q] = "open" /\ "same" \notin met[q] /\ files[at[q]] # Build[q] /\ at'[q] = at[q]
          /\ at[q] \in DriverFiles
      BY <1>2, <3>1 DEF Same, PlaceInv, Place, TypeOK
    <3>3. CASE Truncate(p)
      BY <3>2, <3>3, OwnVersion DEF Truncate, PlaceInv, Place, TypeOK
    <3>4. CASE Write(p)
      <4>1. Build[p] # Build[q]
        BY <2>2, <3>2, <3>4 DEF Write, At, MetInv, Met, Extracting
      <4>2. Build[q] \notin Over(files[at[p]], Build[p])
        BY <4>1, OwnVersion DEF Over
      <4>3. at[p] \in DriverFiles
        BY <3>4 DEF Write, At, PlaceInv, Place, TypeOK
      <4>4. CASE at[p] = at[q]
        <5>1. files'[at[p]] \in Over(files[at[p]], Build[p])
          BY <3>4, <4>3 DEF Write, TypeOK
        <5> QED BY <3>2, <4>2, <4>4, <5>1
      <4>5. CASE at[p] # at[q]
        BY <3>2, <3>4, <4>3, <4>5 DEF Write, TypeOK
      <4> QED BY <4>4, <4>5
    <3>5. ASSUME ~Truncate(p), ~Write(p) PROVE files' = files
      BY <1>2, <3>5 DEF Step, Launch, RelaunchElevated, EnsureElevated, Compare, FailsLocked,
         FailsOnDisk, Fails, Extracted, LoadDLL, Open, Close, Exit
    <3> QED BY <3>2, <3>3, <3>4, <3>5
  <2> QED BY <2>1, <2>2
<1> QED BY <1>1, <1>2 DEF Next

-----------------------------------------------------------------------------
LEMMA Invariant == Spec => []Inv
<1>1. Inv /\ [Next]_vars => Inv'
  BY TypeStep, PlaceStep, LoadStep, MetStep, FileStep, OpenStep DEF Inv
<1> QED BY InvInit, <1>1, PTL DEF Spec

(* Every variable stays within its type: what the files hold, where each   *)
(* instance is, what it has loaded, and whom it has met.                   *)
THEOREM DriverTypeCorrect == Spec => []TypeOK
<1>1. Inv => TypeOK
  BY DEF Inv
<1> QED BY Invariant, <1>1, PTL

(* An instance that has extracted without an error has its own files, and  *)
(* captures with its own DLL and driver while it meets no other version,   *)
(* whatever crashes and failed writes left behind.                         *)
THEOREM OwnDriverCorrect == Spec => []OwnDriver
<1>1. Inv => OwnDriver
  <2> SUFFICES ASSUME Inv, NEW p \in Procs, pc[p] = "ready", err[p] = ""
               PROVE  /\ met[p] = {} => \A f \in DriverFiles : files[f] = Build[p]
                      /\ "other" \notin met[p] /\ handle[p] =>
                           image[p] = Build[p] /\ kernel = Build[p]
    BY DEF OwnDriver
  <2>1. todo[p] = {} /\ Present(p) /\ File(p)
    BY DEF Inv, PlaceInv, Place, FileInv, Present
  <2>2. met[p] = {} => \A f \in DriverFiles : files[f] = Build[p]
    BY <2>1 DEF File
  <2>3. ASSUME "other" \notin met[p], handle[p] PROVE image[p] = Build[p] /\ kernel = Build[p]
    <3>1. \A f \in DriverFiles : files[f] \in {Build[p], "empty"}
      BY <2>1, <2>3 DEF File, Past
    <3>2. image[p] = files[DLL] /\ kernel = files[SYS]
      BY <2>3 DEF Inv, PlaceInv, Place, LoadInv
    <3>3. image[p] # "empty" /\ kernel # "empty"
      <4>1. image[p] \in Loadable /\ kernel \in Loadable
        BY <2>3 DEF Inv, TypeOK, PlaceInv, Place
      <4> QED BY <4>1, OwnVersion
    <3> QED BY <3>1, <3>2, <3>3 DEF DriverFiles, DLL, SYS
  <2> QED BY <2>2, <2>3
<1> QED BY Invariant, <1>1, PTL

(* ExtractDriver meets a lock only on a file of another version, or when   *)
(* an instance of its own version has been extracting beside it.           *)
THEOREM NoLockFightCorrect == Spec => NoLockFight
<1>1. Inv => \A p \in Procs : FailsLocked(p) /\ "same" \notin met[p] => Build[p] \notin InUse(at[p])
  <2> SUFFICES ASSUME Inv, NEW p \in Procs, pc[p] = "open", "same" \notin met[p],
                      Build[p] \in InUse(at[p])
               PROVE  FALSE
    BY DEF FailsLocked
  <2>1. files[at[p]] # Build[p] /\ at[p] \in DriverFiles
    BY DEF Inv, OpenInv, PlaceInv, Place, TypeOK
  <2>2. InUse(at[p]) \subseteq {files[at[p]]}
    BY <2>1 DEF Inv, LoadInv, InUse, DriverFiles, DLL, SYS
  <2> QED BY <2>1, <2>2
<1> QED BY Invariant, <1>1, PTL DEF NoLockFight
=============================================================================
