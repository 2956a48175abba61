----------------------------- MODULE EngineSlot -----------------------------
(***************************************************************************)
(* What tray.Manager promises its callers: one slot that holds at most one *)
(* configuration, every operation of which happens at a single instant     *)
(* between its call and its return.  The tray (module Tray) is written     *)
(* against this specification; module Manager is shown to implement it.    *)
(***************************************************************************)
CONSTANTS Callers, Configs, Invalid, None

VARIABLES
  active,    \* the configuration in force, None when nothing runs
  pending,   \* the call each caller is making, None when it makes none
  ret        \* what its last call returned

vars == <<active, pending, ret>>

Requests == [op : {"Apply"}, cfg : Configs] \cup [op : {"Stop", "Running"}, cfg : {None}]

Init ==
  /\ active = None
  /\ pending = [c \in Callers |-> None]
  /\ ret = [c \in Callers |-> "none"]

Call(c, r) ==
  /\ pending[c] = None
  /\ pending' = [pending EXCEPT ![c] = r]
  /\ ret' = [ret EXCEPT ![c] = "none"]
  /\ UNCHANGED active

Return(c, now, result) ==
  /\ active' = now
  /\ ret' = [ret EXCEPT ![c] = result]
  /\ pending' = [pending EXCEPT ![c] = None]

(* Apply replaces what was running, or leaves nothing running.             *)
Apply(c) ==
  /\ pending[c] # None
  /\ pending[c].op = "Apply"
  /\ \/ pending[c].cfg \notin Invalid /\ Return(c, pending[c].cfg, "ok")
     \/ Return(c, None, "error")

Stop(c) ==
  /\ pending[c] # None
  /\ pending[c].op = "Stop"
  /\ Return(c, None, "ok")

Running(c) ==
  /\ pending[c] # None
  /\ pending[c].op = "Running"
  /\ Return(c, active, IF active = None THEN "false" ELSE "true")

Next == \E c \in Callers :
  (\E r \in Requests : Call(c, r)) \/ Apply(c) \/ Stop(c) \/ Running(c)

Spec == Init /\ [][Next]_vars
=============================================================================
