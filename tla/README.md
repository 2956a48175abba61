# Skvoz in TLA+

Skvoz is a Windows program that makes a DPI box miss the host name of a TLS
connection: it captures outbound packets with the WinDivert driver, rewrites the
segment that holds the ClientHello (cuts it, reverses the halves, puts a decoy in
front) and re-injects the rest untouched. It runs as a tray application, as a
foreground command or as a Windows service. This directory holds TLA+ models of
its components, TLC configurations that check them on small instances, and
proofs, checked by TLAPS, of what holds for every instance.

Paths below are relative to the repository (`internal/...`, `cmd/...`).

## 1. The system

| Component | Code | State | Operations |
|---|---|---|---|
| engine manager | `internal/tray/manager.go` | `mu`, `src`, `running` | `Apply`, `Stop`, `Running` |
| packet source | `internal/divert/windivert_windows.go` | `w.handle`; in the kernel: the handle, its queue | open, `Recv`, `Send`, `Close` |
| engine | `internal/engine/engine.go` | configuration, lists | `New`, `Run` (loop), `Process` |
| desync strategies | `internal/desync/desync.go` | none | `Apply` of split, disorder, fake, fakedsplit |
| tray application | `internal/tray/tray_windows.go` | `u.state`, status line, menu | `onReady`, menu loop, `reconfigure` goroutines |
| strategy selection | `internal/autopick`, `internal/prober` | none | `Candidates`, `Select`, `Probe` |
| settings | `internal/settings/settings.go` | `config.json` | `Save`, `Load` |
| autostart | `internal/winenv/autostart_windows.go` | the logon task, the checkbox | enable, disable, query |
| elevation, driver files | `internal/winenv/elevate_windows.go`, `driver.go` | the unpacked `WinDivert.dll` and `.sys` | `EnsureElevated`, `ExtractDriver` |
| command line, service | `cmd/skvoz/main.go`, `internal/service/service_windows.go` | channels `stop`, `done`; service status in the SCM | `run`, `Execute`, `Install`, `Uninstall` |
| configuration | `internal/config/config.go` | none | `Parse`, `Validate`, `Filter`, `Args` |
| host list | `internal/hostlist/hostlist.go` | set of domains | `Add`, `LoadReader`, `Match` |
| ClientHello parser | `internal/tls/clienthello.go` | none | `IsClientHello`, `ParseClientHello`, `BuildClientHello` |
| packet codec | `internal/packet/packet.go` | none | `ParseTCP`, `Serialize`, `ParseUDP`, checksums |
| QUIC detection | `internal/quic/quic.go` | none | `IsInitial` |
| embedded lists, console, icon, stubs | `internal/assets`, `internal/winenv/console_windows.go`, `*_other.go` | none | constants, single Win32 calls |

How they interact:

- The tray's menu loop is one goroutine. Every click on a target or on "check"
  starts a `reconfigure` goroutine (a *sweep*): it reads the enabled targets,
  calls `Apply` for one candidate strategy after the other, probes, and stores
  and saves the first that works. Sweeps may overlap; nothing but the manager's
  mutex orders them.
- `Apply` closes the source of the old engine, opens a new one and starts a
  goroutine that runs `engine.Run` on it. Nobody waits for the old goroutine, and
  it reads `w.handle` without a lock.
- `engine.Run` receives a packet, calls `Process` and sends what it returns, one
  `Send` after the other.
- The foreground process and the service run the same closure; a stop request
  closes a channel, which closes the handle, which ends `Run`, which ends the
  process. The service is started with a command line that `Args` has written and
  `Parse` reads again, in another directory.
- A tray instance without rights starts an elevated copy of itself and ends. Each
  instance unpacks the driver into one directory that all instances share, of
  whatever version they are; nothing keeps two of them from running.

What is hard in it, and what makes each component correct:

- *Interleaving of the manager and its engine goroutines*: at most one handle
  captures, none is orphaned, no packet is lost but by a close or a send that fails,
  a stopped engine takes one packet of the next at most, a closed engine ends.
- *Overlapping sweeps*: engine, targets, settings and status line agree.
- *Crashes around the settings file*: what the user chose survives.
- *Loss, reordering, retransmission of the cut ClientHello*, by an engine that is
  restarted meanwhile: the server's stream is the client's, the connection gets
  through, the DPI box does not see the name.
- *Stop requests that come at any moment*, engines that die: processes end, the
  stop channel is closed once, uninstalling stops the service.
- *Configurations that travel* (into the settings file, the logon task, the service's
  command line): what is started later is what was chosen.
- *Files that are unpacked while others load them*, an update while the old version
  runs, a crash in the middle: the driver that captures is whole and its own.

`PROJECT.json` lists the hazards line by line, with the properties that cover each.

## 2. Modules

```
EngineSlot <--refines-- Manager <-- ManagerProofs
    .                      ^-- MCManager (2 configurations)
    . (used as one step)
Settings <-- Tray <-- TrayProofs
                ^-- MCTray (3 configurations)
Strategy <-- Desync <-- Delivery <-- DeliveryProofs
    ^         ByteStream <-'    ^-- MCDelivery (2 configurations)
    |           (refined)
    '------ Engine <-- MCEngine (1 configuration)
               ^------ EngineProofs --> ClientHelloProofs --> PacketProofs
Bytes <-- Packet, ClientHello <-- Engine;  HostList, Config <-- Engine
Config <-- Daemon <-- DaemonProofs
              ^------ MCDaemon (3 configurations)
Driver <-- DriverProofs
  ^------- MCDriver (1 configuration)
```

**Manager** models `manager.go` together with the loop of `engine.Run` and the
source's four driver calls. A caller is at a program point `pc`; an action is a
stretch of code that no other goroutine can observe in the middle: lock, close the
handle, clear the fields, build the engine, open the source, unlock. The close is
two actions (`CloseHandle`, `ClearSource`) because `w.handle` is zeroed after
`WinDivertClose`, and each driver call of the goroutine is two (`RecvLoad`,
`RecvIssue`; `SendLoad`, `SendIssue`) because the argument is read before the
kernel is entered. `table` is the kernel's handle table, `reg` the value a
goroutine has read; a value that was closed may be given to the next source. `Faults`
says whether a receive (`RecvFault`) or a send (`SendFault`) may fail on an open handle.
What `Process` decides is a number of packets, 0 to `MaxOut`.

**EngineSlot** is what the manager promises: one slot with the configuration in
force, and calls that take effect at one instant between call and return.

**Settings** has `Save` (truncate, then write at offset 0, with what a failed write
leaves: `Remains`), `Load` with its outcomes (absent, does not parse, read), and Go strings
as pointer and length, so that two unsynchronised assignments may tear. **Tray** composes it with the menu loop,
the sweeps, autostart, quit and crash. A save may fail before or after the truncation
and a launch may be unable to read the file, and, as in the code, nobody looks at the
error. The manager is the slot of `EngineSlot`, one
step per call. `Apply` is atomic there because `Manager` implements `EngineSlot`.

**Strategy** has the four strategies on segments whose payload is an interval of some
stream or a decoy of the same length; sequence numbers are unsigned and wrap at
`SeqSpace`. **Desync** is the TCP path of `Process` for the segments of one connection,
with the outcome of parsing and matching given by constants. **Delivery** puts it between a client's TCP (first
transmission in order, retransmission from the first unacknowledged byte, with
other segment boundaries), a path and a server (the first copy of a byte wins).
The engine can be closed at any moment and started with another strategy.
**ByteStream** is what the connection owes its ends: the server gets the client's own
bytes, each at its place and not before it is sent, keeps them, and acknowledges no
other; `Delivery` implements it with `nxt`, `una` and `rcvd` as its three variables.

**Engine** is all of `Process` for one packet, on bytes: **Packet** (`ParseTCP`,
`Serialize`, `ParseUDP`, the checksums, the QUIC test), **ClientHello** (the parser and
`BuildClientHello`), **HostList** (`LoadReader`, `Match`) and the same `Strategy`, whose
segments `Render` turns into packets. Fields that are only copied are kept as the bytes
they are; a `uint32` is a pair of halves. A line of a list is read, an engine built, a
packet received and its replacements injected per step. Loops of the code over a slice
are recursive functions, or a quantifier where only the outcome matters (`Match`).

**Config** is the command line: `Parse` with `Validate`, the `Filter` the driver is
opened with, `Args`, and the command line `installService` gives the service. A text
(a list of files or ports) is a sequence of words, commas and blanks, so that splitting,
trimming and joining are what they are in the code; a path is a sequence of words that
may itself hold commas and blanks, absolute if it begins with `Root`.

**Daemon** has the foreground process and the service process side by side, the
SCM's status and pending request, `Execute`, and the install and uninstall commands.
Each process begins with a command line (`Lines`) typed in some directory, or with the
one the service was installed with and the directory of services; which lists it can load
depends on that (`Files`).

**Driver** is the way of a tray instance to its handle: `EnsureElevated`, `ExtractDriver`
(read and compare, truncate, write, file by file in any order), the loading of the DLL and
of the kernel driver, close, exit and crash; several instances of several versions share
files, kernel and locks. In `Tray` this is a start that may fail.

The definitions under "with a plausible bug" in each module are variants of the
actions next to them. No specification uses them; each one, put in place of its
action, makes a property of the module fail, which shows that the property is about
the code.

## 3. Runs

| Run | Configuration | Outcome | States, time |
|---|---|---|---|
| `manager_safety` | `MCManager.cfg` | holds | 1.1 M, 105 s |
| `manager_restart` | `MCManagerRestart.cfg` | holds | 0.1 M, 30 s |
| `tray_overlap` | `MCTray.cfg` | holds | 1.7 M, 45 s |
| `tray_alone` | `MCTrayAlone.cfg` | holds | 0.7 M, 115 s |
| `tray_choices` | `MCTrayChoices.cfg` | violated | seconds |
| `delivery` | `MCDelivery.cfg` | holds | 30 k, 28 s |
| `delivery_near` | `MCDeliveryNear.cfg` | violated | seconds |
| `engine` | `MCEngine.cfg` | holds | 13 k, 80 s |
| `daemon` | `MCDaemon.cfg` | holds | 22 k, 17 s |
| `daemon_uninstall` | `MCDaemonUninstall.cfg` | violated | seconds |
| `daemon_args` | `MCDaemonArgs.cfg` | violated | seconds |
| `driver` | `MCDriver.cfg` | holds | 0.9 M, 40 s |

**manager_safety.** Two callers that make any calls in any order, a good and a bad
configuration, two opens, HANDLE values that the system may give out again, receives and
sends that fail on an open handle. `ExclusiveCapture` (no packet is diverted twice),
`NoOrphanSource`, `FailedApplyLeavesNothing`, `LossNeedsClose` (fail-open: a packet is lost
around a close, or because the driver refuses it, which `Run` logs), `RunningUnlessFailed`
(what a `Running` that reads true does mean), and the refinement `ImplementsSlot`.
`MutualExclusion` says besides that no call returns with the lock held, and `StrayTakesOne` how
far a recycled value leads: a goroutine that has taken a packet of another source never waits
for a second one, because `w.handle` is zero when it reads it again. Two callers are what a
mutex needs to go wrong, two sources what a restart needs; a third source adds a second
restart of the same kind.

**manager_restart.** A restart by one caller, with every fault and HANDLE values that are
recycled: `QueueDrains` (no packet stays in a queue, unless its reader has left `Run` after
a failed receive) and `ClosedEngineExits` (the goroutine of a closed source ends, or a
recycled value has made it wait for a packet of another open source). One caller, because
the goroutines, and not the callers, are what these properties are about; they do not even
need a caller that makes progress.

**tray_overlap.** Two sweeps and all that can overlap them. A sweep that then runs
by itself leaves engine, targets, strategy and status line in agreement, torn
strings and stale files notwithstanding (`InForce`), and picks a candidate that
works (`PickedWorks`). While sweeps overlap, and after them until one runs by itself, the
engine may run for the targets of an earlier click: of two sweeps the one that read the
older targets may apply last.

**tray_alone.** One sweep at a time, but every kind of menu item and every failure:
what the next launch would load is what is in memory unless the last save or load failed
(`Remembered`: every save that succeeds repairs what failed ones and crashes have left), and a
toggle of autostart brings checkbox, memory, file and logon task together, also when
`schtasks` fails or an earlier toggle was cut off between task and file (`AutostartAgrees`: the
checkbox is on exactly if there is a task, unless the query failed, when it is off; the file
says the same, with the provisos of `Remembered`). Sweeps end (`SweepsEnd`). A click during a
sweep is remembered in `mixed`, a failed save or load in `parted`, a failed query in `denied`.
Two candidates, of which the second works, are enough for one that is passed over, one that is
picked, and none that is.

**delivery.** A stream of five bytes in two segments, the name in the first, sequence
numbers modulo 8 starting at 6 so that the cut falls on the wrap, four candidate
strategies, a path that loses, duplicates and reorders, one restart of the engine
with any strategy. `StreamIntact`, `NameHidden`, `Misled`, `Delivered` and the
refinement `ImplementsStream`. `Misled` is about the packet at hand: `shown` is what the DPI
box has been shown of it since `Process` took it up, so that nothing sent for an earlier one
counts, and for "fake" and "fakedsplit" only decoys do. Five
bytes are one before the name, two of the name, one after it and one in the second
segment: every place a cut can fall is there. Deadlock is not checked because the
connection ends when everything is acknowledged.

**engine.** Two prefixes of a list file with a comment, a line that is only a dot, and
entries with blanks (a tab among them), upper case and a trailing dot; four configurations;
some 1700 packets. Every host name of up to four letters of "a", "B" and ".". ClientHellos to a
listed host and to one that only looks like it, each with and without a session id, other
extensions before the name, IP and TCP options and padding, to ports of some configurations
and of none, in both directions. The first segment of one to a listed host, cut at every byte.
That message with one byte replaced, at every place, by five values. UDP datagrams of every
header form, version and length around the QUIC test. The sequence number is six short of the
wrap at 2^32. `TargetsFound` (rewritten exactly if the segment has the whole name of a
listed host), `OnlyInitialsDropped`, `Reassembles` (real parts are the original's bytes at
their sequence numbers, all of them, under its headers), `ChecksumsValid`, `NameCut`,
and `FilterCovers`: the driver's filter selects every packet that `Process` changes, for
configurations with various ports and both QUIC modes. So packets with options, with padding
or with bytes behind the name are among those that are rewritten, and `Reassembles` and
`NameCut` are about them too. The headers that `Reassembles` compares are the fields
`ParseTCP` keeps: the reserved bits of the TCP header are not, and `Serialize` writes zeros.
They are stated about what the sender meant and what the bytes say, not with the
operators of the code. TLC stops with an error when an offset outside a slice is used,
so the run also shows that none is on these packets: the `recover()` of `Process` is
never needed. `TargetsFound` for cut messages is what `HasSNI` of `Desync` assumes; theorem
`NameFound` says so of every ClientHello.

**daemon.** Both processes, every failure, restarts of the machine at any moment, and
command lines with every option, repeated ones, operands, blanks, wrong values, relative and
absolute lists: `ClosedOnce`, `CleanExit`, `StopEnds`, `DeadEngineNoticed`, and
`ServiceAsInstalled`: whichever process of the service runs has the configuration that was
asked for, its list files resolved where the command was typed. The state space is finite as
it stands; the command lines are the only choice. `daemon_args` has one more directory, with a
comma in its name.

**driver.** Two instances of one version and one of another, so that double-clicks, an update
beside a running instance and a downgrade are all there; failing writes, denied elevation,
crashes anywhere. `OwnDriver`: after an `ExtractDriver` without an error both files are whole
and the instance's own, and what it captures with is its own DLL and driver, until another
version is launched beside it. `NoLockFight`: if a lock stops it, the loaded file is of another
version or an instance of its own was unpacking at the same time. What they do not say is what
the code does not do: after an error, which is only logged, or with two versions at once, DLL
and driver may be of different versions.

### Bounds

`Sources` bounds how often an engine is opened, `Handles` the values a HANDLE can have, and
`Packets` how many are captured (Manager); `Sweeps` how many sweeps run at once, `Tried` how many candidates each
tries, `Buttons` what is clicked (Tray); `MaxQueue` the captured packets, `MaxNet` the
packets between DPI box and server, `MaxStarts` the engine's starts, `Mss` and `N` the
segments, `SeqSpace` the sequence numbers (Delivery); `Procs` the instances that live at
once (Driver). Timeouts are not counted: the
60 seconds of a sweep may be over before any candidate (`TimeOut`), and a probe's
5 seconds are a probe that fails.

### Fairness

- *Manager*: weak fairness for every step of an engine goroutine (Go schedules every
  runnable goroutine). No call, packet or fault is ever due, nor that a call that has begun
  goes on.
- *Tray*: weak fairness for the menu loop's pending work and for each sweep. A probe
  ends by its deadline.
- *Delivery*: the client's TCP sends and retransmits as long as needed, the engine's
  goroutine runs, a packet that is sent again and again gets through some time. It is
  strong for `Transmit` and `Retransmit` because the bounds `MaxQueue` and `MaxNet`
  disable them now and then, and strong for needed packets because loss is otherwise
  unlimited. Starting and closing the engine is never due, and may happen only
  `MaxStarts` times: with an engine restarted for ever no delivery could be promised.
- *Daemon*: weak fairness for every goroutine; strong for `HandleStop` and
  `HandleDone`, the cases of a `select` that another ready case may beat any one time
  but not for ever; `WinDivertRecv` returns once its handle is closed.

### Where code and documents disagree

Four runs end in a violation of what a comment says.

1. `tray_choices`: *"remembers the user's choices between launches"*
   (`settings.go:1-3`). A process that ends between the truncation and the write leaves
   an empty file; the next launch then has nothing enabled. A write that fails there, whose
   error nobody looks at, leaves the same.
2. `delivery_near`: *"small enough to expire before the real server"*
   (`desync.go:21-22`), *"it never reaches the server"* (`:88`). The TTL is fixed, so a
   nearer server takes the decoy's zero bytes for the ClientHello.
3. `daemon_uninstall`: *"Uninstall stops and removes the service"*
   (`service_windows.go:80`). A service that has not reported Running refuses the
   stop; the error is ignored and its process stays.
4. `daemon_args`: *"Args reproduces the command-line flags ... that recreate this
   configuration"* (`config.go:151-152`). List paths are joined with commas and split at
   commas; installed from a directory with a comma in its name, the service never starts.

Two more comments say more than the code does. `Manager` states what they say, and the
runs check the weaker properties that do hold; with the stated ones in place of those, TLC
finds a counterexample in seconds.

- `OwnPackets`: *"Any previously running engine is stopped first"* (`manager.go:37-38`). Its
  goroutine is not waited for. If it has read `w.handle` before the close, and the next
  source is given the same value, it takes a packet of the next engine, treats it by the old
  configuration, and cannot send it: `w.handle` is zero by then. The stretch between reading
  the value and the driver call is a few instructions long. What holds is `StrayTakesOne`.
- `TruthfulRunning`: *"Running reports whether an engine is currently active"*
  (`manager.go:72`). After a failed receive the goroutine is gone, but `running` stays set and
  the handle open, and `Running` (which only tests call) says true, while what the handle
  captures goes nowhere. What holds is `RunningUnlessFailed`.

## 4. Proofs

`tlapm` on `ManagerProofs`, `TrayProofs`, `DeliveryProofs`, `DaemonProofs`, `DriverProofs`,
`PacketProofs`, `ClientHelloProofs` and `EngineProofs` checks every theorem from the
definitions, for all values of the constants that satisfy the named assumptions. A theorem
about a specification may have a hypothesis about the constants besides; each of them is
named below, with what it excludes. `PROJECT.json` lists the theorems one by one.

**ManagerProofs.** The safety properties are not inductive. `Inv` adds: `WorkInv` (a
goroutine that is sending holds a packet and has sends left), `OpInv` (which program
points go with which operation), `RegistryInv` (whatever the kernel captures for is
the registered source, under the value in its `w.handle`), `PhaseInv` (what `src`,
`running` and the table are at each program point of the caller that holds the mutex),
`CallInv` (results and the history variable `shown`), `EngineInv` and `ReaderInv` (what
a goroutine at each point has in `reg`, `at` and `held`), and `StrayInv` (a goroutine that has
taken another source's packet is one whose source was closed, and never receives again).
From it follow `TypeOK`, `MutualExclusion`, `ExclusiveCapture`, `NoOrphanSource`,
`FailedApplyLeavesNothing`, `RunningUnlessFailed` (theorem `RunningMeans`), `StrayTakesOne`
(`StraysEnd`) and `LossNeedsClose`, and `ImplementsSlot`, by a step simulation: every step of
`Manager` is a step of `EngineSlot` or a stutter. No theorem has a hypothesis: receives and
sends may fail, and HANDLE values may be given out again, at any time.

**DeliveryProofs.** `StreamIntact` for streams, names, segment sizes, initial sequence
numbers, strategies and TTLs of any kind, under one assumption, `DecoysDie`: each
configuration's TTL is less than the distance of the server - exactly what
`delivery_near` shows to be needed. The invariant `SoundInv` says that every real
segment, wherever it is (queued, being sent, on the path), has the sequence number of
its first byte, and that decoys are nowhere beyond the DPI box. The lemmas follow the
code: `PlusPlus` (32-bit addition associates), `HalvesSound` (both halves of `splitAt`
are sound), `ClampInside` (the cut is inside the payload), `ProcessSound`. `StreamImplemented`: under the same
assumption `Delivery` implements `ByteStream`. For that the invariant also says that no
segment anywhere holds a byte that has not been sent (`seg.to <= nxt`); each step of the
client, the engine, the path and the server is then a step of the byte stream or none.
`NameStaysHidden`: `NameHidden`, under `DecoysDie` and `NameInFirst` (the name is listed, has
at least two bytes, lies in the first segment and is cut in the middle). One segment is not
enough for the argument, because a retransmission may begin anywhere the server has
acknowledged; `NameInv` says where that can be: `una` is 0 or behind the first byte of the
name, `nxt` is 0 or behind the name, every segment on its way begins with the stream and
reaches into the name or begins behind the name's first byte, and the server has all of
the stream up to that byte or nothing of it. So what the engine meets is either a
whole ClientHello, which it recognises and cuts, or bytes that do not hold the name.
`BoxMisled`: `Misled`, for every path, strategy and cut, under `FakesReachBox`: the TTL of
each configuration's decoys is at least the distance of the DPI box (a smaller one, which the
user may choose, has no effect). The property
speaks of one instant, and the invariant `LeadInv` of what `Process` returned and has not
been injected yet. After a decoy strategy (`DecoyLed`): every part is within the packet, a
decoy is all of it and reaches the box, and what is left begins with a decoy or the box has
been shown one (or missed something). After
"disorder" (`EndLed`): what is left ends where the packet does, or is the first half, behind
an end that the box has seen. Neither says
what the box saw for an earlier packet, because it need not have been misled then: each
segment that is taken up, a retransmission too, starts its own argument.

**DaemonProofs.** `TypeOK`, `ClosedOnce`, `CleanExit` and `ServiceAsInstalled`, whatever may fail. `TypeOK` says
that `stop` is closed at most once but not why, so the invariant adds: `SignalInv` (once
the goroutine that waits for Ctrl+C has closed `stop` it has ended), `HandlerInv` (once
`Execute` has closed `stop` it is past its loop; a service that can be started has no
process) and `HandleInv` (only a stop request closes a handle, hence exit code 0).
`ServiceInstalledCorrect` has one hypothesis about what is typed, `NoCommaDirs`: no directory
the service is installed from has a comma in its path. That is what `daemon_args` shows to be
needed; the lines of `MCDaemon.cfg` satisfy it. Under it the command line that `Install`
stores is proved to mean the configuration it was made from (lemma `RoundTrip`), for every
command line: `Accepted` says what a configuration that `Parse` returns is like (no list or
port text has a comma, a blank at an end or is empty, the ports are numbers in range),
`SplitJoin` that splitting what was joined gives the fields again, and `Reparsed` puts the
flags of `Args` through `Parse`. Splitting and joining are recursive functions; what they
return is shown by induction (see below). From then on `EntryInv` and the launches carry it:
no refused stop, failed delete, second install or shutdown brings the service up with anything
else.

**TrayProofs.** All safety properties of `Tray`, for any number of overlapping sweeps, any
number of candidates tried and any provider. `PickedWorks` and `InForce` speak of sweeps
that ran by themselves, and what is needed is why such a sweep cannot be disturbed:
`SoleInv` (while it runs the menu loop waits and no other sweep exists, because a click
would have been remembered). `PhaseInv` then says, program point by program point, what
the sweep has read, applied and stored - with `CandidatesDiffer`, since the engine in
force tells the candidate only because no two are alike - and `SettledInv` that the
agreement it leaves stands until a target is toggled. `Remembered` rests on `MemoryInv`:
with no click during a sweep there is one writer at a time, and the file is `u.state`
but between a store and the end of its `Save`, or after a save or load that failed;
`NormalTwice` says that saving what was loaded changes nothing. `AutostartAgrees` adds
`AutostartInv`. Both allow every failure, at every step that can fail. Sequences of sweeps that
do overlap keep the types only, torn strings included.

**DriverProofs.** `TypeOK`, `OwnDriver` and `NoLockFight` for any number of instances and
versions, any failure. `LoadInv`: what is loaded is what its file holds, and nobody
writes that file. `MetInv`: an instance that has met no other version is beside none.
`FileInv`: what it has been through is its own version, or emptied by another instance
of it. `OpenInv`: a file that it is about to replace is not its own version, unless such an
instance has written it since.

**PacketProofs.** The codec, for every packet: `RoundTrip` (`ParseTCP` returns what `Serialize`
was given), `SerializeCorrect` (length, length field, both checksums) and `ParseWellFormed`
(whatever `ParseTCP` accepts can be written again, so `Process` never builds a packet from
fields that do not fit). Checksums are where induction comes in: the sum over the words of
the segment with a zero field, plus the complement that is stored, is zero modulo
2^16 - 1, however long the segment is. The provers cannot use an induction theorem that
takes an operator, but they can use induction stated with a set (lemma `Induction`: a set
that has 0 and the successor of each of its members has all numbers), and every recursive
function here is proved about in this way: its domain equation first, then the set
of the arguments at which the claim holds. The modulus stays a symbol (`Size16`, known to
be 65536 only where it matters), since the arithmetic with a constant is what the
solver is slow at.

**ClientHelloProofs.** `NameWithin`: whatever the bytes are, and whatever lengths they
promise, the parser finds nothing or a name of at least one byte that lies within the
payload, so the cut is never outside of it. `NameFound`: in the first bytes, however many,
of a ClientHello that names a host it finds that name if its last byte is there and nothing
otherwise. `HelloMessage` says which messages are meant: any versions and random bytes, any
session id, cipher suites and extensions around the name that fit their length fields, with
no other extension of type 0 before the name and, as `BuildClientHello` writes it, one name
in the extension and no compression. `NoNameFound` is about messages with no such extension.
`BuiltParsed`: the parser is the inverse of `BuildClientHello`.
The argument has a layout (`Layout`: at which offset each length of a message is, shown once
for a message put together from its parts and carried over to those with other versions and
random bytes), the steps up to the extensions (`ExtensionsFound`: a cut before them fails),
and the walk over the extensions in front of the name, by induction on how many there are:
each is stepped over or does not fit in what is left. The two walks (extensions,
entries of the name list) are recursive functions; that they exist and what they return is
proved by induction on what is left of the buffer.

**EngineProofs.** `EngineInv` is `TypeOK`, `Verdict` (what is to be injected is what
`Process` made of the captured packet) and `ListRead` (the list has exactly the domains that
the lines read so far ask for). Everything else is about `Process`:
`ProcessCases` (the packet itself, nothing, or the rendered parts of a strategy),
`Covers` (for each strategy and each cut, the parts are real parts with their own sequence
numbers and decoys as long as the payload, and the real parts together have every byte) and
`Drawn` (a rendered part can be written if the captured packet could). From these and the codec
follow `FilterCovers`, `ChecksumsValid`, `Reassembles` and `OnlyInitialsDropped`.
`TargetsFound` joins three results: the parser finds the name (`NameFound`), `Match` means
what it says (`MatchMeaning`), and what `Load` makes of a line is what the line asks for
(`LineMeaning`: between its first and last inked byte, comments and a final dot aside, in
lower case; the property says this by positions, the code by trimming). `NameCut` is stated by
place: no injected packet but a decoy has the payload from the first byte of the name to its
last; it follows from where `SplitOffset` cuts and that each strategy's parts are on one side
of the cut (`Parted`).
Some have a hypothesis on the traffic, and each is about how the property reads a packet,
not about the code: `TTLsApart` (no captured packet has the configured decoy TTL; otherwise
a real part could not be told from a decoy), `InitialsMarked` (the captures marked
"initial" are the QUIC Initials) and `HellosMarked` (a capture marked "hello" with a host and
an end is a segment with the first part of a ClientHello that names that host there, or that
names nobody). The traffic of `MCEngine` is built so that it satisfies all three; packets
with a byte replaced are marked "other", and of those `TargetsFound` says nothing.
`MatchMeaning` is a theorem about `HostList.Match` alone: walking up the labels and looking
each parent up is the same as "the exact host and any of its subdomains".
Module `Engine` assumes of its constants that a captured packet is shorter than 2^16 bytes
(`maxPacketSize`, the buffer of `Recv`) and that there are at least 2^16 sequence numbers.

Induction over data is done without the library's induction theorems, which take an
operator: a claim is a set of numbers, shown to have 0 and successors (`PacketProofs`,
`ClientHelloProofs`), or to have no least counterexample (`DaemonProofs`, by the theorem that
the natural numbers are well-founded).

Model-checked only: every liveness property (TLAPS has neither fairness nor ENABLED
here).

## 5. Not modelled

- In `Delivery`: TCP flags and header fields other than sequence number and TTL; a
  ClientHello in a SYN (TCP Fast Open). Several connections: `Process` keeps no state
  between packets. `recover()`, see above. IP fragments, which `ParseTCP` does not tell
  from whole packets.
- A name that is not wholly in the first segment: `ParseClientHello` then finds
  nothing and the segment goes through unchanged, as its comment says ("a single TCP
  segment"). `NameHidden` is checked with the name in the first segment and of at least
  two bytes.
- In `HostList`: characters beyond ASCII, so `TrimSpace` trims the six blanks of ASCII.
- Embedded lists, console, icon, stubs for other systems: constants and single system
  calls without state of their own. The mock source serves the unit tests.
- Where the settings directory is; the wording of usage, logs and menu; the words of the
  `schtasks` command lines.
- In `Driver`: what a DLL does with a kernel driver of another version, or a file whose parts
  are of two versions once it is loaded.

## 6. Plan

Done, in this order because it is the order of importance: the manager with its
engine goroutines, the tray, the desync and its delivery, the daemon, the engine's
verdict on bytes, the command line with what the service makes of it, the byte stream that
a connection implements, autostart, the driver files.

Nothing of the plan is left. What could follow is listed under 5.
