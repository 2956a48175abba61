------------------------------- MODULE Config -------------------------------
(***************************************************************************)
(* The configuration (internal/config/config.go): how a command line is    *)
(* parsed and validated, the filter the driver is opened with, and the     *)
(* command line that is to recreate a configuration for the service.       *)
(*                                                                         *)
(* A command line is a sequence of [flag, value]; an operand has the flag  *)
(* "".  The values of "lists" and "ports" are texts.  A text is a sequence *)
(* of integers: a number n >= 0 is the word n, the port or the file name,  *)
(* and commas, blanks and the root of a file system are negative.  What    *)
(* "fake-ttl" cannot parse is -1.                                          *)
(***************************************************************************)
EXTENDS Integers, SequencesExt

Comma == -1
Blank == -2
Root == -3

Flags == {"strategy", "fake-ttl", "lists", "quic", "split", "service", "ports"}
Registry == {"fake", "split", "disorder", "fakedsplit"}

Default == [Strategy |-> "fakedsplit", FakeTTL |-> 8, Lists |-> <<>>, QUIC |-> "drop",
            SplitPos |-> "sni", Service |-> "", Ports |-> <<80, 443>>]

-----------------------------------------------------------------------------
(* splitCSV and its inverse.                                               *)
TrimBlanks(s) ==
  LET solid == {i \in DOMAIN s : s[i] # Blank}
  IN  IF solid = {} THEN <<>> ELSE SubSeq(s, Min(solid), Max(solid))

(* A field that ends is kept if it is not blank.                           *)
Kept(fields, field) ==
  IF TrimBlanks(field) = <<>> THEN fields ELSE Append(fields, TrimBlanks(field))

(* The fields that a comma has ended, and what there is of the next one.   *)
NoField == [fields |-> <<>>, field |-> <<>>]
Read(was, c) ==
  IF c = Comma THEN [fields |-> Kept(was.fields, was.field), field |-> <<>>]
  ELSE [was EXCEPT !.field = Append(@, c)]
Scan(s) ==
  LET scan[i \in 0..Len(s)] == IF i = 0 THEN NoField ELSE Read(scan[i - 1], s[i])
  IN  scan[Len(s)]

SplitCSV(s) == Kept(Scan(s).fields, Scan(s).field)

Join(fields) ==
  LET join[i \in DOMAIN fields] ==
        IF i = 1 THEN fields[1] ELSE join[i - 1] \o <<Comma>> \o fields[i]
  IN  join[Len(fields)]

-----------------------------------------------------------------------------
(* strconv.Atoi, with 0 for its error: neither is a port.                  *)
PortNumber(field) == IF Len(field) = 1 THEN field[1] ELSE 0

AllPorts == 1..65535
ArePorts(ports) == ports # <<>> /\ \A i \in DOMAIN ports : ports[i] \in AllPorts

Validate(c) ==
  /\ c.Strategy \in Registry
  /\ c.FakeTTL \in 1..255
  /\ c.QUIC \in {"drop", "off"}
  /\ c.SplitPos \in {"sni", "middle"}
  /\ c.Service \in {"", "install", "uninstall", "run"}
  /\ ArePorts(c.Ports)

(* An operand ends the flags; the last value of a flag counts.             *)
Given(args) ==
  LET operand == SelectInSeq(args, LAMBDA a : a.flag = "")
  IN  IF operand = 0 THEN args ELSE SubSeq(args, 1, operand - 1)
Value(args, flag, default) ==
  LET last == SelectLastInSeq(args, LAMBDA a : a.flag = flag)
  IN  IF last = 0 THEN default ELSE args[last].value

UsualPorts == <<80, Comma, 443>>

FromFlags(given) ==
  LET value(flag, default) == Value(given, flag, default)
      ports == SplitCSV(value("ports", UsualPorts))
  IN  [Strategy |-> value("strategy", Default.Strategy),
       FakeTTL |-> value("fake-ttl", Default.FakeTTL),
       Lists |-> SplitCSV(value("lists", <<>>)),
       QUIC |-> value("quic", Default.QUIC),
       SplitPos |-> value("split", Default.SplitPos),
       Service |-> value("service", Default.Service),
       Ports |-> [i \in DOMAIN ports |-> PortNumber(ports[i])]]

(* <<>> for an error, otherwise the configuration.                         *)
Parse(args) ==
  LET given == Given(args) IN
  IF /\ \A i \in DOMAIN given : /\ given[i].flag \in Flags
                                /\ given[i].flag = "fake-ttl" => given[i].value >= 0
     /\ Validate(FromFlags(given))
  THEN <<FromFlags(given)>> ELSE <<>>

-----------------------------------------------------------------------------
(* A definition with a plausible bug, which the properties are shown to    *)
(* catch: one port too few.                                                *)
FilterFirst(c) == [tcp |-> {c.Ports[1]}, udp |-> IF c.QUIC = "drop" THEN {443} ELSE {}]

(* The destination ports of the outbound traffic the driver is to capture. *)
Filter(c) == [tcp |-> ToSet(c.Ports), udp |-> IF c.QUIC = "drop" THEN {443} ELSE {}]

Option(flag, value) == [flag |-> flag, value |-> value]

Args(c) ==
  << Option("strategy", c.Strategy), Option("fake-ttl", c.FakeTTL), Option("quic", c.QUIC),
     Option("split", c.SplitPos), Option("ports", Join([i \in DOMAIN c.Ports |-> <<c.Ports[i]>>])) >>
  \o IF c.Lists = <<>> THEN <<>> ELSE <<Option("lists", Join(c.Lists))>>

(* What a relative path means to a process that runs in directory dir.     *)
Abs(dir, path) == IF path[1] = Root THEN path ELSE dir \o path
Resolved(dir, c) == [c EXCEPT !.Lists = [i \in DOMAIN @ |-> Abs(dir, @[i])]]

(* A definition with a plausible bug, which the properties are shown to    *)
(* catch: the service gets the paths as they were typed.                   *)
ServiceArgsRelative(dir, c) == <<Option("service", "run")>> \o Args(c)

(* The command line installService has the service run with.               *)
ServiceArgs(dir, c) == <<Option("service", "run")>> \o Args(Resolved(dir, c))

(* Without arguments the program shows its tray icon.                      *)
IsGUI(args) == args = <<>>
=============================================================================
