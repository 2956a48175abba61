------------------------------ MODULE Settings ------------------------------
(***************************************************************************)
(* The state file of internal/settings/settings.go: what Save leaves on    *)
(* disk when several goroutines write it at once, when it fails or the     *)
(* process dies in the middle, and what Load makes of it.                  *)
(*                                                                         *)
(* A Go string is a pointer and a length, stored one after the other: two  *)
(* goroutines that assign u.state.Strategy at once can leave the pointer   *)
(* of one name with the length of the other.                               *)
(***************************************************************************)
EXTENDS Naturals

CONSTANT None

(* Strategy names by length.  "garbled" stands for any bytes that are no   *)
(* strategy name, "" for the empty string.                                 *)
NameLen == [fakedsplit |-> 10, disorder |-> 8, split |-> 5, fake |-> 4]
Names == DOMAIN NameLen

(* A string in memory, and the characters it denotes: the first n bytes of *)
(* the name, which run over into other data if n is too large.             *)
String(name) == [ptr |-> name, len |-> NameLen[name]]
Text(str) ==
  IF str.len = 0 THEN ""
  ELSE IF str.ptr \notin Names THEN "garbled"
  ELSE IF str.len = NameLen[str.ptr] THEN str.ptr
  ELSE IF str.ptr = "fakedsplit" /\ str.len = NameLen["fake"] THEN "fake"
  ELSE "garbled"

Strings == [ptr : Names \cup {"garbled", ""}, len : {0} \cup {NameLen[n] : n \in Names}]
States == [YouTube : BOOLEAN, Discord : BOOLEAN, Strategy : Strings, FakeTTL : 0..255,
           Autostart : BOOLEAN]

(* The state of a fresh install, and State{}.                              *)
Default == [YouTube |-> TRUE, Discord |-> TRUE, Strategy |-> String("fakedsplit"),
            FakeTTL |-> 8, Autostart |-> FALSE]
Zero == [YouTube |-> FALSE, Discord |-> FALSE, Strategy |-> [ptr |-> "", len |-> 0],
         FakeTTL |-> 0, Autostart |-> FALSE]

-----------------------------------------------------------------------------
(* A file is absent (None) or has a length and, if it is the JSON of one   *)
(* state, that state.                                                      *)

Digits(n) == IF n < 10 THEN 1 ELSE IF n < 100 THEN 2 ELSE 3
Bool(b) == IF b THEN 4 ELSE 5

(* The length of the JSON, the part that all states share left out but for *)
(* one byte: no JSON is empty.                                             *)
Length(st) == 1 + Bool(st.YouTube) + Bool(st.Discord) + st.Strategy.len + Digits(st.FakeTTL)
                + Bool(st.Autostart)

(* os.WriteFile, first half: the file is opened and truncated.             *)
Truncated == [len |-> 0, st |-> None]

(* os.WriteFile, second half: the bytes go to offset 0 of whatever is in   *)
(* the file by then; a longer file keeps its tail and parses no more.      *)
Overwritten(file, st) ==
  IF file.len <= Length(st) THEN [len |-> Length(st), st |-> st]
                            ELSE [len |-> file.len, st |-> None]

(* os.WriteFile, second half, with an error: no byte has been written, or  *)
(* all but the last.  (Any other part leaves the file as it was or what    *)
(* does not parse, with a tail that is in length between these two.)       *)
Remains(file, st) ==
  {file, [len |-> IF file.len < Length(st) THEN Length(st) - 1 ELSE file.len, st |-> None]}

(* A string as it comes back from the file: its own bytes.                 *)
Normal(st) == [st EXCEPT !.Strategy = [ptr |-> Text(@), len |-> @.len]]

(* Load, of a file that can be read: onReady ignores its error and uses    *)
(* the State{} that comes with it.                                         *)
Load(file) == IF file = None THEN Default
              ELSE IF file.st = None THEN Zero
              ELSE Normal(file.st)
=============================================================================
