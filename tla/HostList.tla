------------------------------ MODULE HostList ------------------------------
(***************************************************************************)
(* internal/hostlist/hostlist.go: the lines of a list file and the host    *)
(* names they match.  A string is a sequence of ASCII codes.               *)
(***************************************************************************)
EXTENDS Integers, Sequences

Hash == 35
Dot == 46

-----------------------------------------------------------------------------
Lower(s) == [i \in DOMAIN s |-> IF s[i] \in 65..90 THEN s[i] + 32 ELSE s[i]]

(* strings.TrimSpace: tab, newline, vertical tab, form feed, return, space *)
Blanks == 9..13 \cup {32}
TrimSpace(s) ==
  LET ink == {i \in DOMAIN s : s[i] \notin Blanks} IN
  IF ink = {} THEN <<>>
  ELSE SubSeq(s, CHOOSE i \in ink : \A j \in ink : i <= j, CHOOSE i \in ink : \A j \in ink : i >= j)

TrimDot(s) == IF s # <<>> /\ s[Len(s)] = Dot THEN SubSeq(s, 1, Len(s) - 1) ELSE s
Normalize(s) == TrimDot(TrimSpace(Lower(s)))

-----------------------------------------------------------------------------
(* Definitions with a plausible bug, which the properties of module Engine *)
(* are shown to catch.                                                     *)

(* A blank domain is added.                                                *)
AddBlank(domains, domain) == domains \cup {Normalize(domain)}

(* Any suffix is taken for a parent domain.                                *)
ParentsSuffix(h) == {SubSeq(h, i, Len(h)) : i \in DOMAIN h}

-----------------------------------------------------------------------------
(* Add, and what LoadReader makes of a line.                               *)
Add(domains, domain) == domains \cup ({Normalize(domain)} \ {<<>>})
LoadLine(domains, line) ==
  LET text == TrimSpace(line) IN
  IF text = <<>> \/ text[1] = Hash THEN domains ELSE Add(domains, text)

(* The host itself, and what follows each of its dots.                     *)
Parents(h) == {h} \cup {SubSeq(h, i + 1, Len(h)) : i \in {j \in DOMAIN h : h[j] = Dot}}
Match(domains, host) ==
  LET h == Normalize(host) IN h # <<>> /\ \E d \in Parents(h) : d \in domains
=============================================================================
