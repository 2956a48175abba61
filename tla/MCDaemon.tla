------------------------------ MODULE MCDaemon ------------------------------
(* Daemon for TLC: two directories, and command lines of every kind.       *)
EXTENDS Daemon

Home == <<Root, 1>>
System32 == <<Root, 0>>

\* Word 10 is a list with domains, 11 one without, 12 is in no directory.
ListFiles == (Home \o <<10>>) :> 2 @@ (Home \o <<11>>) :> 0

Typed(dir, args) == [dir |-> dir, args |-> args]
Installs(args) == Typed(Home, <<Option("service", "install")>> \o args)

\* All flags, in other orders than Args, blanks and empty fields included.
Everything ==
  << Option("lists", <<Comma, Blank, 10, Blank, Comma, Blank, 11>>), Option("ports", <<443, Comma, Blank, 8443>>),
     Option("quic", "drop"), Option("split", "middle"), Option("fake-ttl", 6),
     Option("strategy", "disorder"), Option("quic", "off") >>

CommandLines ==
  << Typed(Home, <<Option("lists", <<10>>)>>),                            \* runs
     Typed(Home, <<Option("lists", <<11>>)>>),                            \* has no domain
     Typed(Home, <<Option("lists", <<10>>), Option("ports", <<0>>)>>),    \* is refused
     Typed(Home, <<Option("service", "run"), Option("lists", <<10>>)>>),  \* is no service
     Installs(<<Option("lists", <<10>>)>>), Installs(Everything),
     Installs(<<>>),                                                    \* has no list
     Installs(<<Option("lists", Home \o <<10>>), Option("", 0), Option("quic", "on")>>),  \* an operand
     Typed(Home, <<Option("service", "uninstall")>>) >>

\* Parse and Args, in a directory with a comma in its name.
CommaDir == <<Root, 1, Comma, 2>>
CommaFiles == (CommaDir \o <<10>>) :> 2
CommaLines == << Typed(CommaDir, <<Option("service", "install"), Option("lists", <<10>>)>>) >>
=============================================================================
