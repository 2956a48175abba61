---------------------------- MODULE ClientHello ----------------------------
(***************************************************************************)
(* internal/tls/clienthello.go: where in a segment a TLS ClientHello has   *)
(* the name of its host.  Every length in the message is its sender's, and *)
(* the message may go on in a later segment.                               *)
(***************************************************************************)
EXTENDS Bytes

RecordHeaderLen == 5
HandshakeHeaderLen == 4
RandomLen == 32
MinRecord == RecordHeaderLen + HandshakeHeaderLen + 2 + RandomLen

-----------------------------------------------------------------------------
(* The parser's cursor is an offset, or Failed once a step has failed.     *)
Failed == -1
Skip(buf, pos, n) == IF pos = Failed \/ pos + n > Len(buf) THEN Failed ELSE pos + n
SkipVector8(buf, pos) ==
  IF Skip(buf, pos, 1) = Failed THEN Failed ELSE Skip(buf, pos + 1, At(buf, pos))
SkipVector16(buf, pos) ==
  IF Skip(buf, pos, 2) = Failed THEN Failed ELSE Skip(buf, pos + 2, U16(buf, pos))

IsClientHello(buf) ==
  Len(buf) >= RecordHeaderLen + 1 /\ At(buf, 0) = 22 /\ At(buf, RecordHeaderLen) = 1

(* The offset of the length of the extensions: after version, random,      *)
(* session id, cipher suites and compression methods.                      *)
ExtensionsAt(buf) ==
  LET random == Skip(buf, Skip(buf, RecordHeaderLen, HandshakeHeaderLen), 2 + RandomLen)
  IN  SkipVector8(buf, SkipVector16(buf, SkipVector8(buf, random)))

(* The body of the first server_name extension between from and extEnd.    *)
ServerName(buf, from, extEnd) ==
  LET body[pos \in Nat] ==
        LET to == pos + 4 + U16(buf, pos + 2) IN
        IF pos + 4 > extEnd \/ to > extEnd THEN <<>>
        ELSE IF U16(buf, pos) = 0 THEN <<[from |-> pos + 4, to |-> to]>>
        ELSE body[to]
  IN  body[from]

(* parseSNI: the first host name in the body of the extension.             *)
HostName(buf, ext) ==
  LET list    == ext.from + 2 + U16(buf, ext.from)
      listEnd == IF list > ext.to THEN ext.to ELSE list
      name[pos \in Nat] ==
        LET from == pos + 3  to == from + U16(buf, pos + 1) IN
        IF from > listEnd \/ to > listEnd THEN <<>>
        ELSE IF At(buf, pos) = 0 /\ to > from THEN <<[from |-> from, to |-> to]>>
        ELSE name[to]
  IN  IF ext.from + 2 > ext.to THEN <<>> ELSE name[ext.from + 2]

(* <<[from, to]>>, the SNIOffset and its end, or <<>> for an error.        *)
ParseClientHello(buf) ==
  IF ~IsClientHello(buf) \/ Len(buf) < MinRecord THEN <<>>
  ELSE LET exts == ExtensionsAt(buf)
           from == exts + 2
       IN  IF exts = Failed \/ from > Len(buf) THEN <<>>
           ELSE LET end == from + U16(buf, exts)
                    ext == ServerName(buf, from, IF end > Len(buf) THEN Len(buf) ELSE end)
                IN  IF ext = <<>> THEN <<>> ELSE HostName(buf, ext[1])

-----------------------------------------------------------------------------
(* BuildClientHello, for a host name that may be empty.                    *)
Vector8(b) == <<Len(b)>> \o b
Vector16(b) == Bytes16(Len(b)) \o b
Extension(type, body) == Bytes16(type) \o Vector16(body)
NameExtension(host) ==
  IF host = <<>> THEN <<>> ELSE Extension(0, Vector16(<<0>> \o Vector16(host)))

(* The message around given session id, cipher suites and extensions.      *)
Message(session, suites, exts) ==
  LET body == <<3, 3>> \o Zeros(RandomLen) \o Vector8(session) \o Vector16(suites)
                \o Vector8(<<0>>) \o Vector16(exts)
  IN  <<22, 3, 1>> \o Vector16(<<1, 0>> \o Vector16(body))

BuildClientHello(host) == Message(<<>>, <<19, 1>>, NameExtension(host))
=============================================================================
