------------------------------ MODULE CMINames ------------------------------
(***************************************************************************)
(* The names of CMI files: GetCMIName of resolver.cc, on octets, in a      *)
(* build for a system whose absolute paths begin with '/'.                 *)
(***************************************************************************)
EXTENDS Naturals, Sequences, SequencesExt

DIR_SEPARATOR == 47  \* '/'
DOT           == 46
COLON         == 58
DOT_REPLACE   == 44  \* ','
COLON_REPLACE == 45  \* '-'

CMISuffix == <<DOT, 99, 109, 105>>  \* ".cmi"

IsAbsPath(name) == name[1] = DIR_SEPARATOR
IsHeader(name)  == IsAbsPath(name) \/ IsPrefix(<<DOT, DIR_SEPARATOR>>, name)

\* Mutation: after a replacement the scan goes on behind the separator, which
\* the next ".." needs.
DotDotsApart(path) ==
  LET At(i) == SubSeq(path, i - 1, i + 2) = <<DIR_SEPARATOR, DOT, DOT, DIR_SEPARATOR>>
  IN  {i \in 2 .. Len(path) - 2 : At(i) /\ (i < 5 \/ ~At(i - 3))}

\* Where a ".." begins that has a separator on both sides.  At the end of the
\* name there is none, and the scan stops before it would leave the name.
DotDots(path) ==
  {i \in 2 .. Len(path) - 2 :
     SubSeq(path, i - 1, i + 2) = <<DIR_SEPARATOR, DOT, DOT, DIR_SEPARATOR>>}

\* Mutation: the "./" of a relative header's name stays.
HeaderPathKeepsDot(name) ==
  LET path == IF IsAbsPath(name) THEN <<DOT>> \o name ELSE name
      dots == UNION {{i, i + 1} : i \in DotDots(path)}
  IN  [i \in DOMAIN path |-> IF i \in dots THEN DOT_REPLACE ELSE path[i]]

\* '/a' becomes './a' and './a' becomes ',/a'; then each ".." becomes ",,".
HeaderPath(name) ==
  LET path == IF IsAbsPath(name) THEN <<DOT>> \o name
              ELSE <<DOT_REPLACE>> \o Tail(name)
      dots == UNION {{i, i + 1} : i \in DotDots(path)}
  IN  [i \in DOMAIN path |-> IF i \in dots THEN DOT_REPLACE ELSE path[i]]

\* A partition's colon, the first one, is replaced.
ModulePath(name) ==
  LET colon == SelectInSeq(name, LAMBDA c : c = COLON)
  IN  IF colon = 0 THEN name ELSE [name EXCEPT ![colon] = COLON_REPLACE]

GetCMIName(name) ==
  (IF IsHeader(name) THEN HeaderPath(name) ELSE ModulePath(name)) \o CMISuffix
=============================================================================
