------------------------------ MODULE Protocol ------------------------------
(***************************************************************************)
(* What client.cc and server.cc share: the request codes, the lines of     *)
(* requests and responses, and the numbers in them.  A line is a sequence  *)
(* of words, the first of which is a verb.  Error messages are abstracted  *)
(* to the wording that tells one error from another; the quoted request    *)
(* line that follows it is left out.                                       *)
(***************************************************************************)
EXTENDS MessageBuffer, Integers

CONSTANTS Module,   \* names of modules, header units and commands
          CMIName   \* Resolver::GetCMIName

\* enum RequestCode
RC_CONNECT           == 0
RC_MODULE_REPO       == 1
RC_MODULE_EXPORT     == 2
RC_MODULE_IMPORT     == 3
RC_MODULE_COMPILED   == 4
RC_INCLUDE_TRANSLATE == 5
RC_INVOKE            == 6
RC_HWM               == 7

RequestCode == 0 .. RC_HWM - 1

\* The requests that carry a name and flags, handled alike at both ends.
ModuleRequestCode ==
  {RC_MODULE_EXPORT, RC_MODULE_IMPORT, RC_MODULE_COMPILED, RC_INCLUDE_TRANSLATE}

\* The verbs of requestTable, in the order of RequestCode.
requestTable ==
  [code \in RequestCode |->
    <<"HELLO", "MODULE-REPO", "MODULE-EXPORT", "MODULE-IMPORT",
      "MODULE-COMPILED", "INCLUDE-TRANSLATE", "INVOKE">>[code + 1]]

\* The code a verb selects, RC_HWM for a verb that is not in the table.
CodeOf(verb) ==
  IF \E code \in RequestCode : requestTable[code] = verb
  THEN CHOOSE code \in RequestCode : requestTable[code] = verb
  ELSE RC_HWM

Version == 1

\* strtoul of the words a version or a flags field may hold.  The empty word
\* is 0; anything else that is not a number does not parse, and Unparsable
\* stands for ~0u, the result of ParseUnsigned for it.
Unparsable == -1
Number == [w \in {"", "0", "1", "2"} |->
             CASE w = "1" -> 1 [] w = "2" -> 2 [] OTHER -> 0]
ParseUnsigned(w) == IF w \in DOMAIN Number THEN Number[w] ELSE Unparsable

-----------------------------------------------------------------------------
(* Response lines.                                                         *)

REPO_DIR == "cmi.cache"

ConnectResponse(agent)  == <<"HELLO", "1", agent>>
PathnameResponse(cmi)   == <<"PATHNAME", cmi>>
OKResponse              == <<"OK">>
BoolResponse(truth)     == <<"BOOL", IF truth THEN "TRUE" ELSE "FALSE">>
ErrorResponse(error)    == <<"ERROR", error>>

\* What the server, and the resolvers, tell as an error.
ErrorText ==
  {"unrecognized", "malformed", "already connected", "not connected",
   "error processing", "version mismatch", "refused", "unexpected connect call",
   "unimplemented", "failed"}

ASSUME WordAssumption ==
  /\ {requestTable[code] : code \in RequestCode} \subseteq Word
  /\ {"PATHNAME", "OK", "BOOL", "ERROR", "TRUE", "FALSE", "1", REPO_DIR, "default"}
       \subseteq Word
  /\ ErrorText \subseteq Word
  /\ Module \subseteq Word
  /\ CMIName \in [Word -> Word]

-----------------------------------------------------------------------------
(* A block of the given lines, blank ones too, for the environments that   *)
(* do not use class MessageBuffer, and the response verbs README.md gives  *)
(* for each request.                                                       *)

Block(lines) ==
  FlattenSeq([i \in 1 .. Len(lines) |->
                lines[i] \o (IF i = Len(lines) THEN <<NEWLINE>> ELSE <<CONTINUE, NEWLINE>>)])

ResponseVerbs(code) ==
  CASE code = RC_CONNECT -> {"HELLO"}
    [] code \in {RC_MODULE_REPO, RC_MODULE_EXPORT, RC_MODULE_IMPORT} -> {"PATHNAME"}
    [] code \in {RC_MODULE_COMPILED, RC_INVOKE} -> {"OK"}
    [] code = RC_INCLUDE_TRANSLATE -> {"BOOL", "PATHNAME"}
    [] OTHER -> {}
=============================================================================
