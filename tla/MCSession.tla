----------------------------- MODULE MCSession -----------------------------
EXTENDS Session

MCModule == {"m"}
MCWord ==
  {"HELLO", "MODULE-REPO", "MODULE-EXPORT", "MODULE-IMPORT", "MODULE-COMPILED",
   "INCLUDE-TRANSLATE", "INVOKE", "PATHNAME", "OK", "BOOL", "ERROR", "TRUE",
   "FALSE", "1", "", "m", "m.gcm", REPO_DIR, "cc", "default"}
    \cup ErrorText
MCGlued == {"m;"}
MCGarbled == {"'m"}
MCCMIName == [w \in MCWord |-> "m.gcm"]
MCOneCall == {RC_INCLUDE_TRANSLATE}
MCFlags == {<<>>}
MCArguments == {<<"m">>}
MCDerived == {"derived"}
=============================================================================
