--------------------------- MODULE MCAnyCompiler ---------------------------
EXTENDS AnyCompiler

MCModule == {"m"}
MCWord ==
  {"HELLO", "MODULE-REPO", "MODULE-EXPORT", "MODULE-IMPORT", "MODULE-COMPILED",
   "INCLUDE-TRANSLATE", "INVOKE", "PATHNAME", "OK", "BOOL", "ERROR", "TRUE",
   "FALSE", "1", "2", "x", "", "m", "m.gcm", REPO_DIR, "cc", "default", "BYE"}
    \cup ErrorText
MCGlued == {"m;"}
MCGarbled == {"'m"}
MCCMIName == [w \in MCWord |-> "m.gcm"]

\* Every verb, in a form the server accepts and in one it does not.
MCLines ==
  {<<"HELLO", "1", "cc", "m">>, <<"HELLO", "2", "cc">>, <<"HELLO", "x", "cc">>,
   <<"MODULE-REPO">>, <<"MODULE-EXPORT", "m">>, <<"MODULE-IMPORT", "m", "x">>,
   <<"MODULE-COMPILED", "m", "1">>, <<"INCLUDE-TRANSLATE", "m">>,
   <<"INVOKE", "m">>, <<"INVOKE">>, <<"BYE">>, <<>>, <<"INVOKE", "'m">>}

MCExtraLines == {<<"MODULE-REPO">>}

MCContract == {"default", "derived"}
MCHandler == {"initial"}
=============================================================================
