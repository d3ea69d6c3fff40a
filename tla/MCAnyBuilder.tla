---------------------------- MODULE MCAnyBuilder ----------------------------
EXTENDS AnyBuilder

MCModule == {"m"}
MCWord ==
  {"HELLO", "MODULE-REPO", "MODULE-EXPORT", "MODULE-IMPORT", "MODULE-COMPILED",
   "INCLUDE-TRANSLATE", "INVOKE", "PATHNAME", "OK", "BOOL", "ERROR", "TRUE",
   "FALSE", "0", "1", "", "m", "m.gcm", REPO_DIR, "cc", "default"}
    \cup ErrorText
MCGlued == {"m;"}
MCGarbled == {"'m"}
MCCMIName == [w \in MCWord |-> "m.gcm"]
MCOneCall == {RC_INCLUDE_TRANSLATE}
MCFlags == {<<>>}
MCArguments == {<<"m">>}

\* INVOKE of a command whose last argument is a semicolon, as find -exec has.
MCSemicolon == {<<"m", CONTINUE>>}

MCLines ==
  {<<"HELLO", "1", "m">>, <<"HELLO", "0", "m">>, <<"OK">>,
   <<"PATHNAME", "m">>, <<"BOOL", "TRUE">>, <<"ERROR">>, <<>>, <<"'m">>}
MCExtraLines == {<<"OK">>}
MCNoLines == {}

\* A few of them, for the runs that expect a violation.
MCFewLines == {<<"OK">>, <<"ERROR", "m">>}
=============================================================================
