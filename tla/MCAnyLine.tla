----------------------------- MODULE MCAnyLine -----------------------------
EXTENDS AnyLine

\* '.', '/', ':' and the letter a, a hex digit too.
MCPlain == {DOT, DIR_SEPARATOR, COLON, 97}
MCSpaced == {SPACE, CONTINUE, 97}
MCCoded == {1, CONTINUE, DEL}
MCBroken == {CONTINUE, TAB, 1, DEL, 195}

\* The two octets of a letter outside ASCII.
MCUtf8 == {195, 169}
MCNone == {}
=============================================================================
