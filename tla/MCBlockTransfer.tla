-------------------------- MODULE MCBlockTransfer --------------------------
EXTENDS BlockTransfer

MCWord == {"HELLO", "m"}
MCGlued == {"m;"}
MCGarbled == {"'m"}
MCLineChoices == {<<"HELLO">>, <<"HELLO", "m">>, <<"m", "m", "HELLO">>}
=============================================================================
