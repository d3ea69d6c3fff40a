----------------------------- MODULE MCSockets -----------------------------
EXTENDS Sockets

MCFd == {3, 4}
=============================================================================
