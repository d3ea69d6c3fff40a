------------------------------ MODULE Sockets ------------------------------
(***************************************************************************)
(* The helpers that open or listen on a socket (netclient.cc,              *)
(* netserver.cc), called by one program any number of times: who owns the  *)
(* descriptor and the list of addresses at each of their exits, and what   *)
(* they tell the caller.  Each system call is a step, and may fail.        *)
(* Error strings lose the differences of wording between the helpers.      *)
(***************************************************************************)
EXTENDS Integers

CONSTANTS Fd,        \* descriptors the process may have open
          MaxAddrs   \* bound on the addresses a name has

ASSUME SocketsAssumption == Fd \subseteq Nat /\ MaxAddrs \in Nat \ {0}

VARIABLES
  pc,       \* where in the helper the program is, or "idle" in the caller
  helper,   \* the helper called last
  port_ok,  \* the port it was given fits into 16 bits
  fd,       \* its variable fd
  addrs,    \* its variable addrs is not null
  next,     \* addresses not tried yet
  errstr,   \* its variable errstr
  result,   \* what it returned, -2 before it has
  e,        \* the caller's error string
  errno,    \* a number the helper set, or the call that set it last
  socket,   \* what the kernel knows of each descriptor
  live,     \* the list of addresses is allocated
  broken,   \* a list was freed twice: anything may happen
  kept      \* the descriptors the caller holds

vars == <<pc, helper, port_ok, fd, addrs, next, errstr, result, e, errno,
          socket, live, broken, kept>>

None == "none"
Helper == {"OpenSocket", "OpenLocal", "OpenInet6",
           "ListenSocket", "ListenLocal", "ListenInet6"}
SocketState == {"closed", "fresh", "bound", "listening", "connected"}

Inet6   == helper \in {"OpenInet6", "ListenInet6"}
Listens == helper \in {"ListenSocket", "ListenLocal", "ListenInet6"}

Init ==
  /\ pc = "idle"
  /\ helper = "OpenSocket" /\ port_ok = TRUE
  /\ fd = -1 /\ addrs = FALSE /\ next = 0 /\ errstr = None
  /\ result = -2 /\ e = None /\ errno = None
  /\ socket = [f \in Fd |-> "closed"]
  /\ live = FALSE /\ broken = FALSE
  /\ kept = {}

-----------------------------------------------------------------------------

\* The caller calls a helper, having reset its error string, but not errno.
Call(h, ok) ==
  /\ pc = "idle"
  /\ pc' = "begin"
  /\ helper' = h
  /\ port_ok' = ok
  /\ fd' = -1 /\ addrs' = FALSE /\ next' = 0 /\ errstr' = None
  /\ result' = -2 /\ e' = None
  /\ UNCHANGED <<errno, socket, live, broken, kept>>

\* The caller closes a descriptor it got.
Close(f) ==
  /\ pc = "idle"
  /\ f \in kept
  /\ kept' = kept \ {f}
  /\ socket' = [socket EXCEPT ![f] = "closed"]
  /\ result' = -2
  /\ UNCHANGED <<pc, helper, port_ok, fd, addrs, next, errstr, e, errno, live, broken>>

\* goto fail.
GoFail(str, number) ==
  /\ pc' = "fail"
  /\ errstr' = str
  /\ errno' = number

\* The name does not fit into sun_path: -1 at once, without an error string.
NameTooLong ==
  /\ pc = "begin"
  /\ helper \in {"OpenLocal", "ListenLocal"}
  /\ pc' = "idle"
  /\ result' = -1
  /\ errno' = "ENAMETOOLONG"
  /\ UNCHANGED <<helper, port_ok, fd, addrs, next, errstr, e, socket, live, broken, kept>>

MissingName ==
  /\ pc = "begin"
  /\ helper = "OpenInet6"
  /\ GoFail("missing server name", "EINVAL")
  /\ UNCHANGED <<helper, port_ok, fd, addrs, next, result, e, socket, live, broken, kept>>

\* socket(2) gives a descriptor that is not open.
Socket(f) ==
  /\ pc = "begin"
  /\ socket[f] = "closed"
  /\ socket' = [socket EXCEPT ![f] = "fresh"]
  /\ fd' = f
  /\ pc' = IF Inet6 THEN "resolve" ELSE "attempt"
  /\ next' = IF Inet6 THEN 0 ELSE 1
  /\ UNCHANGED <<helper, port_ok, addrs, errstr, result, e, errno, live, broken, kept>>

SocketFails ==
  /\ pc = "begin"
  /\ GoFail("creating socket", "socket")
  /\ UNCHANGED <<helper, port_ok, fd, addrs, next, result, e, socket, live, broken, kept>>

\* getaddrinfo gives a list of stream sockets in AF_INET6, as it was asked to.
Resolve(n) ==
  /\ pc = "resolve"
  /\ addrs' = TRUE
  /\ live' = TRUE
  /\ next' = n
  /\ pc' = "attempt"
  /\ UNCHANGED <<helper, port_ok, fd, errstr, result, e, errno, socket, broken, kept>>

ResolveFails ==
  /\ pc = "resolve"
  /\ GoFail("gai", "0")
  /\ UNCHANGED <<helper, port_ok, fd, addrs, next, result, e, socket, live, broken, kept>>

\* The caller gets the descriptor.
Return ==
  /\ pc' = "idle"
  /\ result' = fd
  /\ kept' = kept \cup {fd}

\* Mutation: the list is freed only on the way to fail.
ConnectKeepsList ==
  /\ pc = "attempt"
  /\ ~Listens
  /\ Inet6 => port_ok
  /\ socket' = [socket EXCEPT ![fd] = "connected"]
  /\ Return
  /\ UNCHANGED <<helper, port_ok, fd, addrs, next, errstr, e, errno, live, broken>>

\* connect(2), and the end of the helper.
Connect ==
  /\ pc = "attempt"
  /\ ~Listens
  /\ Inet6 => port_ok
  /\ socket' = [socket EXCEPT ![fd] = "connected"]
  /\ live' = FALSE
  /\ Return
  /\ UNCHANGED <<helper, port_ok, fd, addrs, next, errstr, e, errno, broken>>

\* bind(2); then the list is freed, and addrs keeps its value.
Bind ==
  /\ pc = "attempt"
  /\ Listens
  /\ Inet6 => port_ok
  /\ socket' = [socket EXCEPT ![fd] = "bound"]
  /\ live' = FALSE
  /\ pc' = "listen"
  /\ UNCHANGED <<helper, port_ok, fd, addrs, next, errstr, result, e, errno, broken, kept>>

\* Mutation: the list is freed when no address is left, as at done.
AttemptFailsAndFrees ==
  /\ pc = "attempt"
  /\ next' = next - 1
  /\ IF next > 1
     THEN /\ errno' = IF Inet6 /\ ~port_ok THEN "EINVAL" ELSE IF Listens THEN "bind" ELSE "connect"
          /\ UNCHANGED <<pc, errstr, live>>
     ELSE /\ GoFail(IF Listens THEN "binding socket" ELSE "connecting socket",
                    IF Inet6 /\ ~port_ok THEN "EINVAL" ELSE IF Listens THEN "bind" ELSE "connect")
          /\ live' = FALSE
  /\ UNCHANGED <<helper, port_ok, fd, addrs, result, e, socket, broken, kept>>

\* connect or bind fails, or is not tried because of the port: the next
\* address, if there is one.
AttemptFails ==
  LET number == IF Inet6 /\ ~port_ok THEN "EINVAL"
                ELSE IF Listens THEN "bind" ELSE "connect"
  IN
  /\ pc = "attempt"
  /\ next' = next - 1
  /\ IF next > 1 THEN errno' = number /\ UNCHANGED <<pc, errstr>>
     ELSE GoFail(IF Listens THEN "binding socket" ELSE "connecting socket", number)
  /\ UNCHANGED <<helper, port_ok, fd, addrs, result, e, socket, live, broken, kept>>

Listen ==
  /\ pc = "listen"
  /\ socket' = [socket EXCEPT ![fd] = "listening"]
  /\ Return
  /\ UNCHANGED <<helper, port_ok, fd, addrs, next, errstr, e, errno, live, broken>>

ListenFails ==
  /\ pc = "listen"
  /\ GoFail("listening socket", "listen")
  /\ UNCHANGED <<helper, port_ok, fd, addrs, next, result, e, socket, live, broken, kept>>

\* What freeaddrinfo does to a list that is live, and to one that is not.
FreeAddrs ==
  /\ live' = FALSE
  /\ broken' = (broken \/ (addrs /\ ~live))

\* Mutation: errno is not saved; close and freeaddrinfo may change it.
FailLosesErrno ==
  /\ pc = "fail"
  /\ e' = errstr
  /\ socket' = IF fd = -1 THEN socket ELSE [socket EXCEPT ![fd] = "closed"]
  /\ FreeAddrs
  /\ errno' \in {errno, "cleanup"}
  /\ pc' = "idle"
  /\ result' = -1
  /\ UNCHANGED <<helper, port_ok, fd, addrs, next, errstr, kept>>

\* fail: tells the caller, closes, frees, and restores errno, which close and
\* freeaddrinfo may have changed.
Fail ==
  /\ pc = "fail"
  /\ e' = errstr
  /\ socket' = IF fd = -1 THEN socket ELSE [socket EXCEPT ![fd] = "closed"]
  /\ FreeAddrs
  /\ pc' = "idle"
  /\ result' = -1
  /\ UNCHANGED <<helper, port_ok, fd, addrs, next, errstr, errno, kept>>

-----------------------------------------------------------------------------

\* A program that freed a list twice does nothing that could be relied on.
Next ==
  /\ ~broken
  /\ \/ \E h \in Helper, ok \in BOOLEAN : Call(h, ok)
     \/ \E f \in kept : Close(f)
     \/ NameTooLong
     \/ MissingName
     \/ \E f \in Fd : Socket(f)
     \/ SocketFails
     \/ \E n \in 1 .. MaxAddrs : Resolve(n)
     \/ ResolveFails
     \/ Connect
     \/ Bind
     \/ AttemptFails
     \/ Listen
     \/ ListenFails
     \/ Fail

Spec == Init /\ [][Next]_vars

-----------------------------------------------------------------------------
(* Properties.                                                             *)

\* Between calls the program has open what the caller was given and nothing
\* else, each of them connected or listening, and no list of addresses, by
\* whatever exit a helper returned.
OwnsOnlyResults ==
  pc = "idle" =>
    /\ {f \in Fd : socket[f] # "closed"} = kept
    /\ \A f \in kept : socket[f] \in {"connected", "listening"}
    /\ ~live

\* A failing helper tells what failed, twice, in its error string and in
\* errno, and the two agree, although it cleans up in between; but for a
\* name that is too long there is no string, and for one that does not
\* resolve no number.
Explanations ==
  {<<"missing server name", "EINVAL">>, <<"creating socket", "socket">>, <<"gai", "0">>,
   <<"connecting socket", "connect">>, <<"binding socket", "bind">>,
   <<"connecting socket", "EINVAL">>, <<"binding socket", "EINVAL">>,
   <<"listening socket", "listen">>, <<None, "ENAMETOOLONG">>}

FailureExplained ==
  pc = "idle" /\ result = -1 => <<e, errno>> \in Explanations

\* A list of addresses is freed once, on every path but one: when listen fails
\* after bind in ListenInet6, the fail path frees it again (netserver.cc:141,
\* 95).
FreedOnceUnlessListenFails == broken => helper = "ListenInet6" /\ errno = "listen"
=============================================================================
