--------------------------- MODULE SocketsProofs ---------------------------
(***************************************************************************)
(* Proofs about Sockets: the descriptor and the list of addresses have one *)
(* owner at every step of every helper, for any number of descriptors and  *)
(* addresses.                                                              *)
(***************************************************************************)
EXTENDS Sockets, TLAPS

TypeInv ==
  /\ pc \in {"idle", "begin", "resolve", "attempt", "listen", "fail"}
  /\ helper \in Helper
  /\ port_ok \in BOOLEAN
  /\ fd \in Fd \cup {-1}
  /\ addrs \in BOOLEAN
  /\ live \in BOOLEAN
  /\ broken \in BOOLEAN
  /\ socket \in [Fd -> SocketState]
  /\ kept \subseteq Fd

\* The descriptor a helper has made and not yet returned.
InHand == IF pc = "idle" \/ fd = -1 THEN {} ELSE {fd}

\* Every open descriptor is the caller's or in hand, and none is both.
DescriptorInv ==
  /\ \A f \in Fd : socket[f] # "closed" <=> f \in kept \cup InHand
  /\ InHand \cap kept = {}
  /\ \A f \in kept : socket[f] \in {"connected", "listening"}
  /\ pc = "begin" => fd = -1
  /\ pc \in {"resolve", "attempt", "listen"} => fd \in Fd

\* Where the list of addresses can be: addrs says so, until it is freed; the
\* fail path meets a freed one only behind listen in ListenInet6.
ListInv ==
  /\ live => addrs /\ pc \in {"attempt", "fail"}
  /\ addrs => Inet6
  /\ addrs => pc \notin {"begin", "resolve"}
  /\ pc = "resolve" => Inet6
  /\ pc = "attempt" /\ addrs => live
  /\ pc = "listen" => Listens
  /\ pc = "fail" /\ addrs /\ ~live => helper = "ListenInet6" /\ errno = "listen"
  /\ FreedOnceUnlessListenFails

\* What the fail path will tell is what went wrong.
ReasonInv ==
  /\ pc # "idle" => e = None
  /\ pc = "fail" => <<errstr, errno>> \in Explanations
  /\ FailureExplained

IInv == TypeInv /\ DescriptorInv /\ ListInv /\ ReasonInv

-----------------------------------------------------------------------------

\* A program that has called nothing yet owns nothing.
LEMMA InitIInv == Init => IInv
<1> SUFFICES ASSUME Init PROVE IInv
  OBVIOUS
<1>1. TypeInv
  BY DEF Init, TypeInv, Helper, SocketState
<1>2. DescriptorInv
  BY DEF Init, DescriptorInv, InHand
<1>3. ListInv
  BY DEF Init, ListInv, FreedOnceUnlessListenFails
<1>4. ReasonInv
  BY DEF Init, ReasonInv, FailureExplained
<1> QED
  BY <1>1, <1>2, <1>3, <1>4 DEF IInv

\* Each system call, however it turns out, keeps the invariant.
LEMMA NextIInv == IInv /\ [Next]_vars => IInv'
<1> SUFFICES ASSUME IInv, [Next]_vars PROVE IInv'
  OBVIOUS
<1> USE SocketsAssumption
<1>1. ASSUME ~broken, NEW h \in Helper, NEW ok \in BOOLEAN, Call(h, ok) PROVE IInv'
  <2>1. TypeInv'
    BY <1>1 DEF Call, IInv, TypeInv
  <2>2. DescriptorInv'
    BY <1>1 DEF Call, IInv, DescriptorInv, InHand
  <2>3. ListInv'
    BY <1>1 DEF Call, IInv, ListInv, FreedOnceUnlessListenFails
  <2>4. ReasonInv'
    BY <1>1 DEF Call, ReasonInv, FailureExplained
  <2> QED
    BY <2>1, <2>2, <2>3, <2>4 DEF IInv
<1>2. ASSUME ~broken, NEW f \in kept, Close(f) PROVE IInv'
  <2>1. TypeInv'
    BY <1>2 DEF Close, IInv, TypeInv, SocketState
  <2>2. DescriptorInv'
    BY <1>2 DEF Close, IInv, TypeInv, DescriptorInv, InHand
  <2>3. ListInv'
    BY <1>2 DEF Close, IInv, ListInv, FreedOnceUnlessListenFails, Inet6
  <2>4. ReasonInv'
    <3>1. result' # -1
      BY <1>2, -2 # -1 DEF Close
    <3> QED
      BY <1>2, <3>1 DEF Close, ReasonInv, FailureExplained
  <2> QED
    BY <2>1, <2>2, <2>3, <2>4 DEF IInv
<1>3. ASSUME ~broken, NameTooLong PROVE IInv'
  <2>1. TypeInv'
    BY <1>3 DEF NameTooLong, IInv, TypeInv
  <2>2. DescriptorInv'
    BY <1>3 DEF NameTooLong, IInv, DescriptorInv, InHand
  <2>3. ListInv'
    BY <1>3 DEF NameTooLong, IInv, ListInv, FreedOnceUnlessListenFails
  <2>4. ReasonInv'
    BY <1>3 DEF NameTooLong, IInv, ReasonInv, FailureExplained, Explanations
  <2> QED
    BY <2>1, <2>2, <2>3, <2>4 DEF IInv
<1>4. ASSUME ~broken, MissingName PROVE IInv'
  <2>1. TypeInv'
    BY <1>4 DEF MissingName, GoFail, IInv, TypeInv
  <2>2. DescriptorInv'
    BY <1>4 DEF MissingName, GoFail, IInv, DescriptorInv, InHand
  <2>3. ListInv'
    BY <1>4 DEF MissingName, GoFail, IInv, ListInv, FreedOnceUnlessListenFails
  <2>4. ReasonInv'
    BY <1>4 DEF MissingName, GoFail, IInv, ReasonInv, FailureExplained, Explanations
  <2> QED
    BY <2>1, <2>2, <2>3, <2>4 DEF IInv
<1>5. ASSUME ~broken, NEW f \in Fd, Socket(f) PROVE IInv'
  <2>1. TypeInv'
    BY <1>5 DEF Socket, IInv, TypeInv, SocketState
  <2>2. DescriptorInv'
    BY <1>5 DEF Socket, IInv, TypeInv, DescriptorInv, InHand
  <2>3. ListInv'
    BY <1>5 DEF Socket, IInv, ListInv, FreedOnceUnlessListenFails, Inet6
  <2>4. ReasonInv'
    BY <1>5 DEF Socket, IInv, ReasonInv, FailureExplained
  <2> QED
    BY <2>1, <2>2, <2>3, <2>4 DEF IInv
<1>6. ASSUME ~broken, SocketFails PROVE IInv'
  <2>1. TypeInv'
    BY <1>6 DEF SocketFails, GoFail, IInv, TypeInv
  <2>2. DescriptorInv'
    BY <1>6 DEF SocketFails, GoFail, IInv, DescriptorInv, InHand
  <2>3. ListInv'
    BY <1>6 DEF SocketFails, GoFail, IInv, ListInv, FreedOnceUnlessListenFails
  <2>4. ReasonInv'
    BY <1>6 DEF SocketFails, GoFail, IInv, ReasonInv, FailureExplained, Explanations
  <2> QED
    BY <2>1, <2>2, <2>3, <2>4 DEF IInv
<1>7. ASSUME ~broken, NEW n \in 1 .. MaxAddrs, Resolve(n) PROVE IInv'
  <2>1. TypeInv'
    BY <1>7 DEF Resolve, IInv, TypeInv
  <2>2. DescriptorInv'
    BY <1>7 DEF Resolve, IInv, DescriptorInv, InHand
  <2>3. ListInv'
    BY <1>7 DEF Resolve, IInv, ListInv, FreedOnceUnlessListenFails, Inet6
  <2>4. ReasonInv'
    BY <1>7 DEF Resolve, IInv, ReasonInv, FailureExplained
  <2> QED
    BY <2>1, <2>2, <2>3, <2>4 DEF IInv
<1>8. ASSUME ~broken, ResolveFails PROVE IInv'
  <2>1. TypeInv'
    BY <1>8 DEF ResolveFails, GoFail, IInv, TypeInv
  <2>2. DescriptorInv'
    BY <1>8 DEF ResolveFails, GoFail, IInv, DescriptorInv, InHand
  <2>3. ListInv'
    BY <1>8 DEF ResolveFails, GoFail, IInv, ListInv, FreedOnceUnlessListenFails
  <2>4. ReasonInv'
    BY <1>8 DEF ResolveFails, GoFail, IInv, ReasonInv, FailureExplained, Explanations
  <2> QED
    BY <2>1, <2>2, <2>3, <2>4 DEF IInv
<1>9. ASSUME ~broken, Connect PROVE IInv'
  <2>1. TypeInv'
    BY <1>9 DEF Connect, Return, IInv, TypeInv, DescriptorInv, SocketState
  <2>2. DescriptorInv'
    BY <1>9 DEF Connect, Return, IInv, TypeInv, DescriptorInv, InHand
  <2>3. ListInv'
    BY <1>9 DEF Connect, Return, IInv, ListInv, FreedOnceUnlessListenFails, Inet6
  <2>4. ReasonInv'
    BY <1>9 DEF Connect, Return, IInv, DescriptorInv, ReasonInv, FailureExplained
  <2> QED
    BY <2>1, <2>2, <2>3, <2>4 DEF IInv
<1>10. ASSUME ~broken, Bind PROVE IInv'
  <2>1. TypeInv'
    BY <1>10 DEF Bind, IInv, TypeInv, SocketState
  <2>2. DescriptorInv'
    BY <1>10 DEF Bind, IInv, DescriptorInv, InHand
  <2>3. ListInv'
    BY <1>10 DEF Bind, IInv, ListInv, FreedOnceUnlessListenFails, Inet6, Listens
  <2>4. ReasonInv'
    BY <1>10 DEF Bind, IInv, ReasonInv, FailureExplained
  <2> QED
    BY <2>1, <2>2, <2>3, <2>4 DEF IInv
<1>11. ASSUME ~broken, AttemptFails PROVE IInv'
  <2>1. TypeInv'
    BY <1>11 DEF AttemptFails, GoFail, IInv, TypeInv
  <2>2. DescriptorInv'
    BY <1>11 DEF AttemptFails, GoFail, IInv, DescriptorInv, InHand
  <2>3. ListInv'
    BY <1>11 DEF AttemptFails, GoFail, IInv, ListInv, FreedOnceUnlessListenFails, Inet6
  <2>4. ReasonInv'
    BY <1>11 DEF AttemptFails, GoFail, IInv, ReasonInv, FailureExplained, Explanations
  <2> QED
    BY <2>1, <2>2, <2>3, <2>4 DEF IInv
<1>12. ASSUME ~broken, Listen PROVE IInv'
  <2>1. TypeInv'
    BY <1>12 DEF Listen, Return, IInv, TypeInv, DescriptorInv, SocketState
  <2>2. DescriptorInv'
    BY <1>12 DEF Listen, Return, IInv, TypeInv, DescriptorInv, InHand
  <2>3. ListInv'
    BY <1>12 DEF Listen, Return, IInv, ListInv, FreedOnceUnlessListenFails, Inet6
  <2>4. ReasonInv'
    BY <1>12 DEF Listen, Return, IInv, DescriptorInv, ReasonInv, FailureExplained
  <2> QED
    BY <2>1, <2>2, <2>3, <2>4 DEF IInv
<1>13. ASSUME ~broken, ListenFails PROVE IInv'
  <2>1. TypeInv'
    BY <1>13 DEF ListenFails, GoFail, IInv, TypeInv
  <2>2. DescriptorInv'
    BY <1>13 DEF ListenFails, GoFail, IInv, DescriptorInv, InHand
  <2>3. ListInv'
    BY <1>13 DEF ListenFails, GoFail, IInv, ListInv, FreedOnceUnlessListenFails, Inet6, Listens
  <2>4. ReasonInv'
    BY <1>13 DEF ListenFails, GoFail, IInv, ReasonInv, FailureExplained, Explanations
  <2> QED
    BY <2>1, <2>2, <2>3, <2>4 DEF IInv
<1>14. ASSUME ~broken, Fail PROVE IInv'
  <2>1. TypeInv'
    BY <1>14 DEF Fail, FreeAddrs, IInv, TypeInv, SocketState
  <2>2. DescriptorInv'
    BY <1>14 DEF Fail, IInv, TypeInv, DescriptorInv, InHand
  <2>3. ListInv'
    BY <1>14 DEF Fail, FreeAddrs, IInv, ListInv, FreedOnceUnlessListenFails, Inet6
  <2>4. ReasonInv'
    BY <1>14 DEF Fail, FreeAddrs, IInv, TypeInv, DescriptorInv, ReasonInv, FailureExplained
  <2> QED
    BY <2>1, <2>2, <2>3, <2>4 DEF IInv
<1>15. CASE UNCHANGED vars
  BY <1>15 DEF vars, IInv, TypeInv, DescriptorInv, ListInv, ReasonInv, InHand, Inet6, Listens,
       FreedOnceUnlessListenFails, FailureExplained
<1> QED
  BY <1>1, <1>2, <1>3, <1>4, <1>5, <1>6, <1>7, <1>8,
     <1>9, <1>10, <1>11, <1>12, <1>13, <1>14, <1>15 DEF Next

\* The descriptor and the list are where the helpers' variables say.
THEOREM InvariantHolds == Spec => []IInv
<1> QED
  BY InitIInv, NextIInv, PTL DEF Spec

\* No exit of any helper leaks a descriptor or a list, for any number of them.
THEOREM NothingLeaks == Spec => []OwnsOnlyResults
<1>1. IInv => OwnsOnlyResults
  BY DEF IInv, TypeInv, DescriptorInv, ListInv, InHand, OwnsOnlyResults
<1> QED
  BY <1>1, InvariantHolds, PTL

\* Whatever fails, string and errno tell it, and agree.
THEOREM FailuresAreExplained == Spec => []FailureExplained
<1>1. IInv => FailureExplained
  BY DEF IInv, ReasonInv
<1> QED
  BY <1>1, InvariantHolds, PTL

\* There is one path on which a list is freed twice.
THEOREM FreedTwiceOnOnePath == Spec => []FreedOnceUnlessListenFails
<1>1. IInv => FreedOnceUnlessListenFails
  BY DEF IInv, ListInv
<1> QED
  BY <1>1, InvariantHolds, PTL
=============================================================================
