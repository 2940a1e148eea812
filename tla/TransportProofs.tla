--------------------------- MODULE TransportProofs ---------------------------
(***************************************************************************)
(* Proofs of the safety properties of Transport, for every set of          *)
(* descriptors.  One inductive invariant carries all of them: it relates   *)
(* the two message flags, the last two lines printed, the socket in use    *)
(* and the number of frames lost to the state of every descriptor.         *)
(***************************************************************************)
EXTENDS Transport, TLAPS

(* How many frames can have been lost in a row depends on how far the      *)
(* socket is on its way from a pending error back to a new connection.     *)
MissedInv ==
  /\ missed <= 3
  /\ client_sockfd = NoSock => missed <= 2
  /\ client_sockfd # NoSock =>
       /\ link[client_sockfd] \in {"fin", "void", "reset"} => missed = 0
       /\ link[client_sockfd] = "broken" => missed <= 1

IInv ==
  /\ TypeOK
  /\ OnlyBrokenLeaks
  /\ LogAgreesWithSocket
  /\ LogAlternates
  /\ MissedInv

USE FdsAssumption

(* The invariant of the sending side holds at the start.                   *)
LEMMA InitInv == Init => IInv
<1> SUFFICES ASSUME Init PROVE IInv
  OBVIOUS
<1>1. TypeOK
  <2>1. client_sockfd \in Fds \cup {NoSock} /\ missed \in 0..4
    BY DEF Init
  <2>2. message_discard \in BOOLEAN /\ message_connected \in BOOLEAN
    BY DEF Init
  <2>3. link \in [Fds -> LinkStates] /\ listening \in BOOLEAN
    BY DEF Init, LinkStates
  <2>4. log \in [before : Lines, last : Lines] /\ fate \in Fates
    BY DEF Init, Lines, Fates
  <2> QED
    BY <2>1, <2>2, <2>3, <2>4 DEF TypeOK
<1>2. OnlyBrokenLeaks
  BY DEF Init, OnlyBrokenLeaks, NoSock
<1>3. LogAgreesWithSocket /\ LogAlternates
  BY DEF Init, LogAgreesWithSocket, LogAlternates, NoSock
<1>4. MissedInv
  BY DEF Init, MissedInv, NoSock
<1> QED
  BY <1>1, <1>2, <1>3, <1>4 DEF IInv

(* Every line printed is the last line, and it differs from the one before *)
(* it if it differs from what was the last line.                           *)
LEMMA PrintedLog ==
  ASSUME TypeOK, NEW line \in Lines, Printed(line)
  PROVE  /\ log' \in [before : Lines, last : Lines]
         /\ log'.before = log.last
         /\ log'.last = line
  BY DEF Printed, TypeOK

(* The count of frames lost stops at 4.                                    *)
LEMMA MissType ==
  ASSUME NEW n \in 0..4
  PROVE  /\ Miss(n) \in 0..4
         /\ n <= 3 => Miss(n) = n + 1
  BY DEF Miss

(* Every step keeps the types.                                             *)
LEMMA TypeStep ==
  ASSUME TypeOK, [Next]_vars
  PROVE  TypeOK'
<1>1. ASSUME NEW fd \in Fds, Connect(fd) PROVE TypeOK'
  <2>1. log' \in [before : Lines, last : Lines]
    BY <1>1, PrintedLog DEF Connect, TypeOK, Lines
  <2>2. link' \in [Fds -> LinkStates]
    BY <1>1 DEF Connect, TypeOK, LinkStates
  <2> QED
    BY <1>1, <2>1, <2>2, MissType DEF Connect, TypeOK, Fates
<1>2. CASE ConnectFails
  <2>1. log' \in [before : Lines, last : Lines]
    BY <1>2, PrintedLog DEF ConnectFails, TypeOK, Lines
  <2> QED
    BY <1>2, <2>1 DEF ConnectFails, TypeOK, Fates
<1>3. CASE SendKept
  BY <1>3 DEF SendKept, TypeOK, Fates
<1>4. CASE SendIntoVoid
  BY <1>4 DEF SendIntoVoid, TypeOK, Fates, LinkStates
<1>5. CASE SendFails
  BY <1>5, MissType DEF SendFails, TypeOK, Fates, LinkStates
<1>6. CASE SendRaisesSigpipe
  <2>1. log' \in [before : Lines, last : Lines]
    BY <1>6, PrintedLog DEF SendRaisesSigpipe, CatchServerBroken, Lines
  <2> QED
    BY <1>6, <2>1, MissType
    DEF SendRaisesSigpipe, CatchServerBroken, TypeOK, Fates
<1>7. CASE Network
  <2>1. link' \in [Fds -> LinkStates]
    BY <1>7 DEF Network, ListenChanges, PeerCloses, PeerResets, ResetArrives,
                TypeOK, LinkStates
  <2>2. listening' \in BOOLEAN
    BY <1>7 DEF Network, ListenChanges, PeerCloses, PeerResets, ResetArrives,
                TypeOK
  <2>3. missed' = 0 /\ Quiet
    BY <1>7 DEF Network, ListenChanges, PeerCloses, PeerResets, ResetArrives
  <2> QED
    BY <2>1, <2>2, <2>3 DEF Quiet, TypeOK
<1>8. CASE UNCHANGED vars
  BY <1>8 DEF vars, TypeOK
<1> QED
  BY <1>1, <1>2, <1>3, <1>4, <1>5, <1>6, <1>7, <1>8 DEF Next, do_trans

(* Only the handler forgets an open socket, and only a broken one.         *)
LEMMA LeakStep ==
  ASSUME TypeOK, OnlyBrokenLeaks, [Next]_vars
  PROVE  OnlyBrokenLeaks'
<1> USE DEF TypeOK, OnlyBrokenLeaks, NoSock
<1>1. ASSUME NEW fd \in Fds, Connect(fd) PROVE OnlyBrokenLeaks'
  BY <1>1 DEF Connect, FreeFds
<1>2. CASE ConnectFails
  BY <1>2 DEF ConnectFails
<1>3. CASE SendKept \/ SendIntoVoid \/ SendFails
  BY <1>3 DEF SendKept, SendIntoVoid, SendFails
<1>4. CASE SendRaisesSigpipe
  BY <1>4 DEF SendRaisesSigpipe, CatchServerBroken
<1>5. CASE ListenChanges
  BY <1>5 DEF ListenChanges, Quiet
<1>6. ASSUME NEW fd \in Fds,
             PeerCloses(fd) \/ PeerResets(fd) \/ ResetArrives(fd)
      PROVE  OnlyBrokenLeaks'
  BY <1>6 DEF PeerCloses, PeerResets, ResetArrives, Quiet
<1>7. CASE UNCHANGED vars
  BY <1>7 DEF vars
<1> QED
  BY <1>1, <1>2, <1>3, <1>4, <1>5, <1>6, <1>7 DEF Next, do_trans, Network

(* The flags, the last lines printed and the socket move together.         *)
LEMMA LogStep ==
  ASSUME TypeOK, LogAgreesWithSocket, LogAlternates, [Next]_vars
  PROVE  LogAgreesWithSocket' /\ LogAlternates'
<1> USE DEF LogAgreesWithSocket, LogAlternates
<1>1. ASSUME NEW fd \in Fds, Connect(fd)
      PROVE  LogAgreesWithSocket' /\ LogAlternates'
  <2>1. ~message_connected /\ Printed("connected")
    BY <1>1 DEF Connect
  <2>2. log'.before # "connected" /\ log'.last = "connected"
    BY <2>1, PrintedLog DEF Lines
  <2>3. message_connected' /\ ~message_discard' /\ client_sockfd' # NoSock
    BY <1>1, <2>1 DEF Connect, NoSock
  <2> QED
    BY <2>2, <2>3
<1>2. CASE ConnectFails
  <2>1. client_sockfd = NoSock /\ client_sockfd' = NoSock
    BY <1>2 DEF ConnectFails
  <2>2. CASE message_discard
    BY <1>2, <2>1, <2>2 DEF ConnectFails
  <2>3. CASE ~message_discard
    <3>1. Printed("can not connect")
      BY <1>2, <2>3 DEF ConnectFails
    <3>2. log'.before # "can not connect" /\ log'.last = "can not connect"
      BY <2>3, <3>1, PrintedLog DEF Lines
    <3>3. message_discard' /\ ~message_connected'
      BY <1>2, <2>3 DEF ConnectFails
    <3> QED
      BY <2>1, <3>2, <3>3
  <2> QED
    BY <2>2, <2>3
<1>3. CASE UNCHANGED <<client_sockfd, message_discard, message_connected, log>>
  BY <1>3
<1>4. CASE SendRaisesSigpipe
  <2>1. message_connected /\ Printed("is down")
    BY <1>4 DEF SendRaisesSigpipe, CatchServerBroken
  <2>2. log'.before = "connected" /\ log'.last = "is down"
    BY <2>1, PrintedLog DEF Lines
  <2>3. ~message_connected' /\ ~message_discard' /\ client_sockfd' = NoSock
    BY <1>4 DEF SendRaisesSigpipe, CatchServerBroken
  <2> QED
    BY <2>2, <2>3
<1> QED
  BY <1>1, <1>2, <1>3, <1>4
  DEF Next, do_trans, SendKept, SendIntoVoid, SendFails, Network,
      ListenChanges, PeerCloses, PeerResets, ResetArrives, Quiet, vars

(* A pending error, SIGPIPE and the connect cost one frame each.           *)
LEMMA MissedStep ==
  ASSUME TypeOK, OnlyBrokenLeaks, MissedInv, [Next]_vars
  PROVE  MissedInv'
<1> USE DEF TypeOK, MissedInv, NoSock
<1>1. ASSUME NEW fd \in Fds, Connect(fd) PROVE MissedInv'
  <2>1. missed' <= 3
    BY <1>1, MissType DEF Connect
  <2>2. client_sockfd' = fd /\ fd # NoSock /\ link'[fd] = "up"
    BY <1>1 DEF Connect
  <2> QED
    BY <2>1, <2>2
<1>2. CASE ConnectFails
  BY <1>2 DEF ConnectFails
<1>3. CASE SendKept
  BY <1>3 DEF SendKept
<1>4. CASE SendIntoVoid
  BY <1>4 DEF SendIntoVoid
<1>5. CASE SendFails
  BY <1>5, MissType DEF SendFails
<1>6. CASE SendRaisesSigpipe
  <2>1. missed <= 1 /\ missed' = Miss(missed) /\ client_sockfd' = NoSock
    BY <1>6 DEF SendRaisesSigpipe, CatchServerBroken
  <2>2. missed' \in 0..4 /\ missed' <= 2
    BY <2>1, MissType
  <2> QED
    BY <2>1, <2>2
<1>7. CASE Network
  <2>1. missed' = 0
    BY <1>7 DEF Network, ListenChanges, PeerCloses, PeerResets, ResetArrives
  <2> QED
    BY <2>1
<1>8. CASE UNCHANGED vars
  BY <1>8 DEF vars
<1> QED
  BY <1>1, <1>2, <1>3, <1>4, <1>5, <1>6, <1>7, <1>8 DEF Next, do_trans

(* The invariant of the sending side holds throughout.                     *)
LEMMA Invariance == Spec => []IInv
<1>1. IInv /\ [Next]_vars => IInv'
  BY TypeStep, LeakStep, LogStep, MissedStep DEF IInv
<1> QED
  BY InitInv, <1>1, PTL DEF Spec

-----------------------------------------------------------------------------
(* The descriptors, flags and links stay within their types.               *)
THEOREM TypeCorrect == Spec => []TypeOK
<1>1. IInv => TypeOK
  BY DEF IInv
<1> QED
  BY <1>1, Invariance, PTL

(* However often the server goes away, a forgotten descriptor is one whose *)
(* connection SIGPIPE has reported broken (spy.c:53-58, 59-86).            *)
THEOREM LeaksAreBroken == Spec => []OnlyBrokenLeaks
<1>1. IInv => OnlyBrokenLeaks
  BY DEF IInv
<1> QED
  BY <1>1, Invariance, PTL

(* The flags of spy.c:39-40 agree with the log and with the socket.        *)
THEOREM LogIsTrue == Spec => []LogAgreesWithSocket
<1>1. IInv => LogAgreesWithSocket
  BY DEF IInv
<1> QED
  BY <1>1, Invariance, PTL

(* No line is printed twice in a row, and "is down" follows "connected".   *)
THEOREM LogAlternating == Spec => []LogAlternates
<1>1. IInv => LogAlternates
  BY DEF IInv
<1> QED
  BY <1>1, Invariance, PTL

(* On a quiet network do_trans loses at most three frames in a row while   *)
(* the server can be reached.                                              *)
THEOREM RecoveryBounded == Spec => []RecoveryBound
<1>1. IInv => RecoveryBound
  BY DEF IInv, MissedInv, RecoveryBound
<1> QED
  BY <1>1, Invariance, PTL

=============================================================================
