------------------------------ MODULE Transport ------------------------------
(***************************************************************************)
(* The sending side of mycap (spy.c): do_trans, called by the capture      *)
(* thread for every 802.11 frame that passes the filter, the lazy connect  *)
(* in initSocket, and the SIGPIPE handler CatchServerBroken.               *)
(*                                                                         *)
(* The capture thread is the only caller of do_trans that ever has data    *)
(* (main.c:68, spy.c:138), so each call of do_trans is one step; the steps *)
(* of the network and of the server fall between the calls.  The content   *)
(* of a frame is abstracted away, what happens to it is not (`fate').      *)
(***************************************************************************)
EXTENDS Integers, FiniteSets

CONSTANT Fds  (* descriptor numbers left to the process for its sockets    *)

(* 0 is never among them: daemon() has opened /dev/null on 0, 1 and 2, and *)
(* the program uses 0 as "no socket".                                      *)
ASSUME FdsAssumption == Fds \subseteq Nat \ {0}

VARIABLES
  client_sockfd,      (* the socket do_trans sends on, 0 = none            *)
  message_discard,    (* "can not connect" was printed for this outage     *)
  message_connected,  (* "connected" was printed for this connection       *)
  link,               (* kernel: the state of each descriptor              *)
  listening,          (* is a connect() accepted at this moment?           *)
  log,                (* history: the last two lines printed               *)
  fate,               (* history: what became of the last frame            *)
  missed              (* history: frames lost in a row since anything      *)
                      (* happened in the network                           *)

vars == <<client_sockfd, message_discard, message_connected,
          link, listening, log, fate, missed>>

NoSock == 0

(* free    not an open descriptor                                          *)
(* up      connected, the server reads                                     *)
(* fin     the server has closed; the kernel still takes data              *)
(* void    data was sent after that, the server's RST is on its way        *)
(* reset   the server reset the connection; the error is still pending     *)
(* broken  the next send raises SIGPIPE                                    *)
LinkStates == {"free", "up", "fin", "void", "reset", "broken"}

Lines == {"none", "connected", "can not connect", "is down"}

(* kept       handed to the kernel on a live connection                    *)
(* void       handed to the kernel, but the server no longer reads         *)
(* failed     send() returned an error, which do_trans ignores             *)
(* discarded  do_trans returned without calling send()                     *)
Fates == {"none", "kept", "void", "failed", "discarded"}

TypeOK ==
  /\ client_sockfd \in Fds \cup {NoSock}
  /\ message_discard \in BOOLEAN
  /\ message_connected \in BOOLEAN
  /\ link \in [Fds -> LinkStates]
  /\ listening \in BOOLEAN
  /\ log \in [before : Lines, last : Lines]
  /\ fate \in Fates
  /\ missed \in 0..4

Init ==
  /\ client_sockfd = NoSock
  /\ message_discard = FALSE
  /\ message_connected = FALSE
  /\ link = [fd \in Fds |-> "free"]
  /\ listening \in BOOLEAN
  /\ log = [before |-> "none", last |-> "none"]
  /\ fate = "none"
  /\ missed = 0

FreeFds == {fd \in Fds : link[fd] = "free"}

(* printf of one line; only the last two are remembered.                   *)
Printed(line) == log' = [before |-> log.last, last |-> line]

(* `missed' saturates at 4, one past the bound that RecoveryBound states.  *)
Miss(n) == IF n < 4 THEN n + 1 ELSE n

-----------------------------------------------------------------------------
(* Faulty variants: each is the definition it is named after with one      *)
(* plausible slip in the C.  A property must fail when a variant takes its *)
(* place.  Nothing below refers to them.                                   *)

(* a "next data will be Discard" that do_trans takes literally             *)
ConnectUnlessDiscarding(fd) ==
  /\ client_sockfd = NoSock /\ listening /\ ~message_discard
  /\ fd \in FreeFds
  /\ client_sockfd' = fd
  /\ link' = [link EXCEPT ![fd] = "up"]
  /\ Printed("connected")
  /\ message_connected' = TRUE
  /\ fate' = "discarded"
  /\ missed' = Miss(missed)
  /\ UNCHANGED <<message_discard, listening>>

(* no client_sockfd = 0 (spy.c:77) after socket() returned -1              *)
ConnectFailsKeepsError ==
  /\ client_sockfd = NoSock
  /\ ~listening \/ FreeFds = {}
  /\ client_sockfd' = IF FreeFds = {} THEN -1 ELSE NoSock
  /\ message_discard' = TRUE
  /\ message_connected' = FALSE
  /\ fate' = "discarded"
  /\ UNCHANGED <<link, listening, missed, log>>

(* no message_discard = 1 (spy.c:94)                                       *)
ConnectFailsAlwaysPrints ==
  /\ client_sockfd = NoSock
  /\ ~listening \/ FreeFds = {}
  /\ Printed("can not connect")
  /\ message_connected' = FALSE
  /\ fate' = "discarded"
  /\ UNCHANGED <<client_sockfd, message_discard, link, listening, missed>>

(* the handler closes the socket but does not forget it                    *)
HandlerClosesOnly ==
  /\ link' = [link EXCEPT ![client_sockfd] = "free"]
  /\ Printed("is down")
  /\ message_discard' = FALSE
  /\ message_connected' = FALSE
  /\ UNCHANGED client_sockfd

(* no message_connected = 0 (spy.c:57)                                     *)
HandlerKeepsConnected ==
  /\ client_sockfd' = NoSock
  /\ Printed("is down")
  /\ message_discard' = FALSE
  /\ UNCHANGED <<message_connected, link>>

(* no client_sockfd = 0 (spy.c:54)                                         *)
HandlerKeepsSocket ==
  /\ Printed("is down")
  /\ message_discard' = FALSE
  /\ message_connected' = FALSE
  /\ UNCHANGED <<client_sockfd, link>>

-----------------------------------------------------------------------------
(* initSocket, called by do_trans when there is no socket.  Its close() of *)
(* an old socket (spy.c:61-62) never runs: client_sockfd is 0 here.        *)

(* socket() and connect() succeed; the success branch prints "connected"   *)
(* once per connection.  The frame that caused the call is not sent.       *)
Connect(fd) ==
  /\ client_sockfd = NoSock
  /\ listening
  /\ fd \in FreeFds
  /\ client_sockfd' = fd
  /\ link' = [link EXCEPT ![fd] = "up"]
  /\ IF ~message_connected
     THEN /\ Printed("connected")
          /\ message_discard' = FALSE
          /\ message_connected' = TRUE
     ELSE UNCHANGED <<log, message_discard, message_connected>>
  /\ fate' = "discarded"
  /\ missed' = Miss(missed)
  /\ UNCHANGED listening

(* connect() fails, or socket() finds no free descriptor: the descriptor   *)
(* is closed again and the frame is discarded.                             *)
ConnectFails ==
  /\ client_sockfd = NoSock
  /\ ~listening \/ FreeFds = {}
  /\ client_sockfd' = NoSock
  /\ IF ~message_discard
     THEN /\ Printed("can not connect")
          /\ message_discard' = TRUE
          /\ message_connected' = FALSE
     ELSE UNCHANGED <<log, message_discard, message_connected>>
  /\ fate' = "discarded"
  /\ UNCHANGED <<link, listening, missed>>

(* send() takes the frame; the server reads it.                            *)
SendKept ==
  /\ client_sockfd # NoSock
  /\ link[client_sockfd] = "up"
  /\ fate' = "kept"
  /\ missed' = 0
  /\ UNCHANGED <<client_sockfd, message_discard, message_connected,
                 link, listening, log>>

(* send() takes the frame, but the server has closed its end.              *)
SendIntoVoid ==
  /\ client_sockfd # NoSock
  /\ link[client_sockfd] \in {"fin", "void"}
  /\ link' = [link EXCEPT ![client_sockfd] = "void"]
  /\ fate' = "void"
  /\ UNCHANGED <<client_sockfd, message_discard, message_connected,
                 listening, log, missed>>

(* send() returns the pending error; do_trans does not look at it.         *)
SendFails ==
  /\ client_sockfd # NoSock
  /\ link[client_sockfd] = "reset"
  /\ link' = [link EXCEPT ![client_sockfd] = "broken"]
  /\ fate' = "failed"
  /\ missed' = Miss(missed)
  /\ UNCHANGED <<client_sockfd, message_discard, message_connected,
                 listening, log>>

(* CatchServerBroken: the socket is forgotten.                             *)
CatchServerBroken ==
  /\ client_sockfd' = NoSock
  /\ Printed("is down")
  /\ message_discard' = FALSE
  /\ message_connected' = FALSE
  /\ UNCHANGED link

(* send() raises SIGPIPE: the handler runs inside it, then EPIPE is        *)
(* returned and ignored.                                                   *)
SendRaisesSigpipe ==
  /\ client_sockfd # NoSock
  /\ link[client_sockfd] = "broken"
  /\ CatchServerBroken
  /\ fate' = "failed"
  /\ missed' = Miss(missed)
  /\ UNCHANGED listening

do_trans ==
  \/ \E fd \in Fds : Connect(fd)
  \/ ConnectFails
  \/ SendKept
  \/ SendIntoVoid
  \/ SendFails
  \/ SendRaisesSigpipe

-----------------------------------------------------------------------------
(* The environment: capserver and the network.                             *)

Quiet == UNCHANGED <<client_sockfd, message_discard, message_connected,
                     log, fate>>

(* capserver listens only around accept() (it closes the listening socket  *)
(* after each one, capserver.c:345), and it can be down.                   *)
ListenChanges ==
  /\ listening' = ~listening
  /\ missed' = 0
  /\ UNCHANGED link
  /\ Quiet

(* the server closes a connection it has read to the end                   *)
PeerCloses(fd) ==
  /\ link[fd] = "up"
  /\ link' = [link EXCEPT ![fd] = "fin"]
  /\ missed' = 0
  /\ UNCHANGED listening
  /\ Quiet

(* the server closes a connection with unread data, or its listening       *)
(* socket while the connection is still in the backlog, or the host goes   *)
PeerResets(fd) ==
  /\ link[fd] = "up"
  /\ link' = [link EXCEPT ![fd] = "reset"]
  /\ missed' = 0
  /\ UNCHANGED listening
  /\ Quiet

(* the RST that answers data sent to a closed end arrives: the kernel      *)
(* turns it into EPIPE, because the FIN was already seen                   *)
ResetArrives(fd) ==
  /\ link[fd] = "void"
  /\ link' = [link EXCEPT ![fd] = "broken"]
  /\ missed' = 0
  /\ UNCHANGED listening
  /\ Quiet

Network ==
  \/ ListenChanges
  \/ \E fd \in Fds : PeerCloses(fd) \/ PeerResets(fd) \/ ResetArrives(fd)

Next == do_trans \/ Network

(* Fairness: frames keep passing the filter, so do_trans keeps being       *)
(* called; a RST on its way arrives.                                       *)
Fairness ==
  /\ WF_vars(do_trans)
  /\ \A fd \in Fds : WF_vars(ResetArrives(fd))

Spec == Init /\ [][Next]_vars

FairSpec == Spec /\ Fairness

-----------------------------------------------------------------------------
(* Safety.                                                                 *)

(* The socket do_trans would send on is an open descriptor, and every      *)
(* other open descriptor is one whose connection SIGPIPE has already       *)
(* reported broken: the handler forgets the socket without closing it, so  *)
(* descriptors do leak, but never one with a connection that still works   *)
(* or an error nobody has seen.                                            *)
OnlyBrokenLeaks ==
  /\ client_sockfd # NoSock => link[client_sockfd] # "free"
  /\ \A fd \in Fds \ {client_sockfd} : link[fd] \in {"free", "broken"}

(* What the log says is so: the two message flags and the last line        *)
(* printed agree with each other and with whether there is a socket.       *)
LogAgreesWithSocket ==
  /\ message_connected <=> client_sockfd # NoSock
  /\ message_connected <=> log.last = "connected"
  /\ message_discard <=> log.last = "can not connect"

(* The flags suppress repeats: no line is printed twice in a row, and a    *)
(* server is reported down only when the line before said it was           *)
(* connected, however connects, losses and SIGPIPEs follow one another.    *)
LogAlternates ==
  /\ log.last # "none" => log.before # log.last
  /\ log.last = "is down" => log.before = "connected"

(* Once the network is quiet, with the server listening and a descriptor   *)
(* left, do_trans loses at most three more frames before one is kept: one  *)
(* to the pending error, one to SIGPIPE, one to the connect.  (Frames sent *)
(* into a closed end while its RST is on the way are not bounded.)         *)
RecoveryBound == missed <= 3

(* The log line of spy.c:93 and the package description (Makefile:12) say  *)
(* that a frame is discarded because the server can not be reached.        *)
DiscardOnlyWhenUnreachable ==
  fate = "discarded" => log.last = "can not connect"

-----------------------------------------------------------------------------
(* Liveness.                                                               *)

(* A socket whose connection the server ended is eventually given up.      *)
BrokenLinkIsNoticed ==
  \A fd \in Fds :
    client_sockfd = fd /\ link[fd] # "up" ~> client_sockfd # fd

(* If from some point on the server listens and a descriptor is left, the  *)
(* client is connected again and again.                                    *)
Reconnects ==
  <>[](listening /\ FreeFds # {}) => []<>(client_sockfd # NoSock)

(* The package description: frames are captured and sent to the server,    *)
(* whenever the server can be reached.                                     *)
SendsWhenServerListens ==
  <>[]listening => []<>(client_sockfd # NoSock)

=============================================================================
