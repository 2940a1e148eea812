---------------------------- MODULE CaptureProofs ----------------------------
(***************************************************************************)
(* Proofs about LogQueue, for any number of producers and nodes: the list  *)
(* is intact, no node has two owners, and the queue behaves as FifoQueue.  *)
(* The inductive invariant says what the thread inside the critical        *)
(* section has already changed, for each place it can be at.               *)
(*                                                                         *)
(* And about CaptureProgram, for any number of signals too.  The program   *)
(* only takes steps that LogQueue allows, so what is proved of the queue   *)
(* holds in it; and its shutdown is clean.                                 *)
(***************************************************************************)
EXTENDS CaptureProgram, TLAPS

(* Exactly the holder of the mutex is between lock and unlock.             *)
Exclusive ==
  /\ \A p \in Producers :
       pc[p] \in {"link", "tail", "unlock"} <=> queue_mutex = p
  /\ trans_pc \in {"read", "advance", "trim", "unlock"}
       <=> queue_mutex = trans

(* When the local variables hold a node.                                   *)
Locals ==
  /\ \A p \in Producers : node[p] = NULL <=> pc[p] = "idle"
  /\ trans_pc \in {"check", "lock", "read", "done"} => ret = NULL
  /\ trans_pc \in {"advance", "trim", "send", "free"} => ret # NULL

(* The links of the nodes pushed: the last one is already set to the node  *)
(* being pushed when PushLink has been done.                               *)
Links ==
  /\ \A i \in 1..Len(fifo) - 1 : next[fifo[i]] = fifo[i + 1]
  /\ fifo # <<>> =>
       /\ \A p \in Producers :
            pc[p] \in {"tail", "unlock"} => next[Newest(fifo)] = node[p]
       /\ (\A p \in Producers : pc[p] \notin {"tail", "unlock"})
            => next[Newest(fifo)] = NULL
  /\ \A p \in Producers : node[p] # NULL => next[node[p]] = NULL

PoppedAt(l) == trans_pc \in l /\ ret # NULL
PushedAt(l) == \E p \in Producers : pc[p] \in l

Top ==
  /\ \A p \in Producers :
       pc[p] \in {"tail", "unlock"} =>
         top_of_queue = IF fifo = <<>> THEN node[p] ELSE fifo[1]
  /\ PoppedAt({"trim", "unlock"}) =>
       top_of_queue = Oldest(Tail(fifo))
  /\ ~PushedAt({"tail", "unlock"}) /\ ~PoppedAt({"trim", "unlock"})
       => top_of_queue = Oldest(fifo)
  /\ trans_pc = "advance" => ret = top_of_queue
  /\ PoppedAt({"advance", "trim", "unlock"}) => fifo # <<>> /\ ret = fifo[1]
  /\ trans_pc = "unlock" /\ ret = NULL => fifo = <<>>

End ==
  /\ \A p \in Producers : pc[p] = "unlock" => end_of_queue = node[p]
  /\ PoppedAt({"unlock"}) => end_of_queue = Newest(Tail(fifo))
  /\ ~PushedAt({"unlock"}) /\ ~PoppedAt({"unlock"})
       => end_of_queue = Newest(fifo)

IInv == TypeOK /\ Exclusive /\ Locals /\ OneOwner /\ Links /\ Top /\ End

USE ThreadsAssumption, NullAssumption

-----------------------------------------------------------------------------
(* Sequences of nodes.                                                     *)

(* A node pushed at the end of the list, and what that leaves alone.       *)
LEMMA AppendFacts ==
  ASSUME NEW s \in Seq(Nodes), NEW n \in Nodes
  PROVE  /\ Append(s, n) \in Seq(Nodes)
         /\ Append(s, n) # <<>>
         /\ Len(Append(s, n)) = Len(s) + 1
         /\ \A i \in 1..Len(s) : Append(s, n)[i] = s[i]
         /\ Append(s, n)[Len(s) + 1] = n
         /\ NodesOf(Append(s, n)) = NodesOf(s) \cup {n}
         /\ Newest(Append(s, n)) = n
         /\ Oldest(Append(s, n)) = IF s = <<>> THEN n ELSE s[1]
<1>1. /\ Append(s, n) \in Seq(Nodes)
      /\ Append(s, n) # <<>>
      /\ Len(Append(s, n)) = Len(s) + 1
      /\ \A i \in 1..Len(s) : Append(s, n)[i] = s[i]
      /\ Append(s, n)[Len(s) + 1] = n
  OBVIOUS
<1>2. NodesOf(Append(s, n)) = NodesOf(s) \cup {n}
  BY <1>1 DEF NodesOf
<1>3. Newest(Append(s, n)) = n
  BY <1>1 DEF Newest
<1>4. Oldest(Append(s, n)) = IF s = <<>> THEN n ELSE s[1]
  BY <1>1 DEF Oldest
<1> QED
  BY <1>1, <1>2, <1>3, <1>4

(* The list without its oldest node.                                       *)
LEMMA TailFacts ==
  ASSUME NEW s \in Seq(Nodes), s # <<>>
  PROVE  /\ Tail(s) \in Seq(Nodes)
         /\ Len(s) \in Nat \ {0}
         /\ Len(Tail(s)) = Len(s) - 1
         /\ \A i \in 1..Len(s) - 1 : Tail(s)[i] = s[i + 1]
         /\ NodesOf(Tail(s)) \subseteq NodesOf(s)
         /\ s[1] \in NodesOf(s) /\ s[1] \in Nodes /\ Head(s) = s[1]
         /\ Tail(s) # <<>> => Newest(Tail(s)) = Newest(s)
         /\ Newest(s) = s[Len(s)] /\ Newest(s) \in NodesOf(s)
<1>1. /\ Tail(s) \in Seq(Nodes)
      /\ Len(s) \in Nat \ {0}
      /\ Len(Tail(s)) = Len(s) - 1
      /\ \A i \in 1..Len(s) - 1 : Tail(s)[i] = s[i + 1]
      /\ s[1] \in Nodes /\ Head(s) = s[1]
  OBVIOUS
<1>2. NodesOf(Tail(s)) \subseteq NodesOf(s)
  BY <1>1 DEF NodesOf
<1>3. s[1] \in NodesOf(s) /\ Newest(s) = s[Len(s)] /\ Newest(s) \in NodesOf(s)
  BY <1>1 DEF NodesOf, Newest
<1>4. ASSUME Tail(s) # <<>> PROVE Newest(Tail(s)) = Newest(s)
  <2>1. Len(Tail(s)) # 0
    BY <1>1, <1>4
  <2> QED
    BY <1>1, <1>4, <2>1 DEF Newest
<1> QED
  BY <1>1, <1>2, <1>3, <1>4

(* The second node becomes the oldest.                                     *)
LEMMA OldestOfTail ==
  ASSUME NEW s \in Seq(Nodes), s # <<>>, Len(s) # 1
  PROVE  1 \in 1..Len(s) - 1 /\ Oldest(Tail(s)) = s[1 + 1]
<1>1. Len(s) \in Nat /\ Len(s) # 0 /\ Len(Tail(s)) = Len(s) - 1
  BY TailFacts
<1>2. 1 \in 1..Len(s) - 1 /\ Len(Tail(s)) # 0
  BY <1>1
<1>3. Tail(s)[1] = s[1 + 1]
  BY <1>2, TailFacts
<1>4. Tail(s) # <<>>
  <2>1. Len(<<>>) = 0
    OBVIOUS
  <2> QED
    BY <1>2, <2>1
<1> QED
  BY <1>2, <1>3, <1>4 DEF Oldest

(* The nodes of a list; NULL is none of them.                              *)
LEMMA MemberFacts ==
  ASSUME NEW s \in Seq(Nodes)
  PROVE  /\ NodesOf(s) \subseteq Nodes
         /\ \A i \in 1..Len(s) : s[i] \in NodesOf(s) /\ s[i] \in Nodes
         /\ NULL \notin NodesOf(s)
         /\ s = <<>> <=> Newest(s) = NULL
         /\ s = <<>> <=> Oldest(s) = NULL
<1>1. \A i \in 1..Len(s) : s[i] \in Nodes
  OBVIOUS
<1>2. s # <<>> => 1 \in 1..Len(s) /\ Len(s) \in 1..Len(s)
  OBVIOUS
<1> QED
  BY <1>1, <1>2 DEF NodesOf, Newest, Oldest

-----------------------------------------------------------------------------
(* The queue starts with an empty list and nobody in it.                   *)
LEMMA InitInv == Init => IInv
<1> SUFFICES ASSUME Init PROVE IInv
  OBVIOUS
<1>0. fifo = <<>> /\ Len(fifo) = 0
  BY DEF Init
<1>1. TypeOK
  <2>1. top_of_queue \in Pointers /\ end_of_queue \in Pointers /\ ret \in Pointers
    BY DEF Init, Pointers
  <2>2. next \in [Nodes -> Pointers] /\ node \in [Producers -> Pointers]
    BY DEF Init, Pointers
  <2>3. allocated \subseteq Nodes /\ queue_mutex \in Producers \cup {trans, NULL}
    BY DEF Init
  <2>4. pc \in [Producers -> ProducerPc] /\ trans_pc \in TransPc
    BY DEF Init, ProducerPc, TransPc
  <2>5. trans_running \in BOOLEAN
    BY DEF Init
  <2>6. fifo \in Seq(Nodes)
    BY <1>0
  <2> QED
    BY <2>1, <2>2, <2>3, <2>4, <2>5, <2>6 DEF TypeOK
<1>2. Exclusive /\ Locals
  BY DEF Init, Exclusive, Locals
<1>3. OneOwner
  BY <1>0 DEF Init, OneOwner, NodesOf
<1>4. Links
  BY <1>0 DEF Init, Links
<1>5. Top /\ End
  BY <1>0 DEF Init, Top, End, PoppedAt, PushedAt, Oldest, Newest
<1> QED
  BY <1>1, <1>2, <1>3, <1>4, <1>5 DEF IInv

(* No step of a thread leaves the types.                                   *)
LEMMA TypeStep ==
  ASSUME TypeOK, Locals, Top, [Next]_vars
  PROVE  TypeOK'
<1> USE DEF TypeOK, Pointers
<1>1. ASSUME NEW p \in Producers, NewNode(p) PROVE TypeOK'
  BY <1>1 DEF NewNode, Goto, ProducerPc, consVars
<1>2. ASSUME NEW p \in Producers, PushLock(p) PROVE TypeOK'
  BY <1>2 DEF PushLock, Goto, ProducerPc, listVars, consVars
<1>3. ASSUME NEW p \in Producers, PushLink(p) PROVE TypeOK'
  <2>1. top_of_queue' \in Pointers /\ next' \in [Nodes -> Pointers]
    BY <1>3 DEF PushLink
  <2> QED
    BY <1>3, <2>1 DEF PushLink, Goto, ProducerPc, consVars
<1>4. ASSUME NEW p \in Producers, PushTail(p) PROVE TypeOK'
  BY <1>4 DEF PushTail, Goto, ProducerPc, consVars
<1>5. ASSUME NEW p \in Producers, PushUnlock(p) PROVE TypeOK'
  <2>1. node[p] \in Nodes
    BY <1>5 DEF PushUnlock, Locals
  <2>2. fifo' \in Seq(Nodes)
    BY <1>5, <2>1, AppendFacts DEF PushUnlock
  <2> QED
    BY <1>5, <2>2 DEF PushUnlock, Goto, ProducerPc, listVars, consVars
<1>6. CASE CheckRunning
  BY <1>6 DEF CheckRunning, TransGoto, TransPc, listVars, prodVars
<1>7. CASE PopLock
  BY <1>7 DEF PopLock, TransGoto, TransPc, listVars, prodVars
<1>8. CASE PopRead
  BY <1>8 DEF PopRead, TransGoto, TransPc, listVars, prodVars
<1>9. CASE PopAdvance
  <2>1. top_of_queue \in Nodes
    BY <1>9 DEF PopAdvance, Locals, Top
  <2> QED
    BY <1>9, <2>1 DEF PopAdvance, TransGoto, TransPc, prodVars
<1>10. CASE PopTrim
  BY <1>10 DEF PopTrim, TransGoto, TransPc, prodVars
<1>11. CASE PopUnlock
  <2>1. fifo' \in Seq(Nodes)
    BY <1>11, TailFacts DEF PopUnlock, Top, PoppedAt
  <2> QED
    BY <1>11, <2>1 DEF PopUnlock, TransGoto, TransPc, listVars, prodVars
<1>12. CASE Transmit
  BY <1>12 DEF Transmit, TransGoto, TransPc, listVars, prodVars
<1>13. CASE FreeNode
  BY <1>13 DEF FreeNode, TransGoto, TransPc, listVars, prodVars
<1>14. CASE stop_trans
  BY <1>14 DEF stop_trans, listVars, prodVars, consVars
<1>15. CASE UNCHANGED vars
  BY <1>15 DEF vars, listVars, prodVars, consVars
<1> QED
  BY <1>1, <1>2, <1>3, <1>4, <1>5, <1>6, <1>7, <1>8, <1>9, <1>10, <1>11,
     <1>12, <1>13, <1>14, <1>15 DEF Next, Push, trans_buff

(* Only the holder of the mutex is in a critical section.                  *)
LEMMA ExclusiveStep ==
  ASSUME TypeOK, Exclusive, [Next]_vars
  PROVE  Exclusive'
<1> USE DEF TypeOK, Exclusive
<1>1. ASSUME NEW p \in Producers, Push(p) PROVE Exclusive'
  BY <1>1 DEF Push, NewNode, PushLock, PushLink, PushTail, PushUnlock, Goto,
              consVars
<1>2. CASE trans_buff
  BY <1>2 DEF trans_buff, CheckRunning, PopLock, PopRead, PopAdvance, PopTrim,
              PopUnlock, Transmit, FreeNode, TransGoto, prodVars
<1>3. CASE stop_trans
  BY <1>3 DEF stop_trans, prodVars, consVars
<1>4. CASE UNCHANGED vars
  BY <1>4 DEF vars, prodVars, consVars
<1> QED
  BY <1>1, <1>2, <1>3, <1>4 DEF Next

(* What a thread's locals point to stays its own.                          *)
LEMMA LocalsStep ==
  ASSUME TypeOK, Locals, Top, [Next]_vars
  PROVE  Locals'
<1> USE DEF TypeOK, Locals
<1>1. ASSUME NEW p \in Producers, Push(p) PROVE Locals'
  BY <1>1 DEF Push, NewNode, PushLock, PushLink, PushTail, PushUnlock, Goto,
              consVars
<1>2. CASE CheckRunning \/ PopLock \/ PopRead \/ PopAdvance \/ PopTrim
  BY <1>2 DEF CheckRunning, PopLock, PopRead, PopAdvance, PopTrim, TransGoto,
              prodVars
<1>3. CASE PopUnlock
  BY <1>3 DEF PopUnlock, TransGoto, prodVars
<1>4. CASE Transmit \/ FreeNode
  BY <1>4 DEF Transmit, FreeNode, TransGoto, prodVars
<1>5. CASE stop_trans
  BY <1>5 DEF stop_trans, prodVars, consVars
<1>6. CASE UNCHANGED vars
  BY <1>6 DEF vars, prodVars, consVars
<1> QED
  BY <1>1, <1>2, <1>3, <1>4, <1>5, <1>6 DEF Next, trans_buff

(* A node changes hands at NewNode, PushUnlock, PopUnlock and FreeNode.    *)
LEMMA OwnerStep ==
  ASSUME TypeOK, Exclusive, Locals, OneOwner, Top, [Next]_vars
  PROVE  OneOwner'
<1> USE DEF TypeOK
<1>1. ASSUME NEW p \in Producers, NewNode(p) PROVE OneOwner'
  <2>1. PICK n \in Nodes \ allocated :
          /\ allocated' = allocated \cup {n}
          /\ node' = [node EXCEPT ![p] = n]
    BY <1>1 DEF NewNode
  <2>2. UNCHANGED <<fifo, trans_pc, ret>>
    BY <1>1 DEF NewNode, consVars
  <2>3. NodesOf(fifo)' = NodesOf(fifo)
    BY <2>2 DEF NodesOf
  <2> QED
    BY <2>1, <2>2, <2>3 DEF OneOwner
<1>2. ASSUME NEW p \in Producers, PushUnlock(p) PROVE OneOwner'
  <2>1. node[p] # NULL /\ node[p] \in Nodes /\ fifo' = Append(fifo, node[p])
    BY <1>2 DEF PushUnlock, Locals, Pointers
  <2>2. node' = [node EXCEPT ![p] = NULL] /\ UNCHANGED <<allocated, trans_pc, ret>>
    BY <1>2 DEF PushUnlock, consVars
  <2>3. NodesOf(fifo)' = NodesOf(fifo) \cup {node[p]}
    BY <2>1, AppendFacts DEF NodesOf
  <2>4. \A i, j \in 1..Len(fifo') : fifo'[i] = fifo'[j] => i = j
    <3>1. node[p] \notin NodesOf(fifo)
      BY <2>1 DEF OneOwner
    <3>2. \A i \in 1..Len(fifo) : fifo[i] # node[p]
      BY <3>1, MemberFacts
    <3> QED
      BY <2>1, <3>2, AppendFacts DEF OneOwner
  <2>5. trans_pc' \in {"send", "free"} =>
          /\ ret' \in allocated' \ NodesOf(fifo)'
          /\ \A q \in Producers : ret' # node'[q]
    BY <2>1, <2>2, <2>3, NullAssumption DEF OneOwner, Pointers, Locals
  <2> QED
    BY <2>1, <2>2, <2>3, <2>4, <2>5 DEF OneOwner
<1>3. CASE PopUnlock
  <2>1. CASE ret = NULL
    BY <1>3, <2>1 DEF PopUnlock, TransGoto, OneOwner, NodesOf, prodVars
  <2>2. CASE ret # NULL
    <3>1. fifo # <<>> /\ ret = fifo[1] /\ fifo' = Tail(fifo)
      BY <1>3, <2>2 DEF PopUnlock, Top, PoppedAt
    <3>2. UNCHANGED <<allocated, node, ret>>
      BY <1>3 DEF PopUnlock, prodVars
    <3>3. NodesOf(fifo)' \subseteq NodesOf(fifo) /\ ret \in NodesOf(fifo)
      BY <3>1, TailFacts DEF NodesOf
    <3>4. ret \notin NodesOf(fifo)'
      BY <3>1, TailFacts DEF NodesOf, OneOwner
    <3>5. \A i, j \in 1..Len(fifo') : fifo'[i] = fifo'[j] => i = j
      BY <3>1, TailFacts DEF OneOwner
    <3> QED
      BY <3>2, <3>3, <3>4, <3>5, <2>2 DEF OneOwner
  <2> QED
    BY <2>1, <2>2
<1>4. CASE FreeNode
  <2>1. /\ trans_pc = "free" /\ trans_pc' = "check"
        /\ allocated' = allocated \ {ret}
        /\ UNCHANGED <<fifo, node>>
    BY <1>4 DEF FreeNode, TransGoto, prodVars
  <2>2. NodesOf(fifo)' = NodesOf(fifo)
    BY <2>1 DEF NodesOf
  <2> QED
    BY <2>1, <2>2 DEF OneOwner
<1>5. ASSUME UNCHANGED <<allocated, node, fifo>>,
             \/ trans_pc' \notin {"send", "free"}
             \/ trans_pc \in {"send", "free"} /\ UNCHANGED ret
      PROVE  OneOwner'
  <2>1. NodesOf(fifo)' = NodesOf(fifo)
    BY <1>5 DEF NodesOf
  <2> QED
    BY <1>5, <2>1 DEF OneOwner
<1>6. ASSUME NEW p \in Producers, PushLock(p) \/ PushLink(p) \/ PushTail(p)
      PROVE  OneOwner'
  BY <1>5, <1>6 DEF PushLock, PushLink, PushTail, consVars
<1>7. CASE CheckRunning \/ PopLock \/ PopRead \/ PopAdvance \/ PopTrim \/ Transmit
  BY <1>5, <1>7 DEF CheckRunning, PopLock, PopRead, PopAdvance, PopTrim,
                    Transmit, TransGoto, prodVars
<1>8. CASE stop_trans \/ UNCHANGED vars
  BY <1>5, <1>8 DEF stop_trans, vars, prodVars, consVars
<1> QED
  BY <1>1, <1>2, <1>3, <1>4, <1>6, <1>7, <1>8 DEF Next, Push, trans_buff

(* next is written by NewNode, for a node nobody can reach, and by         *)
(* PushLink, for the last node of the list.                                *)
LEMMA LinksStep ==
  ASSUME TypeOK, Exclusive, Locals, OneOwner, Links, Top, End, [Next]_vars
  PROVE  Links'
<1> USE DEF TypeOK
<1>1. ASSUME NEW p \in Producers, NewNode(p) PROVE Links'
  <2>1. PICK n \in Nodes \ allocated :
          /\ node' = [node EXCEPT ![p] = n]
          /\ next' = [next EXCEPT ![n] = NULL]
    BY <1>1 DEF NewNode
  <2>2. UNCHANGED fifo /\ pc[p] = "idle" /\ pc' = [pc EXCEPT ![p] = "lock"]
    BY <1>1 DEF NewNode, Goto
  <2>3. \A i \in 1..Len(fifo) : fifo[i] # n
    BY MemberFacts DEF OneOwner
  <2>4. \A i \in 1..Len(fifo) - 1 : next'[fifo'[i]] = fifo'[i + 1]
    BY <2>1, <2>2, <2>3, MemberFacts DEF Links
  <2>5. fifo # <<>> =>
          /\ next'[Newest(fifo)] = next[Newest(fifo)]
          /\ Newest(fifo)' = Newest(fifo)
    BY <2>1, <2>2, TailFacts DEF OneOwner, Newest
  <2>6. \A q \in Producers : node'[q] # NULL => next'[node'[q]] = NULL
    BY <2>1 DEF Links, OneOwner, Pointers
  <2>7. \A q \in Producers : pc'[q] \in {"tail", "unlock"} =>
          pc[q] \in {"tail", "unlock"} /\ node'[q] = node[q]
    BY <2>1, <2>2
  <2>8. \A q \in Producers : pc[q] \in {"tail", "unlock"} =>
          pc'[q] \in {"tail", "unlock"}
    BY <2>2
  <2> QED
    BY <2>2, <2>4, <2>5, <2>6, <2>7, <2>8 DEF Links
<1>2. ASSUME NEW p \in Producers, PushLink(p) PROVE Links'
  <2>1. /\ pc[p] = "link" /\ pc' = [pc EXCEPT ![p] = "tail"]
        /\ UNCHANGED <<fifo, node>>
        /\ node[p] # NULL /\ node[p] \in Nodes
    BY <1>2 DEF PushLink, Goto, Locals, Pointers
  <2>2. \A q \in Producers : q # p => pc[q] \notin {"link", "tail", "unlock"}
    BY <2>1 DEF Exclusive
  <2>3. end_of_queue = Newest(fifo)
    BY <2>1, <2>2 DEF End, Exclusive, PushedAt, PoppedAt
  <2>4. CASE fifo = <<>>
    BY <1>2, <2>1, <2>3, <2>4, MemberFacts DEF PushLink, Links
  <2>5. CASE fifo # <<>>
    <3>1. next' = [next EXCEPT ![Newest(fifo)] = node[p]]
      BY <1>2, <2>3, <2>5, MemberFacts DEF PushLink
    <3>2. Newest(fifo) = fifo[Len(fifo)] /\ Newest(fifo) \in Nodes
      BY <2>5, TailFacts, MemberFacts
    <3>3. \A i \in 1..Len(fifo) - 1 : fifo[i] # Newest(fifo)
      BY <3>2 DEF OneOwner
    <3>4. \A i \in 1..Len(fifo) - 1 : next'[fifo[i]] = fifo[i + 1]
      BY <3>1, <3>3, MemberFacts DEF Links
    <3>5. \A q \in Producers : node[q] # Newest(fifo)
      BY <2>5, TailFacts, <3>2, NullAssumption DEF OneOwner
    <3>6. \A q \in Producers : node[q] # NULL => next'[node[q]] = NULL
      BY <3>1, <3>5 DEF Links, Pointers
    <3>7. next'[Newest(fifo)] = node[p] /\ Newest(fifo)' = Newest(fifo)
      BY <2>1, <3>1, <3>2 DEF Newest
    <3>8. \A q \in Producers : pc'[q] \in {"tail", "unlock"} <=> q = p
      BY <2>1, <2>2
    <3> QED
      BY <2>1, <3>4, <3>6, <3>7, <3>8 DEF Links
  <2> QED
    BY <2>4, <2>5
<1>3. ASSUME NEW p \in Producers, PushUnlock(p) PROVE Links'
  <2>1. /\ pc[p] = "unlock" /\ pc' = [pc EXCEPT ![p] = "idle"]
        /\ node' = [node EXCEPT ![p] = NULL]
        /\ fifo' = Append(fifo, node[p]) /\ UNCHANGED next
        /\ node[p] # NULL /\ node[p] \in Nodes
    BY <1>3 DEF PushUnlock, Goto, Locals, Pointers, listVars
  <2>2. \A q \in Producers : pc'[q] \notin {"tail", "unlock"}
    BY <2>1 DEF Exclusive
  <2>3. next[node[p]] = NULL /\ Newest(fifo)' = node[p]
    BY <2>1, AppendFacts DEF Links, Newest
  <2>4. \A i \in 1..Len(fifo') - 1 : next[fifo'[i]] = fifo'[i + 1]
    <3> SUFFICES ASSUME NEW i \in 1..Len(fifo) PROVE next[fifo'[i]] = fifo'[i + 1]
      BY <2>1, AppendFacts
    <3>1. CASE i = Len(fifo)
      <4>1. fifo # <<>> /\ Newest(fifo) = fifo[i]
        BY <3>1 DEF Newest
      <4>2. next[fifo[i]] = node[p]
        BY <2>1, <4>1 DEF Links
      <4> QED
        BY <2>1, <3>1, <4>2, AppendFacts
    <3>2. CASE i # Len(fifo)
      <4>1. i \in 1..Len(fifo) - 1 /\ i + 1 \in 1..Len(fifo)
        BY <3>2
      <4> QED
        BY <2>1, <4>1, AppendFacts DEF Links
    <3> QED
      BY <3>1, <3>2
  <2>5. \A q \in Producers : node'[q] # NULL => next[node'[q]] = NULL
    BY <2>1 DEF Links
  <2> QED
    BY <2>1, <2>2, <2>3, <2>4, <2>5 DEF Links
<1>4. CASE PopUnlock
  <2>1. UNCHANGED <<next, pc, node>>
    BY <1>4 DEF PopUnlock, listVars, prodVars
  <2>2. CASE UNCHANGED fifo
    BY <2>1, <2>2 DEF Links, Newest
  <2>3. CASE fifo # <<>> /\ fifo' = Tail(fifo)
    <3>1. \A i \in 1..Len(fifo') - 1 : next[fifo'[i]] = fifo'[i + 1]
      <4> SUFFICES ASSUME NEW i \in 1..Len(fifo) - 2
                   PROVE  next[fifo'[i]] = fifo'[i + 1]
        BY <2>3, TailFacts
      <4>1. /\ i \in 1..Len(fifo) - 1 /\ i + 1 \in 1..Len(fifo) - 1
            /\ Len(fifo) \in Nat
        OBVIOUS
      <4> QED
        BY <2>3, <4>1, TailFacts DEF Links
    <3>2. fifo' # <<>> => Newest(fifo)' = Newest(fifo)
      BY <2>3, TailFacts DEF Newest
    <3> QED
      BY <2>1, <2>3, <3>1, <3>2 DEF Links
  <2> QED
    BY <1>4, <2>2, <2>3 DEF PopUnlock, Top, PoppedAt
<1>5. ASSUME UNCHANGED <<next, node, fifo>>,
             \A q \in Producers : pc'[q] \in {"tail", "unlock"}
                                    <=> pc[q] \in {"tail", "unlock"}
      PROVE  Links'
  <2>1. Newest(fifo)' = Newest(fifo)
    BY <1>5 DEF Newest
  <2> QED
    BY <1>5, <2>1 DEF Links
<1>6. ASSUME NEW p \in Producers, PushLock(p) \/ PushTail(p) PROVE Links'
  BY <1>5, <1>6 DEF PushLock, PushTail, Goto, listVars
<1>7. CASE trans_buff /\ ~PopUnlock
  BY <1>5, <1>7 DEF trans_buff, CheckRunning, PopLock, PopRead, PopAdvance,
                    PopTrim, Transmit, FreeNode, listVars, prodVars
<1>8. CASE stop_trans \/ UNCHANGED vars
  BY <1>5, <1>8 DEF stop_trans, vars, listVars, prodVars
<1> QED
  BY <1>1, <1>2, <1>3, <1>4, <1>6, <1>7, <1>8 DEF Next, Push

(* Who is in the critical section is what Top and End look at.             *)
LEMMA CriticalSection ==
  ASSUME TypeOK, Exclusive
  PROVE  /\ \A p, q \in Producers :
              pc[p] \in {"link", "tail", "unlock"}
              /\ pc[q] \in {"link", "tail", "unlock"} => p = q
         /\ \A p \in Producers :
              pc[p] \in {"link", "tail", "unlock"} =>
                trans_pc \notin {"read", "advance", "trim", "unlock"}
  BY DEF TypeOK, Exclusive

(* top is the oldest node at every place of the holder.                    *)
LEMMA TopStep ==
  ASSUME TypeOK, Exclusive, Locals, Links, Top, End, [Next]_vars
  PROVE  Top'
<1> USE DEF TypeOK, PoppedAt, PushedAt
<1>1. ASSUME NEW p \in Producers, PushLink(p) PROVE Top'
  <2>1. /\ pc[p] = "link" /\ pc' = [pc EXCEPT ![p] = "tail"]
        /\ UNCHANGED <<fifo, node, trans_pc, ret>>
        /\ trans_pc \notin {"read", "advance", "trim", "unlock"}
        /\ \A q \in Producers : q # p => pc[q] \notin {"tail", "unlock"}
    BY <1>1, CriticalSection DEF PushLink, Goto, consVars
  <2>2. top_of_queue = Oldest(fifo) /\ end_of_queue = Newest(fifo)
    BY <2>1 DEF Top, End
  <2>3. top_of_queue' = IF fifo = <<>> THEN node[p] ELSE fifo[1]
    BY <1>1, <2>2, MemberFacts DEF PushLink, Oldest
  <2> QED
    BY <2>1, <2>3 DEF Top
<1>2. ASSUME NEW p \in Producers, PushUnlock(p) PROVE Top'
  <2>1. /\ pc[p] = "unlock" /\ pc' = [pc EXCEPT ![p] = "idle"]
        /\ fifo' = Append(fifo, node[p])
        /\ UNCHANGED <<top_of_queue, trans_pc, ret>>
        /\ node[p] \in Nodes
    BY <1>2 DEF PushUnlock, Goto, Locals, Pointers, listVars, consVars
  <2>2. /\ trans_pc \notin {"read", "advance", "trim", "unlock"}
        /\ \A q \in Producers : pc'[q] \notin {"tail", "unlock"}
    BY <2>1, CriticalSection
  <2>3. top_of_queue' = Oldest(fifo)'
    BY <2>1, AppendFacts DEF Top, Oldest
  <2> QED
    BY <2>1, <2>2, <2>3 DEF Top
<1>3. CASE PopRead
  <2>1. /\ trans_pc = "read" /\ ret' = top_of_queue
        /\ trans_pc' = IF top_of_queue = NULL THEN "unlock" ELSE "advance"
        /\ UNCHANGED <<fifo, pc, node, top_of_queue>>
    BY <1>3 DEF PopRead, TransGoto, listVars, prodVars
  <2>2. \A q \in Producers : pc[q] \notin {"tail", "unlock"}
    BY <2>1, CriticalSection
  <2>3. top_of_queue = Oldest(fifo)
    BY <2>1, <2>2 DEF Top
  <2>4. Oldest(fifo)' = Oldest(fifo)
    BY <2>1 DEF Oldest
  <2>5. top_of_queue # NULL => fifo # <<>> /\ top_of_queue = fifo[1]
    BY <2>3 DEF Oldest
  <2>6. top_of_queue = NULL => fifo = <<>>
    BY <2>3, MemberFacts
  <2> QED
    BY <2>1, <2>2, <2>3, <2>4, <2>5, <2>6 DEF Top
<1>4. CASE PopAdvance
  <2>1. /\ trans_pc = "advance" /\ trans_pc' = "trim"
        /\ top_of_queue' = next[top_of_queue]
        /\ UNCHANGED <<fifo, pc, node, ret, next>>
    BY <1>4 DEF PopAdvance, TransGoto, prodVars
  <2>2. \A q \in Producers : pc[q] \notin {"tail", "unlock"}
    BY <2>1, CriticalSection
  <2>3. fifo # <<>> /\ ret = fifo[1] /\ top_of_queue = fifo[1] /\ ret # NULL
    BY <2>1 DEF Top, Locals
  <2>4. next[fifo[1]] = Oldest(Tail(fifo))
    <3>1. CASE Len(fifo) = 1
      <4>1. Tail(fifo) = <<>> /\ Newest(fifo) = fifo[1]
        BY <2>3, <3>1, TailFacts
      <4> QED
        BY <2>2, <2>3, <4>1 DEF Links, Oldest
    <3>2. CASE Len(fifo) # 1
      <4>1. 1 \in 1..Len(fifo) - 1 /\ Oldest(Tail(fifo)) = fifo[1 + 1]
        BY <2>3, <3>2, OldestOfTail
      <4>2. next[fifo[1]] = fifo[1 + 1]
        BY <4>1 DEF Links
      <4> QED
        BY <4>1, <4>2
    <3> QED
      BY <3>1, <3>2
  <2> QED
    BY <2>1, <2>2, <2>3, <2>4 DEF Top
<1>5. CASE PopUnlock
  <2>1. /\ trans_pc = "unlock" /\ trans_pc' \notin {"advance", "trim", "unlock"}
        /\ UNCHANGED <<pc, node, ret, top_of_queue>>
        /\ fifo' = IF ret = NULL THEN fifo ELSE Tail(fifo)
    BY <1>5 DEF PopUnlock, TransGoto, listVars, prodVars
  <2>2. \A q \in Producers : pc[q] \notin {"tail", "unlock"}
    BY <2>1, CriticalSection
  <2>3. top_of_queue = Oldest(fifo)'
    BY <2>1, <2>2 DEF Top, Oldest
  <2> QED
    BY <2>1, <2>2, <2>3 DEF Top
<1>6. ASSUME UNCHANGED <<top_of_queue, fifo>>,
             \A q \in Producers : pc'[q] \in {"tail", "unlock"} =>
               pc[q] \in {"tail", "unlock"} /\ node'[q] = node[q],
             \A q \in Producers : pc[q] \in {"tail", "unlock"} =>
               pc'[q] \in {"tail", "unlock"},
             \/ UNCHANGED <<trans_pc, ret>>
             \/ trans_pc = "trim" /\ trans_pc' = "unlock" /\ UNCHANGED ret
                /\ ret # NULL
             \/ /\ trans_pc \notin {"advance", "trim", "unlock"}
                /\ trans_pc' \notin {"advance", "trim", "unlock"}
      PROVE  Top'
  <2>1. Oldest(fifo)' = Oldest(fifo) /\ Oldest(Tail(fifo))' = Oldest(Tail(fifo))
    BY <1>6 DEF Oldest
  <2> QED
    BY <1>6, <2>1 DEF Top
<1>7. ASSUME NEW p \in Producers, NewNode(p) \/ PushLock(p) \/ PushTail(p)
      PROVE  Top'
  BY <1>6, <1>7 DEF NewNode, PushLock, PushTail, Goto, listVars, consVars
<1>8. CASE CheckRunning \/ PopLock \/ PopTrim \/ Transmit \/ FreeNode
  BY <1>6, <1>8 DEF CheckRunning, PopLock, PopTrim, Transmit, FreeNode,
                    TransGoto, Locals, listVars, prodVars
<1>9. CASE stop_trans \/ UNCHANGED vars
  BY <1>6, <1>9 DEF stop_trans, vars, listVars, prodVars, consVars
<1> QED
  BY <1>1, <1>2, <1>3, <1>4, <1>5, <1>7, <1>8, <1>9 DEF Next, Push, trans_buff

(* end_of_queue is the newest node, or is about to be trimmed.             *)
LEMMA EndStep ==
  ASSUME TypeOK, Exclusive, Locals, Top, End, [Next]_vars
  PROVE  End'
<1> USE DEF TypeOK, PoppedAt, PushedAt
<1>1. ASSUME NEW p \in Producers, PushTail(p) PROVE End'
  <2>1. /\ pc[p] = "tail" /\ pc' = [pc EXCEPT ![p] = "unlock"]
        /\ end_of_queue' = node[p]
        /\ UNCHANGED <<fifo, node, trans_pc, ret>>
        /\ trans_pc \notin {"read", "advance", "trim", "unlock"}
        /\ \A q \in Producers : q # p => pc[q] \notin {"tail", "unlock"}
    BY <1>1, CriticalSection DEF PushTail, Goto, consVars
  <2> QED
    BY <2>1 DEF End
<1>2. ASSUME NEW p \in Producers, PushUnlock(p) PROVE End'
  <2>1. /\ pc[p] = "unlock" /\ pc' = [pc EXCEPT ![p] = "idle"]
        /\ fifo' = Append(fifo, node[p])
        /\ UNCHANGED <<end_of_queue, trans_pc, ret>>
        /\ node[p] \in Nodes
    BY <1>2 DEF PushUnlock, Goto, Locals, Pointers, listVars, consVars
  <2>2. /\ trans_pc \notin {"read", "advance", "trim", "unlock"}
        /\ \A q \in Producers : pc'[q] # "unlock"
    BY <2>1, CriticalSection
  <2>3. end_of_queue' = Newest(fifo)'
    BY <2>1, AppendFacts DEF End, Newest
  <2> QED
    BY <2>1, <2>2, <2>3 DEF End
<1>3. CASE PopRead
  <2>1. /\ trans_pc = "read" /\ ret' = top_of_queue
        /\ trans_pc' = IF top_of_queue = NULL THEN "unlock" ELSE "advance"
        /\ UNCHANGED <<fifo, pc, node, end_of_queue>>
    BY <1>3 DEF PopRead, TransGoto, listVars, prodVars
  <2>2. Newest(fifo)' = Newest(fifo)
    BY <2>1 DEF Newest
  <2>3. ~PoppedAt({"unlock"})' /\ ~PoppedAt({"unlock"})
    BY <2>1
  <2> QED
    BY <2>1, <2>2, <2>3 DEF End
<1>4. CASE PopTrim
  <2>1. /\ trans_pc = "trim" /\ trans_pc' = "unlock" /\ ret # NULL
        /\ end_of_queue' = IF top_of_queue = NULL THEN NULL ELSE end_of_queue
        /\ UNCHANGED <<fifo, pc, node, ret>>
    BY <1>4 DEF PopTrim, TransGoto, prodVars, Locals
  <2>2. \A q \in Producers : pc[q] # "unlock"
    BY <2>1, CriticalSection
  <2>3. fifo # <<>> /\ top_of_queue = Oldest(Tail(fifo)) /\ end_of_queue = Newest(fifo)
    BY <2>1, <2>2 DEF Top, End
  <2>4. end_of_queue' = Newest(Tail(fifo))
    <3>1. Tail(fifo) \in Seq(Nodes)
      BY <2>3, TailFacts
    <3>2. CASE Tail(fifo) = <<>>
      BY <2>1, <2>3, <3>2 DEF Oldest, Newest
    <3>3. CASE Tail(fifo) # <<>>
      <4>1. top_of_queue # NULL
        BY <2>3, <3>1, <3>3, MemberFacts
      <4> QED
        BY <2>1, <2>3, <3>3, <4>1, TailFacts
    <3> QED
      BY <3>2, <3>3
  <2>5. Newest(Tail(fifo))' = Newest(Tail(fifo))
    BY <2>1 DEF Newest
  <2> QED
    BY <2>1, <2>2, <2>4, <2>5 DEF End
<1>5. CASE PopUnlock
  <2>1. /\ trans_pc = "unlock" /\ trans_pc' # "unlock"
        /\ UNCHANGED <<pc, node, ret, end_of_queue>>
        /\ fifo' = IF ret = NULL THEN fifo ELSE Tail(fifo)
    BY <1>5 DEF PopUnlock, TransGoto, listVars, prodVars
  <2>2. \A q \in Producers : pc[q] # "unlock"
    BY <2>1, CriticalSection
  <2>3. end_of_queue = Newest(fifo)'
    BY <2>1, <2>2 DEF End, Newest
  <2> QED
    BY <2>1, <2>2, <2>3 DEF End
<1>6. ASSUME UNCHANGED <<end_of_queue, fifo>>,
             \A q \in Producers : pc'[q] = "unlock" =>
               pc[q] = "unlock" /\ node'[q] = node[q],
             \A q \in Producers : pc[q] = "unlock" => pc'[q] = "unlock",
             \/ UNCHANGED <<trans_pc, ret>>
             \/ trans_pc # "unlock" /\ trans_pc' # "unlock"
      PROVE  End'
  <2>1. Newest(fifo)' = Newest(fifo) /\ Newest(Tail(fifo))' = Newest(Tail(fifo))
    BY <1>6 DEF Newest
  <2> QED
    BY <1>6, <2>1 DEF End
<1>7. ASSUME NEW p \in Producers, NewNode(p) \/ PushLock(p) \/ PushLink(p)
      PROVE  End'
  BY <1>6, <1>7 DEF NewNode, PushLock, PushLink, Goto, listVars, consVars
<1>8. CASE CheckRunning \/ PopLock \/ PopAdvance \/ Transmit \/ FreeNode
  BY <1>6, <1>8 DEF CheckRunning, PopLock, PopAdvance, Transmit, FreeNode,
                    TransGoto, listVars, prodVars
<1>9. CASE stop_trans \/ UNCHANGED vars
  BY <1>6, <1>9 DEF stop_trans, vars, listVars, prodVars, consVars
<1> QED
  BY <1>1, <1>2, <1>3, <1>4, <1>5, <1>7, <1>8, <1>9 DEF Next, Push, trans_buff

(* The invariant of the linked list holds throughout.                      *)
LEMMA Invariance == Spec => []IInv
<1>1. IInv /\ [Next]_vars => IInv'
  BY TypeStep, ExclusiveStep, LocalsStep, OwnerStep, LinksStep, TopStep, EndStep
  DEF IInv
<1> QED
  BY InitInv, <1>1, PTL DEF Spec

-----------------------------------------------------------------------------
(* Pointers, program counters and the queue stay within their types.       *)
THEOREM TypeCorrect == Spec => []TypeOK
<1>1. IInv => TypeOK
  BY DEF IInv
<1> QED
  BY <1>1, Invariance, PTL

(* No node has two owners or is freed while it can be reached, for any     *)
(* number of threads that push.                                            *)
THEOREM OneOwnerAlways == Spec => []OneOwner
<1>1. IInv => OneOwner
  BY DEF IInv
<1> QED
  BY <1>1, Invariance, PTL

(* Between two critical sections top, end and the links spell the queue.   *)
THEOREM ListIntactAlways == Spec => []ListIntact
<1>1. IInv => ListIntact
  <2> SUFFICES ASSUME IInv, queue_mutex = NULL
               PROVE  /\ top_of_queue = Oldest(fifo)
                      /\ end_of_queue = Newest(fifo)
                      /\ \A i \in 1..Len(fifo) :
                           next[fifo[i]] = IF i = Len(fifo) THEN NULL ELSE fifo[i + 1]
    BY DEF ListIntact
  <2> USE DEF IInv
  <2>1. /\ \A p \in Producers : pc[p] \notin {"link", "tail", "unlock"}
        /\ trans_pc \notin {"read", "advance", "trim", "unlock"}
    BY DEF Exclusive
  <2>2. top_of_queue = Oldest(fifo)
    BY <2>1 DEF Top, PoppedAt, PushedAt
  <2>3. end_of_queue = Newest(fifo)
    BY <2>1 DEF End, PoppedAt, PushedAt
  <2>4. ASSUME NEW i \in 1..Len(fifo)
        PROVE  next[fifo[i]] = IF i = Len(fifo) THEN NULL ELSE fifo[i + 1]
    <3>1. CASE i = Len(fifo)
      <4>1. fifo # <<>> /\ Newest(fifo) = fifo[i]
        BY <3>1 DEF Newest
      <4> QED
        BY <2>1, <3>1, <4>1 DEF Links
    <3>2. CASE i # Len(fifo)
      <4>1. i \in 1..Len(fifo) - 1
        BY <3>2 DEF TypeOK
      <4> QED
        BY <3>2, <4>1 DEF Links
    <3> QED
      BY <3>1, <3>2
  <2> QED
    BY <2>2, <2>3, <2>4
<1> QED
  BY <1>1, Invariance, PTL

-----------------------------------------------------------------------------
(* The refinement.  An operation takes effect when it gives up the mutex.  *)

(* Every access is a step of the FIFO queue or leaves it alone.            *)
LEMMA StepRefines ==
  ASSUME IInv, [Next]_vars
  PROVE  [Fifo!Next]_(Fifo!vars)
<1> USE DEF IInv, TypeOK
<1>1. ASSUME NEW p \in Producers, PushUnlock(p) PROVE Fifo!Next
  <2>1. /\ node[p] \in Nodes /\ node[p] # NULL /\ fifo' = Append(fifo, node[p])
        /\ UNCHANGED <<trans_pc, ret>>
    BY <1>1 DEF PushUnlock, Locals, Pointers, consVars
  <2>2. node[p] \notin NodesOf(fifo)
    BY <2>1 DEF OneOwner
  <2>3. node[p] \notin Fifo!Queued
    BY <2>2 DEF NodesOf, Fifo!Queued
  <2>4. InHand # node[p] /\ InHand' = InHand
    BY <2>1 DEF InHand, OneOwner
  <2>5. Fifo!Put(node[p])
    BY <2>1, <2>3, <2>4 DEF Fifo!Put
  <2> QED
    BY <2>1, <2>5 DEF Fifo!Next
<1>2. CASE PopUnlock
  <2>1. CASE ret = NULL
    <3>1. UNCHANGED <<fifo, InHand>>
      BY <1>2, <2>1 DEF PopUnlock, TransGoto, InHand
    <3> QED
      BY <3>1 DEF Fifo!vars
  <2>2. CASE ret # NULL
    <3>1. /\ fifo # <<>> /\ ret = fifo[1] /\ fifo' = Tail(fifo)
          /\ trans_pc = "unlock" /\ trans_pc' = "send" /\ ret' = ret
      BY <1>2, <2>2 DEF PopUnlock, TransGoto, Top, PoppedAt
    <3>2. Head(fifo) = ret
      BY <3>1, TailFacts
    <3>3. InHand = NULL /\ InHand' = ret
      BY <3>1 DEF InHand
    <3> QED
      BY <3>1, <3>2, <3>3 DEF Fifo!Next, Fifo!Take
  <2> QED
    BY <2>1, <2>2
<1>3. CASE FreeNode
  <2>1. InHand # NULL /\ InHand' = NULL /\ UNCHANGED fifo
    BY <1>3 DEF FreeNode, TransGoto, InHand, Locals
  <2> QED
    BY <2>1 DEF Fifo!Next, Fifo!Release
<1>4. ASSUME NEW p \in Producers,
             NewNode(p) \/ PushLock(p) \/ PushLink(p) \/ PushTail(p)
      PROVE  UNCHANGED Fifo!vars
  BY <1>4 DEF NewNode, PushLock, PushLink, PushTail, consVars, InHand, Fifo!vars
<1>5. CASE CheckRunning \/ PopLock \/ PopRead \/ PopAdvance \/ PopTrim \/ Transmit
  BY <1>5 DEF CheckRunning, PopLock, PopRead, PopAdvance, PopTrim, Transmit,
              TransGoto, InHand, Fifo!vars
<1>6. CASE stop_trans \/ UNCHANGED vars
  BY <1>6 DEF stop_trans, vars, consVars, InHand, Fifo!vars
<1> QED
  BY <1>1, <1>2, <1>3, <1>4, <1>5, <1>6 DEF Next, Push, trans_buff

(* The linked list under its mutex implements the atomic FIFO queue: what  *)
(* trans_buff gets is always the oldest string not yet taken, each once.   *)
THEOREM Refinement == Spec => RefinesFifo
<1>1. Init => Fifo!Init
  BY DEF Init, Fifo!Init, InHand
<1> QED
  BY <1>1, Invariance, StepRefines, PTL DEF Spec, RefinesFifo, Fifo!Spec

-----------------------------------------------------------------------------
(* Every step of the program is a step of the queue or leaves it alone.    *)
LEMMA StepComposes == CaptureNext => [Next]_vars
<1> SUFFICES ASSUME CaptureNext PROVE [Next]_vars
  OBVIOUS
<1>1. CASE Open \/ Create \/ LoopReturns
  BY <1>1 DEF Open, Create, LoopReturns
<1>2. ASSUME NEW h \in Threads, Signal(h) \/ ClosePd(h) \/ JoinT1(h) \/ Joined(h)
      PROVE UNCHANGED vars
  BY <1>2 DEF Signal, ClosePd, JoinT1, Joined
<1>3. ASSUME NEW h \in Threads, StopTrans(h) PROVE Next
  BY <1>3 DEF StopTrans, Next
<1>4. ASSUME NEW p \in Producers, Runs(Push(p)) PROVE Next
  BY <1>4 DEF Runs, Next
<1>5. ASSUME TransRuns(trans_buff) PROVE Next
  BY <1>5 DEF TransRuns, Runs, Next
<1> QED
  BY <1>1, <1>2, <1>3, <1>4, <1>5 DEF CaptureNext, CatchShutdown

(* The capture program uses the queue as LogQueue says: every behaviour of *)
(* main.c, with its signals and faults, is a behaviour of the queue.       *)
THEOREM Composition == CaptureSpec => Spec
<1>1. [CaptureNext]_allVars => [Next]_vars
  BY StepComposes DEF allVars
<1> QED
  BY <1>1, PTL DEF CaptureSpec, CaptureInit, Spec

(* No node of the queue has two owners or is freed early, whatever signals *)
(* and faults end the program.                                             *)
THEOREM CaptureOneOwner == CaptureSpec => []OneOwner
  BY Composition, OneOwnerAlways, PTL

(* Whenever the mutex is free the list spells the strings still queued.    *)
THEOREM CaptureListIntact == CaptureSpec => []ListIntact
  BY Composition, ListIntactAlways, PTL

(* The program's queue is an atomic FIFO queue.                            *)
THEOREM CaptureRefinement == CaptureSpec => RefinesFifo
  BY Composition, Refinement, PTL

-----------------------------------------------------------------------------
(* What makes the shutdown clean, thread by thread.                        *)

USE CaptureThreadsAssumption

(* Only a thread that found main in the handler is in it too, and each     *)
(* thread in it has been counted.                                          *)
Counted ==
  /\ \A h \in Threads : handler_pc[h] # "none" =>
       calls > 0 /\ handler_pc[main] # "none"
  /\ \A h, k \in Threads :
       h # k /\ handler_pc[h] # "none" /\ handler_pc[k] # "none" => calls > 1

(* How far main got before the handler took over.                          *)
Prepared ==
  /\ main_pc # "open" => pd # "null"
  /\ t1 => main_pc = "loop"
  /\ pd = "closed" => handler_pc[main] # "none"

(* What a thread in the handler has already done.                          *)
Progress ==
  \A h \in Threads :
    /\ handler_pc[h] = "close" /\ pd = "closed" => calls > 1
    /\ handler_pc[h] \in {"stop", "join", "wait"} => pd # "open"
    /\ handler_pc[h] \in {"join", "wait"} => ~trans_running
    /\ handler_pc[h] = "wait" => t1

CaptureInv ==
  /\ CaptureTypeOK /\ Counted /\ Prepared /\ Progress
  /\ FaultsExplained /\ ExitIsClean

(* The program starts with nothing opened and no thread.                   *)
LEMMA CaptureInitInv == CaptureInit => CaptureInv
<1> SUFFICES ASSUME CaptureInit PROVE CaptureInv
  OBVIOUS
<1>1. TypeOK
  BY InitInv DEF CaptureInit, IInv
<1>2. CaptureTypeOK
  <2>1. 0 \in 0..MaxCalls
    OBVIOUS
  <2>2. [h \in Threads |-> "none"]
          \in [Threads -> {"none", "close", "stop", "join", "wait"}]
    OBVIOUS
  <2> QED
    BY <1>1, <2>1, <2>2 DEF CaptureInit, CaptureTypeOK
<1>3. Counted /\ Prepared /\ Progress
  BY DEF CaptureInit, Counted, Prepared, Progress, Threads
<1>4. FaultsExplained /\ ExitIsClean
  BY DEF CaptureInit, FaultsExplained, ExitIsClean
<1> QED
  BY <1>2, <1>3, <1>4 DEF CaptureInv

(* A step of the queue alone leaves the program's variables as they are,   *)
(* and never sets trans_running.                                           *)
LEMMA QueueStep ==
  ASSUME CaptureInv, TypeOK', UNCHANGED progVars, Alive,
         trans_running' => trans_running
  PROVE  CaptureInv'
<1> USE DEF CaptureInv, progVars
<1>1. CaptureTypeOK'
  BY DEF CaptureTypeOK
<1>2. Counted' /\ Prepared' /\ Progress'
  BY DEF Counted, Prepared, Progress
<1>3. FaultsExplained' /\ ExitIsClean'
  BY DEF FaultsExplained, ExitIsClean, Alive
<1> QED
  BY <1>1, <1>2, <1>3

(* pcap_open_live, pthread_create, pcap_loop and the signals.              *)
LEMMA EnterStep ==
  ASSUME CaptureInv,
         NEW h \in Threads, Enter(h), UNCHANGED <<vars, pd, t1, main_pc, outcome>>,
         Alive, h # main => handler_pc[main] # "none"
  PROVE  CaptureInv'
<1>1. /\ calls' = calls + 1 /\ calls \in Nat /\ calls' \in 0..MaxCalls
      /\ handler_pc' = [handler_pc EXCEPT ![h] = "close"]
      /\ handler_pc \in [Threads -> {"none", "close", "stop", "join", "wait"}]
  <2>1. /\ calls \in 0..MaxCalls
        /\ handler_pc \in [Threads -> {"none", "close", "stop", "join", "wait"}]
    BY DEF CaptureInv, CaptureTypeOK
  <2>2. calls < MaxCalls /\ calls' = calls + 1
        /\ handler_pc' = [handler_pc EXCEPT ![h] = "close"]
    BY DEF Enter, HandlerGoto
  <2>3. calls \in Nat /\ calls' \in 0..MaxCalls
    BY <2>1, <2>2
  <2> QED
    BY <2>1, <2>2, <2>3
<1>2. CaptureTypeOK'
  <2>1. TypeOK'
    BY DEF CaptureInv, CaptureTypeOK, TypeOK, vars, listVars, prodVars, consVars
  <2> QED
    BY <1>1, <2>1 DEF CaptureInv, CaptureTypeOK
<1>3. /\ handler_pc'[h] = "close" /\ handler_pc'[main] # "none"
      /\ \A k \in Threads : k # h => handler_pc'[k] = handler_pc[k]
  BY <1>1 DEF Threads
<1>4. Counted'
  BY <1>1, <1>3 DEF CaptureInv, Counted
<1>5. Prepared'
  BY <1>3 DEF CaptureInv, Prepared
<1>6. Progress'
  <2>1. pd = "closed" => calls' > 1
    BY <1>1 DEF CaptureInv, Prepared, Counted, Threads
  <2> QED
    BY <1>3, <2>1 DEF CaptureInv, Progress, vars
<1>7. FaultsExplained' /\ ExitIsClean'
  BY DEF Alive, FaultsExplained, ExitIsClean
<1> QED
  BY <1>2, <1>4, <1>5, <1>6, <1>7 DEF CaptureInv

(* main's own steps before the capture ends keep the invariant.            *)
LEMMA MainStep ==
  ASSUME CaptureInv, Open \/ Create \/ LoopReturns
  PROVE  CaptureInv'
<1>1. ASSUME Enter(main), UNCHANGED <<vars, pd, t1, main_pc, outcome>>, Alive
      PROVE  CaptureInv'
  BY <1>1, EnterStep DEF Threads
<1>2. ASSUME UNCHANGED <<vars, handler_pc, calls, outcome>>,
             Alive, handler_pc[main] = "none",
             \/ main_pc = "open" /\ pd' = "open" /\ main_pc' = "create" /\ t1' = t1
             \/ main_pc = "create" /\ t1' \in BOOLEAN /\ main_pc' = "loop" /\ pd' = pd
      PROVE  CaptureInv'
  <2>1. TypeOK'
    BY <1>2 DEF CaptureInv, CaptureTypeOK, TypeOK, vars, listVars, prodVars, consVars
  <2>2. CaptureTypeOK'
    BY <1>2, <2>1 DEF CaptureInv, CaptureTypeOK
  <2>3. \A h \in Threads : handler_pc[h] = "none"
    BY <1>2 DEF CaptureInv, Counted
  <2>4. Counted' /\ Prepared' /\ Progress'
    BY <1>2, <2>3 DEF CaptureInv, Counted, Prepared, Progress, Threads
  <2>5. FaultsExplained' /\ ExitIsClean'
    BY <1>2 DEF FaultsExplained, ExitIsClean, Alive
  <2> QED
    BY <2>2, <2>4, <2>5 DEF CaptureInv
<1> QED
  BY <1>1, <1>2 DEF Open, Create, LoopReturns, Capturing

(* The steps of CatchShutdown: what a thread may take for granted when it  *)
(* gets to the next one.                                                   *)
LEMMA HandlerStep ==
  ASSUME CaptureInv, NEW h \in Threads, CatchShutdown(h)
  PROVE  CaptureInv'
<1> USE DEF CaptureInv
<1>0. handler_pc \in [Threads -> {"none", "close", "stop", "join", "wait"}]
  BY DEF CaptureTypeOK
<1>1. CASE ClosePd(h)
  <2> USE <1>1 DEF ClosePd, At, Alive
  <2>0. t1' = t1 /\ trans_running' = trans_running
    BY DEF vars
  <2>t. (t1' <=> t1) /\ (~trans_running' <=> ~trans_running)
    <3> HIDE <1>1 DEF ClosePd, At, Alive, CaptureInv
    <3>1. ASSUME t1' = t1 PROVE t1' <=> t1
      BY <3>1, Zenon
    <3>2. ASSUME trans_running' = trans_running
          PROVE  ~trans_running' <=> ~trans_running
      BY <3>2, Zenon
    <3> QED
      BY <2>0, <3>1, <3>2
  <2>1. CASE pd = "closed"
    <3>1. /\ outcome' = "closed twice" /\ calls > 1
          /\ UNCHANGED <<vars, t1>> /\ pd' = pd /\ main_pc' = main_pc
          /\ handler_pc' = handler_pc /\ calls' = calls
      BY <2>1 DEF Finish, Progress
    <3>2. TypeOK' /\ CaptureTypeOK'
      BY <3>1 DEF CaptureTypeOK, TypeOK, vars, listVars, prodVars, consVars
    <3>3. Counted' /\ Prepared'
      BY <3>1, <2>t DEF Counted, Prepared
    <3>5. Progress'
      BY <3>1, <2>t DEF Progress
    <3> QED
      BY <3>5, <2>1, <3>1, <3>2, <3>3 DEF FaultsExplained, ExitIsClean
  <2>2. CASE pd # "closed"
    <3>1. /\ handler_pc' = [handler_pc EXCEPT ![h] = "stop"]
          /\ pd' = (IF pd = "open" THEN "closed" ELSE pd)
          /\ UNCHANGED <<vars, t1>> /\ main_pc' = main_pc
          /\ calls' = calls /\ outcome' = outcome
      BY <2>2 DEF HandlerGoto
    <3>2. /\ handler_pc'[h] = "stop" /\ handler_pc[h] = "close"
          /\ \A k \in Threads : k # h => handler_pc'[k] = handler_pc[k]
      BY <1>0, <3>1
    <3>3. TypeOK' /\ CaptureTypeOK'
      BY <1>0, <3>1 DEF CaptureTypeOK, TypeOK, vars, listVars, prodVars, consVars
    <3>4. Counted'
      BY <3>1, <3>2 DEF Counted, Threads
    <3>5. Prepared'
      <4>1. handler_pc'[main] # "none"
        BY <3>2 DEF Counted, Threads
      <4>2. pd' = "null" => pd = "null"
        BY <3>1
      <4> QED
        BY <3>1, <2>t, <4>1, <4>2 DEF Prepared
    <3>6. Progress'
      <4>1. \A k \in Threads : handler_pc'[k] = "close" => calls > 1
        BY <3>2 DEF Counted
      <4>2. pd' # "open"
        BY <3>1
      <4>3. ASSUME NEW k \in Threads, handler_pc'[k] \in {"join", "wait"}
            PROVE  handler_pc'[k] = handler_pc[k]
        BY <3>2, <4>3
      <4>4. ASSUME NEW k \in Threads, handler_pc'[k] \in {"join", "wait"}
            PROVE  ~trans_running' /\ (handler_pc'[k] = "wait" => t1')
        BY <2>t, <4>3, <4>4 DEF Progress
      <4> QED
        BY <3>1, <4>1, <4>2, <4>4 DEF Progress
    <3> QED
      BY <3>1, <3>3, <3>4, <3>5, <3>6 DEF FaultsExplained, ExitIsClean
  <2> QED
    BY <2>1, <2>2
<1>2. CASE StopTrans(h)
  <2>1. /\ handler_pc' = [handler_pc EXCEPT ![h] = "join"]
        /\ trans_running' = FALSE
        /\ UNCHANGED <<pd, t1, main_pc, calls, outcome>>
        /\ handler_pc[h] = "stop" /\ outcome = "alive"
    BY <1>2 DEF StopTrans, HandlerGoto, stop_trans, At, Alive
  <2>2. /\ handler_pc'[h] = "join"
        /\ \A k \in Threads : k # h => handler_pc'[k] = handler_pc[k]
    BY <1>0, <2>1
  <2>3. TypeOK' /\ CaptureTypeOK'
    BY <1>0, <1>2, <2>1 DEF StopTrans, stop_trans, CaptureTypeOK, TypeOK,
                            listVars, prodVars, consVars
  <2>4. Counted' /\ Prepared'
    BY <2>1, <2>2 DEF Counted, Prepared, Threads
  <2>5. Progress'
    BY <2>1, <2>2 DEF Progress
  <2> QED
    BY <2>1, <2>3, <2>4, <2>5 DEF FaultsExplained, ExitIsClean
<1>3. CASE JoinT1(h) \/ Joined(h)
  <2> USE <1>3 DEF JoinT1, Joined, At, Alive, Finish, HandlerGoto
  <2>1. UNCHANGED <<vars, pd, t1, main_pc, calls>>
    OBVIOUS
  <2>2. TypeOK' /\ CaptureTypeOK'
    BY <1>0, <2>1 DEF CaptureTypeOK, TypeOK, vars, listVars, prodVars, consVars
  <2>3. /\ \A k \in Threads : k # h => handler_pc'[k] = handler_pc[k]
        /\ handler_pc'[h] \in {"join", "wait"} /\ handler_pc[h] \in {"join", "wait"}
        /\ handler_pc'[h] = "wait" => t1
    BY <1>0 DEF Progress
  <2>4. Counted' /\ Prepared' /\ Progress'
    BY <2>1, <2>3 DEF Counted, Prepared, Progress, vars, Threads
  <2>5. FaultsExplained' /\ ExitIsClean'
    <3>1. trans_running' = trans_running /\ trans_pc' = trans_pc /\ ~trans_running
      BY <2>1, <2>3 DEF vars, consVars, Progress
    <3>2. t1 => pd = "closed"
      BY <2>3 DEF Prepared, Progress, CaptureTypeOK
    <3> QED
      BY <2>1, <2>3, <3>1, <3>2 DEF FaultsExplained, ExitIsClean, Progress
  <2> QED
    BY <2>2, <2>4, <2>5
<1> QED
  BY <1>1, <1>2, <1>3 DEF CatchShutdown

(* The invariant of the whole program holds throughout.                    *)
LEMMA CaptureInvariance == CaptureSpec => []CaptureInv
<1>1. ASSUME CaptureInv, TypeOK', CaptureNext PROVE CaptureInv'
  <2>1. ASSUME NEW h \in Threads, Signal(h) PROVE CaptureInv'
    BY <1>1, <2>1, EnterStep DEF Signal
  <2>2. ASSUME NEW p \in Producers, Runs(Push(p)) PROVE CaptureInv'
    <3>1. UNCHANGED trans_running
      BY <2>2 DEF Runs, Push, NewNode, PushLock, PushLink, PushTail, PushUnlock
    <3> QED
      BY <1>1, <2>2, <3>1, QueueStep DEF Runs
  <2>3. ASSUME TransRuns(trans_buff) PROVE CaptureInv'
    <3>1. UNCHANGED trans_running
      BY <2>3 DEF TransRuns, Runs, trans_buff, CheckRunning, PopLock, PopRead,
                  PopAdvance, PopTrim, PopUnlock, Transmit, FreeNode
    <3> QED
      BY <1>1, <2>3, <3>1, QueueStep DEF TransRuns, Runs
  <2> QED
    BY <1>1, <2>1, <2>2, <2>3, MainStep, HandlerStep DEF CaptureNext
<1>2. ASSUME CaptureInv, TypeOK', UNCHANGED allVars PROVE CaptureInv'
  <2> USE <1>2 DEF CaptureInv, allVars, progVars
  <2>1. CaptureTypeOK' /\ Counted' /\ Prepared'
    BY DEF CaptureTypeOK, Counted, Prepared
  <2>2. trans_running' = trans_running /\ trans_pc' = trans_pc
    BY DEF vars, consVars
  <2>3. Progress'
    BY <2>2 DEF Progress
  <2>4. FaultsExplained' /\ ExitIsClean'
    BY <2>2 DEF FaultsExplained, ExitIsClean
  <2> QED
    BY <2>1, <2>3, <2>4
<1>3. CaptureInv /\ TypeOK' /\ [CaptureNext]_allVars => CaptureInv'
  BY <1>1, <1>2
<1>4. CaptureSpec => []TypeOK
  BY Composition, TypeCorrect, PTL
<1> QED
  BY CaptureInitInv, <1>3, <1>4, PTL DEF CaptureSpec

(* The variables of the capture program stay in their types.               *)
THEOREM CaptureTypeCorrect == CaptureSpec => []CaptureTypeOK
<1>1. CaptureInv => CaptureTypeOK
  BY DEF CaptureInv
<1> QED
  BY <1>1, CaptureInvariance, PTL

(* A shutdown faults only when CatchShutdown was entered twice, or t1 was  *)
(* never created.                                                          *)
THEOREM ShutdownFaults == CaptureSpec => []FaultsExplained
<1>1. CaptureInv => FaultsExplained
  BY DEF CaptureInv
<1> QED
  BY <1>1, CaptureInvariance, PTL

(* The process exits with the capture closed and the queue's thread at its *)
(* end, or in the handler itself.                                          *)
THEOREM CleanExit == CaptureSpec => []ExitIsClean
<1>1. CaptureInv => ExitIsClean
  BY DEF CaptureInv
<1> QED
  BY <1>1, CaptureInvariance, PTL

=============================================================================
