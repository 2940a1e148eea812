------------------------------- MODULE Framing -------------------------------
(***************************************************************************)
(* What the server makes of the byte stream of one connection (capserver.c)*)
(* when TCP cuts it into chunks anywhere: socket_loop's split at NULs,     *)
(* which prints each piece, and do_recv, which puts messages together over *)
(* several chunks (it is called with strings without a NUL by the test at  *)
(* capserver.c:310-317, and by the line commented out at 276 with what     *)
(* recv returned).  Both see the same chunks here.                         *)
(*                                                                         *)
(* A message is "|-" body "-|", do_trans sends it with its NUL.  The bytes *)
(* of a body are numbers that tell them apart.                             *)
(***************************************************************************)
EXTENDS Integers, Sequences, SequencesExt

CONSTANTS BodyLength,  (* the length of each body                          *)
          Messages,    (* how many messages there are                      *)
          MY_BUFSIZ    (* one recv returns at most one byte less           *)

ASSUME LengthsAssumption ==
  BodyLength \in Nat \ {0} /\ Messages \in Nat \ {0} /\ MY_BUFSIZ \in Nat \ {0}

Bar == -1
Dash == -2
Nul == 0

VARIABLES
  terminated,     (* does a NUL follow each message?                       *)
  pos,            (* how much of the stream the server has received        *)
  last,           (* where the last chunk began                            *)
  printed,        (* the pieces socket_loop printed of the last chunk      *)
  pre_read_buff,
  parsed,         (* what do_recv gave to do_parse of the last chunk       *)
  clean           (* history: since some message began, has every chunk    *)
                  (* been one that do_recv can deal with?                  *)

vars == <<terminated, pos, last, printed, pre_read_buff, parsed, clean>>

Body(m) == [i \in 1..BodyLength |-> (m - 1) * BodyLength + i]
Framed(m) ==
  <<Bar, Dash>> \o Body(m) \o <<Dash, Bar>>
  \o (IF terminated THEN <<Nul>> ELSE <<>>)
Stream == FlattenSeq([m \in 1..Messages |-> Framed(m)])
FramedLength == BodyLength + 4 + (IF terminated THEN 1 ELSE 0)

(* the first n bytes, and what is left without them                        *)
Take(s, n) == SubSeq(s, 1, n)
Drop(s, n) == SubSeq(s, n + 1, Len(s))

None == -1
(* strstr: how many bytes stand before the first a b, or None              *)
strstr(s, a, b) ==
  LET hits == {i \in 1..Len(s) - 1 : s[i] = a /\ s[i + 1] = b} IN
    IF hits = {} THEN None ELSE (CHOOSE i \in hits : \A j \in hits : i <= j) - 1

(* a chunk as a C string ends at its first NUL                             *)
CString(s) ==
  LET nuls == {i \in 1..Len(s) : s[i] = Nul} IN
    IF nuls = {} THEN s ELSE Take(s, (CHOOSE i \in nuls : \A j \in nuls : i <= j) - 1)

TypeOK ==
  /\ terminated \in BOOLEAN
  /\ pos \in 0..Len(Stream) /\ last \in 0..pos
  /\ printed \in Seq([at : Nat, text : Seq(Int)])
  /\ pre_read_buff \in Seq(Int) /\ Len(pre_read_buff) <= MY_BUFSIZ
  /\ parsed \in Seq(Seq(Int))
  /\ clean \in BOOLEAN

(* The connection may begin in the middle of a message: the test's first   *)
(* buffer does.                                                            *)
Init ==
  /\ terminated \in BOOLEAN
  /\ pos \in 0..FramedLength - 1
  /\ last = pos
  /\ printed = <<>> /\ pre_read_buff = <<>> /\ parsed = <<>>
  /\ clean = FALSE

-----------------------------------------------------------------------------
(* Faulty variants: each is the definition it is named after with one      *)
(* plausible slip in the C; a property must fail when it takes its place.  *)

(* p_str_start+=i instead of i+1                                           *)
TurnKeepsNul(buf, i, loop) ==
  IF buf[i] # Nul THEN loop
  ELSE LET p == loop.p_str_start IN
         [p_str_start |-> p + i - 1,
          printed |-> Append(loop.printed,
                        [at |-> p, text |-> CString(Drop(buf, p))])]

(* the remembered part is not put in front of the end                      *)
EndAlone(data, buff, end) == <<Take(buff, end)>>

(* no test against MY_BUFSIZ (capserver.c:228)                             *)
MiddleUnchecked(data, buff) == data \o buff

-----------------------------------------------------------------------------
(* socket_loop: a piece is printed at every NUL, from p_str_start on, which*)
(* then moves by i + 1 (by i here, where the first byte is the first),     *)
(* although i counts from the start of the chunk.  Beyond the chunk's own  *)
(* NUL (buf[len]) it points into older data, for which the empty text      *)
(* stands here.                                                            *)
Turn(buf, i, loop) ==
  IF buf[i] # Nul THEN loop
  ELSE LET p == loop.p_str_start IN
         [p_str_start |-> p + i,
          printed |-> Append(loop.printed,
                        [at |-> p, text |-> CString(Drop(buf, p))])]
Split(buf) ==
  LET loop[i \in 0..Len(buf)] ==
        IF i = 0 THEN [p_str_start |-> 0, printed |-> <<>>]
        ELSE Turn(buf, i, loop[i - 1])
  IN loop[Len(buf)].printed

(* do_recv's cases.  Each gives what is parsed; `data' is the remembered   *)
(* part, p_split_start and p_split_end are positions in buff.  strcpy does *)
(* not know the length of the array that it fills: see Overrun.            *)
EndOf(data, buff, end) == <<data \o Take(buff, end)>>
Middle(data, buff) ==
  IF Len(data) + Len(buff) > MY_BUFSIZ THEN <<>> ELSE data \o buff

(* The case without an earlier end: a whole message, of which what follows *)
(* is dropped, or the start of one.                                        *)
FromStart(buff) ==
  LET start == strstr(buff, Bar, Dash)
      end == strstr(buff, Dash, Bar)
  IN IF end # None
     THEN [parsed |-> <<Drop(Take(buff, end), start + 2)>>, pre |-> <<>>]
     ELSE [parsed |-> <<>>, pre |-> Drop(buff, start + 2)]

(* An end before the start completes the remembered message, and do_recv   *)
(* is called again with the rest (buff from p_split_start on).             *)
do_recv(data, chunk) ==
  LET buff == CString(chunk)
      start == strstr(buff, Bar, Dash)
      end == strstr(buff, Dash, Bar)
  IN CASE start # None /\ end # None /\ end < start ->
            LET rest == FromStart(Drop(buff, start)) IN
              [parsed |-> EndOf(data, buff, end) \o rest.parsed,
               pre |-> rest.pre]
       [] start # None /\ (end = None \/ start < end) -> FromStart(buff)
       [] start = None /\ end # None ->
            [parsed |-> EndOf(data, buff, end), pre |-> <<>>]
       [] OTHER -> [parsed |-> <<>>, pre |-> Middle(data, buff)]

(* data and the memory behind pre_read_buff have MY_BUFSIZ bytes.  A string*)
(* as long as that, put together by EndOf (those of FromStart are shorter, *)
(* as recv's are) or Middle, has had its NUL, or more, written behind them:*)
(* nothing is said of what the program does then.                          *)
Overrun ==
  \/ Len(pre_read_buff) >= MY_BUFSIZ
  \/ \E i \in DOMAIN parsed : Len(parsed[i]) >= MY_BUFSIZ

-----------------------------------------------------------------------------
(* What a chunk from..to of the stream cuts.                               *)

Offset(p) == p % FramedLength           (* within its message               *)
MessageAt(p) == (p \div FramedLength) + 1
Starts(p) == Offset(p) = 0
CutsDelimiter(p) == Offset(p) \in {1, BodyLength + 3}

(* Neither end cuts a delimiter, no byte comes behind a NUL, and none      *)
(* behind the end of a message that the chunk holds entirely.              *)
Manageable(from, to) ==
  /\ ~CutsDelimiter(from) /\ ~CutsDelimiter(to)
  /\ terminated =>
       \A p \in from + 1..to - 1 : ~Starts(p)
  /\ ~terminated =>
       \A p \in from..to : Starts(p) => p + FramedLength >= to

(* recv() returns the next bytes of the stream                             *)
Receive ==
  ~Overrun /\ \E n \in 1..MY_BUFSIZ - 1 :
    /\ pos + n <= Len(Stream)
    /\ LET chunk == SubSeq(Stream, pos + 1, pos + n)
           result == do_recv(pre_read_buff, chunk)
       IN /\ printed' = Split(chunk)
          /\ parsed' = result.parsed
          /\ pre_read_buff' = result.pre
    /\ clean' = (Manageable(pos, pos + n) /\ (clean \/ Starts(pos)))
    /\ last' = pos
    /\ pos' = pos + n
    /\ UNCHANGED terminated

Next == Receive

Spec == Init /\ [][Next]_vars

-----------------------------------------------------------------------------
(* the messages whose end came with the last chunk                         *)
Ended ==
  {m \in 1..Messages :
     (m - 1) * FramedLength + BodyLength + 4 \in last + 1..pos}

(* The first two pieces of a chunk are printed as they were sent (the first*)
(* without what an earlier chunk had of it); the third and later ones never*)
(* are, because p_str_start moves too far.                                 *)
PiecesPrinted ==
  \A k \in 1..Len(printed) :
    LET m == MessageAt(last) + k - 1
        begin == IF k = 1 THEN last ELSE (m - 1) * FramedLength
        piece == SubSeq(Stream, begin + 1, m * FramedLength - 1)
    IN printed[k] = [at |-> begin - last, text |-> piece] <=> k <= 2

(* do_recv finds its way back at every message that begins a chunk, and as *)
(* long as the chunks are manageable it parses every message that ends,    *)
(* once, with nothing in front or behind, remembers exactly the part it has*)
(* of the next one, and writes behind none of its arrays, which what it    *)
(* remembers of unmanageable chunks can make it do.                        *)
CleanIsParsed ==
  clean =>
    /\ ~Overrun
    /\ parsed = [i \in 1..Cardinality(Ended) |->
                   Body(MessageAt(last) + i - 1)]
    /\ LET had == Offset(pos) - 2 IN
         pre_read_buff = IF had \in 1..BodyLength
                         THEN Take(Body(MessageAt(pos)), had) ELSE <<>>

=============================================================================
