------------------------------ MODULE Message -------------------------------
(***************************************************************************)
(* One captured frame on its way from bin_print (spy.c) through base64 and *)
(* the property string to do_parse (capserver.c), as pure functions.       *)
(*                                                                         *)
(* A base64 character is its index in base64char, Pad stands for `='.  A   *)
(* message is the sequence of its ";key=value" parts; a number stands for  *)
(* the digits it is written with.  do_parse has no caller at present       *)
(* (capserver.c:271, 276), the functions are modelled as they stand.       *)
(***************************************************************************)
EXTENDS Naturals, Sequences, SequencesExt

Pad == 64
Undefined == 255      (* base64_decode's temp[] where no character matched *)

(* An address as readDeviceMac writes it, and the empty string it becomes  *)
(* when a reload wipes my_config; only the length matters to do_parse.     *)
Sources == {"17 characters", "empty"}

(* `garbage' is the digit that getIntProperty finds behind the number in   *)
(* its uninitialised buffer, or NoDigit.                                   *)
NoDigit == 10

(* What do_parse may meet: the socket_thread it is given and its conn, and *)
(* whether the database takes connections and inserts.                     *)
Threads == {"NULL", "not connected", "connected"}
Databases == [connects : BOOLEAN, inserts : BOOLEAN]

-----------------------------------------------------------------------------
(* Faulty variants: each is the definition it is named after with one      *)
(* plausible slip in the C; a property must fail when it takes its place.  *)

(* & 0x0C instead of & 0x3C before the bits of the third byte are added    *)
EncodeGroupMasked(b) ==
  LET byte == [i \in 1..3 |-> IF i <= Len(b) THEN b[i] ELSE 0]
      char == <<byte[1] \div 4,
                ((byte[1] % 4) * 16) + (byte[2] \div 16),
                ((byte[2] % 4) * 4) + (byte[3] \div 64),
                byte[3] % 64>>
  IN [i \in 1..4 |-> IF i <= Len(b) + 1 THEN char[i] ELSE Pad]

(* a group more than there is when the bytes come out even                 *)
GroupsOfOneMore(n, size) == (n \div size) + 1

-----------------------------------------------------------------------------
(* base64                                                                  *)

GroupsOf(n, size) == (n + size - 1) \div size
Group(s, g, size) ==
  SubSeq(s, size * (g - 1) + 1, IF size * g < Len(s) THEN size * g ELSE Len(s))

(* one turn of base64_encode's loop, for one to three bytes                *)
EncodeGroup(b) ==
  LET byte == [i \in 1..3 |-> IF i <= Len(b) THEN b[i] ELSE 0]
      char == <<byte[1] \div 4,
                ((byte[1] % 4) * 16) + (byte[2] \div 16),
                ((byte[2] % 16) * 4) + (byte[3] \div 64),
                byte[3] % 64>>
  IN [i \in 1..4 |-> IF i <= Len(b) + 1 THEN char[i] ELSE Pad]

EncodedLength(n) == 4 * GroupsOf(n, 3)
base64_encode(bytes) ==
  [k \in 1..EncodedLength(Len(bytes)) |->
     EncodeGroup(Group(bytes, (k + 3) \div 4, 3))[((k - 1) % 4) + 1]]

(* one turn of base64_decode's loop                                        *)
DecodeGroup(c) ==
  LET temp == [i \in 1..4 |-> IF c[i] = Pad THEN Undefined ELSE c[i]]
      byte == <<((temp[1] * 4) % 256) + ((temp[2] \div 16) % 4),
                ((temp[2] % 16) * 16) + ((temp[3] \div 4) % 16),
                ((temp[3] % 4) * 64) + (temp[4] % 64)>>
  IN SubSeq(byte, 1, IF c[3] = Pad THEN 1 ELSE IF c[4] = Pad THEN 2 ELSE 3)

(* the loop ends with the string or at the first padded group              *)
base64_decode(chars) ==
  LET groups == [g \in 1..Len(chars) \div 4 |-> Group(chars, g, 4)]
      padded == {g \in DOMAIN groups : groups[g][4] = Pad}
      last == IF padded = {} THEN Len(groups)
              ELSE CHOOSE g \in padded : \A h \in padded : g <= h
  IN FlattenSeq([g \in 1..last |-> DecodeGroup(groups[g])])

-----------------------------------------------------------------------------
(* The message                                                             *)

Part(key, value) == [key |-> key, value |-> value]

(* The bytes that a frame of caplen bytes takes in base64_buff: "|-", the  *)
(* five parts, "-|" and the zero; the microseconds have utime digits, and  *)
(* the length no more than four (pcap_open_live is told BUFSIZ).           *)
Digits(n) ==
  IF n < 10 THEN 1 ELSE IF n < 100 THEN 2 ELSE IF n < 1000 THEN 3 ELSE 4
Footprint(source, caplen, utime) ==
  2 + (8 + IF source = "empty" THEN 0 ELSE 17) + (5 + Digits(caplen))
  + (6 + 19) + (7 + utime) + (6 + EncodedLength(caplen)) + 2 + 1

(* sprintf and base64_encode do not know the size of base64_buff: a message*)
(* that is too long is written over what stands behind it.                 *)
bin_print(source, utime, bytes) ==
  [overrun |-> Footprint(source, Len(bytes), utime) > 1024,
   msg |-> <<Part("source", source), Part("len", Len(bytes)), Part("time", "T"),
             Part("utime", "U"), Part("data", base64_encode(bytes))>>]

(* the value of the first part that has the key, as a sequence of length 1;*)
(* the empty sequence when there is none                                   *)
getStrProperty(msg, key) ==
  LET hits == {i \in 1..Len(msg) : msg[i].key = key} IN
    IF hits = {} THEN <<>>
    ELSE <<msg[CHOOSE i \in hits : \A j \in hits : i <= j].value>>

(* The value is copied without its end: memcpy leaves value[] as it was    *)
(* behind the digits, so atoi may read one more.                           *)
getIntProperty(msg, key, garbage) ==
  LET value == getStrProperty(msg, key) IN
    IF value = <<>> THEN 0
    ELSE IF garbage = NoDigit THEN value[1] ELSE value[1] * 10 + garbage

(* The frame that do_parse finds in a message, or <<>> when it only prints *)
(* the message.                                                            *)
FrameIn(msg, garbage) ==
  LET source == getStrProperty(msg, "source")
      caplen == getIntProperty(msg, "len", garbage)
      chars == getStrProperty(msg, "data")
  IN IF source # <<"17 characters">> \/ caplen = 0 \/ chars \in {<<>>, <<<<>>>>}
     THEN <<>>
     ELSE LET data == base64_decode(chars[1]) IN
            IF Len(data) # caplen THEN <<>>
            ELSE <<[source |-> source[1], data |-> data]>>

(* Without a connection the message is not looked at; one that getConnection*)
(* makes is kept in st, and a frame that is not inserted is lost.          *)
do_parse(msg, garbage, st, db) ==
  LET connected == st = "connected" \/ (st = "not connected" /\ db.connects) IN
    [st |-> IF connected THEN "connected" ELSE st,
     stored |-> IF connected /\ db.inserts THEN FrameIn(msg, garbage) ELSE <<>>]

=============================================================================
