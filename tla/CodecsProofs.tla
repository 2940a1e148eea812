---------------------------- MODULE CodecsProofs -----------------------------
(***************************************************************************)
(* Proofs about Codecs: the base64 round trip and what rests on it, the    *)
(* length of a message, the agreement of the two programs' filters, where  *)
(* the server reads the antenna signal, which documents cJSON_Parse takes  *)
(* and what initConfig makes of a configuration file.  Each holds for      *)
(* every input, of any length, by induction over what the functions recur  *)
(* on (Induction) and not only for the inputs of the model-checked         *)
(* instance; InputTyped is the invariant of the inputs that Spec builds.   *)
(***************************************************************************)
EXTENDS Codecs, ConfigTextProofs

-----------------------------------------------------------------------------
(* base64.                                                                 *)

(* Three bytes are four times six bits.                                    *)
SixBits(x, y, z, p, q, r, s) ==
  /\ p = x \div 4 /\ q = ((x % 4) * 16) + (y \div 16)
  /\ r = ((y % 16) * 4) + (z \div 64) /\ s = z % 64
  /\ ((p * 4) % 256) + ((q \div 16) % 4) = x
  /\ ((q % 16) * 16) + ((r \div 4) % 16) = y
  /\ ((r % 4) * 64) + (s % 64) = z

(* The shifts of base64 lose no bit of three bytes.                        *)
LEMMA Bits ==
  ASSUME NEW x \in 0..255, NEW y \in 0..255, NEW z \in 0..255
  PROVE  \E p, q, r, s \in 0..63 : SixBits(x, y, z, p, q, r, s)
<1>0. PICK p, q, r, s :
        /\ p = x \div 4 /\ q = ((x % 4) * 16) + (y \div 16)
        /\ r = ((y % 16) * 4) + (z \div 64) /\ s = z % 64
  OBVIOUS
<1>1. p \in 0..63 /\ q \in 0..63 /\ r \in 0..63 /\ s \in 0..63
  BY <1>0
<1>2. (p * 4) % 256 = 4 * (x \div 4)
  BY <1>0
<1>3. (q \div 16) % 4 = x % 4
  BY <1>0
<1>4. x = 4 * (x \div 4) + (x % 4)
  BY <1>0
<1>5. q % 16 = y \div 16
  BY <1>0
<1>6. (r \div 4) % 16 = y % 16
  BY <1>0
<1>7. y = 16 * (y \div 16) + (y % 16)
  BY <1>0
<1>8. r % 4 = z \div 64
  BY <1>0
<1>9. s % 64 = z % 64
  BY <1>0
<1>10. z = 64 * (z \div 64) + (z % 64)
  BY <1>0
<1>11. /\ ((p * 4) % 256) + ((q \div 16) % 4) = x
       /\ ((q % 16) * 16) + ((r \div 4) % 16) = y
       /\ ((r % 4) * 64) + (s % 64) = z
  <2>1. ((p * 4) % 256) + ((q \div 16) % 4) = x
    BY <1>2, <1>3, <1>4
  <2>2. ((q % 16) * 16) + ((r \div 4) % 16) = y
    BY <1>5, <1>6, <1>7
  <2>3. ((r % 4) * 64) + (s % 64) = z
    BY <1>8, <1>9, <1>10
  <2> QED
    BY <2>1, <2>2, <2>3
<1>12. SixBits(x, y, z, p, q, r, s)
  BY <1>0, <1>11 DEF SixBits
<1> QED
  BY <1>1, <1>12

(* A group of three bytes, or the last one or two, comes back.             *)
LEMMA GroupBack ==
  ASSUME NEW b \in Seq(Bytes), Len(b) \in 1..3
  PROVE  /\ DecodeGroup(EncodeGroup(b)) = b
         /\ EncodeGroup(b) = [i \in 1..4 |-> EncodeGroup(b)[i]]
         /\ EncodeGroup(b)[4] = Pad <=> Len(b) # 3
<1>0. Len(b) = 1 \/ Len(b) = 2 \/ Len(b) = 3
  OBVIOUS
<1> DEFINE byte == [i \in 1..3 |-> IF i <= Len(b) THEN b[i] ELSE 0]
<1>1. byte[1] \in 0..255 /\ byte[2] \in 0..255 /\ byte[3] \in 0..255
  <2>1. \A i \in 1..Len(b) : b[i] \in 0..255
    BY ElementOfSeq DEF Bytes
  <2> QED
    BY <2>1
<1>2. PICK x \in 0..255 : x = byte[1]
  BY <1>1
<1>3. PICK y \in 0..255 : y = byte[2]
  BY <1>1
<1>4. PICK z \in 0..255 : z = byte[3]
  BY <1>1
<1>5. b[1] = x /\ (Len(b) # 1 => b[2] = y) /\ (Len(b) = 3 => b[3] = z)
  BY <1>0, <1>2, <1>3, <1>4, SMTT(60)
<1>6. PICK p, q, r, s \in 0..63 : SixBits(x, y, z, p, q, r, s)
  BY Bits, ZenonT(60)
<1> DEFINE char == <<p, q, r, s>>
<1>7. char[1] = p /\ char[2] = q /\ char[3] = r /\ char[4] = s
  OBVIOUS
<1>8. EncodeGroup(b) = [i \in 1..4 |-> IF i <= Len(b) + 1 THEN char[i]
        ELSE Pad]
  BY <1>2, <1>3, <1>4, <1>6, SMTT(60) DEF EncodeGroup, SixBits
<1>9. /\ EncodeGroup(b) = [i \in 1..4 |-> EncodeGroup(b)[i]]
      /\ EncodeGroup(b)[1] = p /\ EncodeGroup(b)[2] = q
      /\ EncodeGroup(b)[3] = (IF Len(b) = 1 THEN Pad ELSE r)
      /\ EncodeGroup(b)[4] = (IF Len(b) = 3 THEN s ELSE Pad)
  <2> HIDE DEF char
  <2>1. /\ EncodeGroup(b)[1] = IF 1 <= Len(b) + 1 THEN char[1] ELSE Pad
        /\ EncodeGroup(b)[2] = IF 2 <= Len(b) + 1 THEN char[2] ELSE Pad
        /\ EncodeGroup(b)[3] = IF 3 <= Len(b) + 1 THEN char[3] ELSE Pad
        /\ EncodeGroup(b)[4] = IF 4 <= Len(b) + 1 THEN char[4] ELSE Pad
    BY <1>8
  <2>2. EncodeGroup(b) = [i \in 1..4 |-> EncodeGroup(b)[i]]
    BY <1>8
  <2>3. CASE Len(b) = 1
    BY <1>7, <2>1, <2>2, <2>3
  <2>4. CASE Len(b) = 2
    BY <1>7, <2>1, <2>2, <2>4
  <2>5. CASE Len(b) = 3
    BY <1>7, <2>1, <2>2, <2>5
  <2> QED
    BY <1>0, <2>3, <2>4, <2>5
<1>10. PICK c : c = EncodeGroup(b)
  OBVIOUS
<1>11. p # Pad /\ q # Pad /\ r # Pad /\ s # Pad
  BY DEF Pad
<1>12. PICK temp :
         temp = [i \in 1..4 |-> IF c[i] = Pad THEN Undefined ELSE c[i]]
  OBVIOUS
<1>13. PICK out :
         out = <<((temp[1] * 4) % 256) + ((temp[2] \div 16) % 4),
                 ((temp[2] % 16) * 16) + ((temp[3] \div 4) % 16),
                 ((temp[3] % 4) * 64) + (temp[4] % 64)>>
  OBVIOUS
<1>14. DecodeGroup(c) =
         SubSeq(out, 1, IF c[3] = Pad THEN 1 ELSE IF c[4] = Pad THEN 2 ELSE 3)
  BY <1>12, <1>13 DEF DecodeGroup
<1>15. DecodeGroup(c) = SubSeq(out, 1, Len(b))
  BY <1>0, <1>9, <1>10, <1>11, <1>14
<1>16. /\ temp[1] = p /\ temp[2] = q
       /\ Len(b) # 1 => temp[3] = r
       /\ Len(b) = 3 => temp[4] = s
  BY <1>9, <1>10, <1>11, <1>12
<1>17. /\ out[1] = ((temp[1] * 4) % 256) + ((temp[2] \div 16) % 4)
       /\ out[2] = ((temp[2] % 16) * 16) + ((temp[3] \div 4) % 16)
       /\ out[3] = ((temp[3] % 4) * 64) + (temp[4] % 64)
  BY <1>13
<1>18. /\ out[1] = b[1]
       /\ Len(b) # 1 => out[2] = b[2]
       /\ Len(b) = 3 => out[3] = b[3]
  <2>1. out[1] = b[1]
    BY <1>5, <1>6, <1>16, <1>17 DEF SixBits
  <2>2. ASSUME Len(b) # 1 PROVE out[2] = b[2]
    <3>1. out[2] = ((q % 16) * 16) + ((r \div 4) % 16)
      BY <2>2, <1>16, <1>17
    <3> QED
      BY <2>2, <3>1, <1>5, <1>6 DEF SixBits
  <2>3. ASSUME Len(b) = 3 PROVE out[3] = b[3]
    <3>1. temp[3] = r /\ temp[4] = s
      BY <2>3, <1>16
    <3> QED
      BY <2>3, <3>1, <1>5, <1>6, <1>17 DEF SixBits
  <2> QED
    BY <2>1, <2>2, <2>3
<1>19. \A i \in 1..Len(b) : out[i] = b[i]
  BY <1>0, <1>18
<1>20. \A i \in 1..Len(b) : out[i] \in Bytes
  BY <1>19, ElementOfSeq
<1>21. /\ SubSeq(out, 1, Len(b)) \in Seq(Bytes)
       /\ Len(SubSeq(out, 1, Len(b))) = Len(b)
       /\ \A i \in 1..Len(b) : SubSeq(out, 1, Len(b))[i] = out[i]
  BY <1>20, SubSeqProperties
<1>22. SubSeq(out, 1, Len(b)) = b
  BY <1>19, <1>21, SeqEqual
<1> QED
  BY <1>0, <1>9, <1>10, <1>11, <1>15, <1>22

(* the groups that base64_encode cuts its input into                       *)
LEMMA Groups ==
  ASSUME NEW s \in Seq(Bytes), NEW g \in 1..GroupsOf(Len(s), 3)
  PROVE  /\ GroupsOf(Len(s), 3) \in Nat
         /\ Group(s, g, 3) \in Seq(Bytes)
         /\ Len(Group(s, g, 3)) \in 1..3
         /\ Len(Group(s, g, 3)) = 3 <=> 3 * g <= Len(s)
         /\ g < GroupsOf(Len(s), 3) => 3 * g < Len(s)
         /\ Group(s, g, 3) =
              SubSeq(s, 3 * (g - 1) + 1, IF 3 * g < Len(s) THEN 3 * g
                ELSE Len(s))
<1> DEFINE from == 3 * (g - 1) + 1
           to == IF 3 * g < Len(s) THEN 3 * g ELSE Len(s)
<1>0. Len(s) \in Nat /\ GroupsOf(Len(s), 3) \in Nat
  BY DEF GroupsOf
<1>1. /\ from \in Int /\ to \in Int /\ from <= to /\ to - from + 1 \in 1..3
      /\ 1 <= from /\ to <= Len(s)
      /\ to - from + 1 = 3 <=> 3 * g <= Len(s)
      /\ g < GroupsOf(Len(s), 3) => 3 * g < Len(s)
  BY <1>0 DEF GroupsOf
<1>2. Group(s, g, 3) = SubSeq(s, from, to)
  BY DEF Group
<1> HIDE DEF from, to
<1>3. \A i \in from..to : s[i] \in Bytes
  BY <1>0, <1>1, ElementOfSeq
<1>4. /\ SubSeq(s, from, to) \in Seq(Bytes)
      /\ Len(SubSeq(s, from, to)) = to - from + 1
  BY <1>1, <1>3, SubSeqProperties
<1> QED
  BY <1>0, <1>1, <1>2, <1>4 DEF from, to

(* base64_decode cuts what base64_encode made into the same groups.        *)
LEMMA GroupsOfEncoded ==
  ASSUME NEW s \in Seq(Bytes)
  PROVE  /\ Len(base64_encode(s)) = 4 * GroupsOf(Len(s), 3)
         /\ \A g \in 1..GroupsOf(Len(s), 3) :
              Group(base64_encode(s), g, 4) = EncodeGroup(Group(s, g, 3))
<1> DEFINE M == GroupsOf(Len(s), 3)
           chars == base64_encode(s)
           E(g) == EncodeGroup(Group(s, g, 3))
<1>1. M \in Nat
  BY DEF GroupsOf
<1>2. chars = [k \in 1..4 * M |-> E((k + 3) \div 4)[((k - 1) % 4) + 1]]
  BY DEF base64_encode, EncodedLength
<1>3. Len(chars) = 4 * M
  BY <1>1, <1>2
<1>4. ASSUME NEW g \in 1..M
      PROVE  Group(chars, g, 4) = E(g)
  <2> DEFINE from == 4 * (g - 1) + 1
  <2>1. Group(chars, g, 4) = SubSeq(chars, from, 4 * g)
    BY <1>1, <1>3 DEF Group
  <2>2. E(g) = [i \in 1..4 |-> E(g)[i]]
    BY Groups, GroupBack
  <2>3. SubSeq(chars, from, 4 * g) = [i \in 1..4 |-> chars[i + from - 1]]
    BY <1>1
  <2>4. ASSUME NEW i \in 1..4
        PROVE  chars[i + from - 1] = E(g)[i]
    <3> DEFINE k == i + from - 1
    <3>1. k \in 1..4 * M /\ (k + 3) \div 4 = g /\ ((k - 1) % 4) + 1 = i
      BY <1>1
    <3> HIDE DEF k, E
    <3>2. chars[k] = E((k + 3) \div 4)[((k - 1) % 4) + 1]
      BY <1>2, <3>1
    <3> QED
      BY <3>1, <3>2 DEF k
  <2> HIDE DEF E, from, chars
  <2> QED
    BY <2>1, <2>2, <2>3, <2>4
<1> QED
  BY <1>3, <1>4

(* What base64_encode makes of any bytes, base64_decode takes apart again. *)
THEOREM RoundTrip ==
  ASSUME NEW s \in Seq(Bytes)
  PROVE  base64_decode(base64_encode(s)) = s
<1> DEFINE n == Len(s)
           M == GroupsOf(n, 3)
           chars == base64_encode(s)
           groups == [g \in 1..Len(chars) \div 4 |-> Group(chars, g, 4)]
           padded == {g \in DOMAIN groups : groups[g][4] = Pad}
           last == IF padded = {} THEN Len(groups)
                   ELSE CHOOSE g \in padded : \A h \in padded : g <= h
           parts == [g \in 1..last |-> DecodeGroup(groups[g])]
<1>1. n \in Nat /\ M \in Nat /\ (M = 0 <=> n = 0) /\ 3 * M >= n
  BY DEF GroupsOf
<1>2. /\ groups = [g \in 1..M |-> EncodeGroup(Group(s, g, 3))]
      /\ \A g \in 1..M : groups[g] = EncodeGroup(Group(s, g, 3))
  <2>1. Len(chars) \div 4 = M
    BY <1>1, GroupsOfEncoded
  <2>2. \A g \in 1..M : Group(chars, g, 4) = EncodeGroup(Group(s, g, 3))
    BY GroupsOfEncoded
  <2> HIDE DEF chars, M
  <2> QED
    BY <2>1, <2>2
<1> HIDE DEF groups
<1>3. \A g \in 1..M : groups[g][4] = Pad <=> g = M /\ n < 3 * M
  BY <1>1, <1>2, Groups, GroupBack
<1>4. last = M
  <2>1. DOMAIN groups = 1..M /\ Len(groups) = M
    BY <1>1, <1>2
  <2>2. padded = {} \/ padded = {M}
    BY <1>1, <1>3, <2>1
  <2> HIDE DEF padded, M
  <2> QED
    BY <1>1, <2>1, <2>2
<1> HIDE DEF last, M
<1>5. /\ parts = [g \in 1..M |-> Group(s, g, 3)]
      /\ \A g \in 1..M : parts[g] = Group(s, g, 3)
  <2>1. \A g \in 1..M : DecodeGroup(groups[g]) = Group(s, g, 3)
    BY <1>1, <1>2, Groups, GroupBack DEF M
  <2> QED
    BY <1>4, <2>1
<1>6. base64_decode(chars) = FlattenSeq(parts)
  BY DEF base64_decode, groups, last
<1> HIDE DEF parts
<1>7. CASE M = 0
  <2>1. parts = <<>> /\ s = <<>>
    BY <1>1, <1>5, <1>7
  <2> QED
    BY <1>6, <2>1 DEF FlattenSeq
<1>8. CASE M # 0
  <2> DEFINE upto(g) == IF 3 * g < n THEN 3 * g ELSE n
             f == [g \in 1..M |-> SubSeq(s, 1, upto(g))]
  <2>1. M \in Nat \ {0} /\ Len(parts) = M /\ f = [g \in 1..M |-> f[g]]
    BY <1>1, <1>5, <1>8
  <2>6. ASSUME NEW g \in 1..M PROVE parts[g]
                 = SubSeq(s, 3 * (g - 1) + 1, upto(g))
    BY <1>5, Groups DEF M
  <2>2. f[1] = parts[1]
    <3>1. 1 \in 1..M /\ 3 * (1 - 1) + 1 = 1
      BY <2>1
    <3>2. parts[1] = SubSeq(s, 3 * (1 - 1) + 1, upto(1))
      BY <3>1, <2>6
    <3> QED
      BY <3>1, <3>2
  <2>3. ASSUME NEW g \in 2..M PROVE f[g] = f[g - 1] \o parts[g]
    <3>1. /\ g \in 1..M /\ g - 1 \in 1..M /\ upto(g - 1) = 3 * (g - 1)
          /\ upto(g - 1) + 1 \in 1..n + 1 /\ upto(g) \in upto(g - 1)..n
      <4>1. g \in 1..M /\ g - 1 \in 1..M /\ g - 1 < M
        BY <1>1
      <4>2. 3 * (g - 1) < n
        BY <4>1, Groups DEF M
      <4> QED
        BY <1>1, <4>1, <4>2
    <3>2. parts[g] = SubSeq(s, upto(g - 1) + 1, upto(g))
      BY <2>6, <3>1
    <3>3. f[g] = SubSeq(s, 1, upto(g)) /\ f[g - 1] = SubSeq(s, 1, upto(g - 1))
      BY <3>1
    <3> HIDE DEF f, upto
    <3>4. SubSeq(s, 1, upto(g - 1)) \o SubSeq(s, upto(g - 1) + 1, upto(g))
            = SubSeq(s, 1, upto(g))
      <4>1. /\ 1 \in 1..Len(s) + 1 /\ upto(g - 1) \in 1 - 1..Len(s)
            /\ upto(g) \in upto(g - 1)..Len(s)
        BY <1>1, <3>1 DEF n
      <4> QED
        BY <4>1, ConcatAdjacentSubSeq
    <3> QED
      BY <3>2, <3>3, <3>4
  <2>4. f[M] = SubSeq(s, 1, n)
    BY <1>1, <2>1
  <2>5. FlattenSeq(parts) = f[M]
    <3> HIDE DEF f
    <3>1. \A g \in 2..M : f[g] = f[g - 1] \o parts[g]
      BY <2>3
    <3>2. PutTogether(f, parts, M)
      BY <2>1, <2>2, <3>1 DEF PutTogether
    <3> QED
      BY <3>2, Flattened
  <2> QED
    BY <1>6, <2>4, <2>5, SubSeqFull
<1> QED
  BY <1>7, <1>8

-----------------------------------------------------------------------------
(* The message.                                                            *)

(* getStrProperty finds what bin_print wrote.                              *)
LEMMA Properties ==
  ASSUME NEW source, NEW utime, NEW bytes
  PROVE  LET msg == bin_print(source, utime, bytes).msg IN
           /\ getStrProperty(msg, "source") = <<source>>
           /\ getStrProperty(msg, "len") = <<Len(bytes)>>
           /\ getStrProperty(msg, "data") = <<base64_encode(bytes)>>
<1> DEFINE msg == bin_print(source, utime, bytes).msg
           hits(key) == {i \in 1..Len(msg) : msg[i].key = key}
<1>1. /\ Len(msg) = 5
      /\ msg[1] = Part("source", source) /\ msg[2] = Part("len", Len(bytes))
      /\ msg[3].key = "time" /\ msg[4].key = "utime"
      /\ msg[5] = Part("data", base64_encode(bytes))
  BY DEF bin_print, Part
<1> HIDE DEF msg
<1>2. ASSUME NEW key, NEW k \in 1..Len(msg), hits(key) = {k}
      PROVE  getStrProperty(msg, key) = <<msg[k].value>>
  <2>1. (CHOOSE i \in hits(key) : \A j \in hits(key) : i <= j) = k
    BY <1>2
  <2> QED
    BY <1>2, <2>1 DEF getStrProperty
<1>3. hits("source") = {1} /\ hits("len") = {2} /\ hits("data") = {5}
  BY <1>1 DEF Part
<1> HIDE DEF hits
<1>4. /\ getStrProperty(msg, "source") = <<msg[1].value>>
      /\ getStrProperty(msg, "len") = <<msg[2].value>>
      /\ getStrProperty(msg, "data") = <<msg[5].value>>
  BY <1>1, <1>2, <1>3
<1> QED
  BY <1>1, <1>4 DEF Part, msg

(* The message has the frame that bin_print was given, or nothing.         *)
LEMMA Found ==
  ASSUME NEW source \in Sources, NEW utime, NEW bytes \in Seq(Bytes),
         NEW garbage \in 0..NoDigit
  PROVE  FrameIn(bin_print(source, utime, bytes).msg, garbage) =
           IF source = "empty" \/ bytes = <<>> \/ garbage # NoDigit
           THEN <<>> ELSE <<[source |-> source, data |-> bytes]>>
<1>1. PICK msg : msg = bin_print(source, utime, bytes).msg
  OBVIOUS
<1>2. PICK enc : enc = base64_encode(bytes)
  OBVIOUS
<1>3. PICK len : len = Len(bytes)
  OBVIOUS
<1>4. /\ getStrProperty(msg, "source") = <<source>>
      /\ getStrProperty(msg, "len") = <<len>>
      /\ getStrProperty(msg, "data") = <<enc>>
  BY <1>1, <1>2, <1>3, Properties
<1>5. len \in Nat /\ (len = 0 <=> bytes = <<>>)
  BY <1>3
<1>6. enc = <<>> <=> bytes = <<>>
  <2>1. GroupsOf(len, 3) \in Nat /\ (GroupsOf(len, 3) = 0 <=> len = 0)
    BY <1>5 DEF GroupsOf
  <2>2. Len(enc) = 4 * GroupsOf(len, 3)
    BY <1>2, <1>3, GroupsOfEncoded
  <2>3. enc = <<>> => Len(enc) = 0
    OBVIOUS
  <2>4. GroupsOf(len, 3) = 0 => enc = <<>>
    BY <1>2, <1>3 DEF base64_encode, EncodedLength
  <2> QED
    BY <1>5, <2>1, <2>2, <2>3, <2>4
<1>7. base64_decode(enc) = bytes
  BY <1>2, RoundTrip
<1>8. PICK caplen : caplen = getIntProperty(msg, "len", garbage)
  OBVIOUS
<1>9. caplen = IF garbage = NoDigit THEN len ELSE (len * 10) + garbage
  <2>1. getIntProperty(msg, "len", garbage) =
          IF <<len>> = <<>> THEN 0
          ELSE IF garbage = NoDigit THEN <<len>>[1]
            ELSE <<len>>[1] * 10 + garbage
    BY <1>4, Zenon DEF getIntProperty
  <2>2. <<len>> # <<>> /\ <<len>>[1] = len
    OBVIOUS
  <2> QED
    BY <1>8, <2>1, <2>2
<1>10. FrameIn(msg, garbage) =
         IF <<source>> # <<"17 characters">> \/ caplen = 0
            \/ <<enc>> \in {<<>>, <<<<>>>>}
         THEN <<>>
         ELSE IF Len(base64_decode(<<enc>>[1])) # caplen THEN <<>>
         ELSE <<[source |-> <<source>>[1],
           data |-> base64_decode(<<enc>>[1])]>>
  BY <1>4, <1>8, Zenon DEF FrameIn
<1>11. <<enc>>[1] = enc /\ <<source>>[1] = source
  OBVIOUS
<1>12. FrameIn(msg, garbage) =
         IF <<source>> # <<"17 characters">> \/ caplen = 0
            \/ <<enc>> \in {<<>>, <<<<>>>>}
         THEN <<>>
         ELSE IF len # caplen THEN <<>>
         ELSE <<[source |-> source, data |-> bytes]>>
  BY <1>3, <1>7, <1>10, <1>11, Zenon
<1>13. <<source>> # <<"17 characters">> <=> source = "empty"
  BY DEF Sources
<1>14. <<enc>> \in {<<>>, <<<<>>>>} <=> bytes = <<>>
  <2>1. <<enc>> # <<>> /\ (<<enc>> = <<<<>>>> <=> enc = <<>>)
    OBVIOUS
  <2> QED
    BY <1>6, <2>1
<1>15. garbage # NoDigit /\ bytes # <<>> => len # caplen
  BY <1>5, <1>9 DEF NoDigit
<1>16. garbage = NoDigit => caplen = len
  BY <1>9
<1>17. CASE source = "empty" \/ bytes = <<>> \/ garbage # NoDigit
  BY <1>1, <1>12, <1>13, <1>14, <1>15, <1>17
<1>18. CASE ~(source = "empty" \/ bytes = <<>> \/ garbage # NoDigit)
  BY <1>1, <1>5, <1>12, <1>13, <1>14, <1>16, <1>18
<1> QED
  BY <1>17, <1>18

(* do_parse stores the frame that bin_print was given, or nothing.         *)
LEMMA Stored ==
  ASSUME NEW source \in Sources, NEW utime \in 1..6, NEW bytes \in Seq(Bytes),
         NEW garbage \in 0..NoDigit, NEW st \in Threads, NEW db \in Databases
  PROVE  RightResult(source, bytes, garbage, st, db,
           do_parse(bin_print(source, utime, bytes).msg, garbage, st, db))
<1>1. PICK msg : msg = bin_print(source, utime, bytes).msg
  OBVIOUS
<1>2. PICK found : found = FrameIn(msg, garbage)
  OBVIOUS
<1>3. found = IF source = "empty" \/ bytes = <<>> \/ garbage # NoDigit
              THEN <<>> ELSE <<[source |-> source, data |-> bytes]>>
  BY <1>1, <1>2, Found, Zenon
<1>4. PICK connected : connected = (st = "connected"
                                    \/ (st = "not connected" /\ db.connects))
  OBVIOUS
<1>5. do_parse(msg, garbage, st, db) =
        [st |-> IF connected THEN "connected" ELSE st,
         stored |-> IF connected /\ db.inserts THEN found ELSE <<>>]
  BY <1>2, <1>4, Zenon DEF do_parse
<1>6. /\ do_parse(msg, garbage, st, db).st = IF connected THEN "connected" ELSE st
      /\ do_parse(msg, garbage, st, db).stored =
           IF connected /\ db.inserts THEN found ELSE <<>>
  BY <1>5
<1>7. connected <=> ~(st = "NULL" \/ (st = "not connected" /\ ~db.connects))
  BY <1>4 DEF Threads
<1>8. PICK result : result = do_parse(msg, garbage, st, db)
  OBVIOUS
<1>9. result.stored =
        IF \/ st = "NULL" \/ (st = "not connected" /\ ~db.connects)
           \/ ~db.inserts
           \/ source = "empty" \/ bytes = <<>>
           \/ garbage # NoDigit
        THEN <<>> ELSE <<[source |-> source, data |-> bytes]>>
  BY <1>3, <1>6, <1>7, <1>8, Zenon
<1>10. st = "connected" => result.st = st
  BY <1>6, <1>8, Zenon
<1> QED
  BY <1>1, <1>8, <1>9, <1>10, Zenon DEF RightResult

(* how long a frame can be for its message to fit                          *)
LEMMA Fits ==
  ASSUME NEW n \in Nat, NEW source \in Sources, NEW utime \in 1..6
  PROVE  Footprint(source, n, utime) <= 1024 <=>
           IF source = "empty"
           THEN n <= 717 \/ (n <= 720 /\ utime < 6) \/ (n <= 723 /\ utime = 1)
           ELSE n <= 705 \/ (n <= 708 /\ utime < 5)
<1>1. Digits(n) \in 1..4 /\ (Digits(n) = 3 <=> n \in 100..999)
      /\ (n > 999 => Digits(n) = 4)
  BY DEF Digits
<1>2. EncodedLength(n) = 4 * ((n + 2) \div 3)
  BY DEF EncodedLength, GroupsOf
<1>3. CASE source = "empty"
  BY <1>1, <1>2, <1>3 DEF Footprint
<1>4. CASE source # "empty"
  BY <1>1, <1>2, <1>4 DEF Footprint
<1> QED
  BY <1>3, <1>4

-----------------------------------------------------------------------------
(* The filter.                                                             *)

(* the fifth of sixteen names and no other                                 *)
OnlyFifth(list, name) ==
  /\ list[1] # name /\ list[2] # name /\ list[3] # name /\ list[4] # name
  /\ list[5] = name /\ list[6] # name /\ list[7] # name /\ list[8] # name
  /\ list[9] # name /\ list[10] # name /\ list[11] # name /\ list[12] # name
  /\ list[13] # name /\ list[14] # name /\ list[15] # name /\ list[16] # name

(* A name that only the fifth entry of a table has.                        *)
LEMMA Fifth ==
  ASSUME NEW list, NEW name, OnlyFifth(list, name)
  PROVE  \A u \in 0..15 : list[u + 1] = name <=> u = 4
<1>1. SUFFICES ASSUME NEW u \in 0..15 PROVE list[u + 1] = name <=> u = 4
  OBVIOUS
<1>2. \/ u = 0 \/ u = 1 \/ u = 2 \/ u = 3 \/ u = 4 \/ u = 5 \/ u = 6 \/ u = 7
      \/ u = 8 \/ u = 9 \/ u = 10 \/ u = 11
      \/ u = 12 \/ u = 13 \/ u = 14 \/ u = 15
  OBVIOUS
<1> QED
  BY <1>2 DEF OnlyFifth

(* Subtype 4 has a name of its own in both tables.                         *)
LEMMA SubtypeNames ==
  \A u \in 0..15 :
    /\ Subtypes["Management"][u + 1] = "Probe request" <=> u = 4
    /\ Subtypes["Data"][u + 1] = "Null (no data)" <=> u = 4
<1>1. R # "Probe request" /\ R # "Null (no data)"
  BY DEF R
<1>2. OnlyFifth(Subtypes["Management"], "Probe request")
  BY <1>1 DEF OnlyFifth, Subtypes
<1>3. OnlyFifth(Subtypes["Data"], "Null (no data)")
  BY <1>1 DEF OnlyFifth, Subtypes
<1> QED
  BY <1>2, <1>3, Fifth, Zenon

(* filter lets through what parse80211 names so, whatever the two bytes.   *)
LEMMA Named ==
  ASSUME NEW fc0 \in 0..255, NEW fc1 \in 0..255, NEW len \in Nat \ {0}
  PROVE  LET named == parse80211(fc0, fc1, len) IN
           /\ filter(fc0) <=> <<named.type, named.subtype>> \in
                {<<"Management", "Probe request">>,
                 <<"Data", "Null (no data)">>}
           /\ len > 10 => named.mac_addr[2] = 10
<1>1. PICK t \in 0..3, u \in 0..15 :
        t = TypeBits(fc0) /\ u = SubtypeBits(fc0)
        /\ fc0 = 16 * u + 4 * t + (fc0 % 4)
  BY DEF TypeBits, SubtypeBits
<1>2. filter(fc0) <=> (u = 4 /\ t \in {0, 2})
  BY <1>1 DEF filter
<1>3. PICK named : named = parse80211(fc0, fc1, len)
  OBVIOUS
<1>4. /\ named.type = Types[t + 1]
      /\ named.subtype = Subtypes[Types[t + 1]][u + 1]
  <2>1. len > 0
    OBVIOUS
  <2>2. (IF len > 0 THEN fc0 ELSE 0) = fc0
    BY <2>1
  <2>3. /\ named.type = Types[TypeBits(fc0) + 1]
        /\ named.subtype
             = Subtypes[Types[TypeBits(fc0) + 1]][SubtypeBits(fc0) + 1]
    BY <1>3, <2>2, Zenon DEF parse80211
  <2> QED
    BY <1>1, <2>3
<1>5. /\ Types[1] = "Management" /\ Types[2] = "Control"
      /\ Types[3] = "Data" /\ Types[4] = "Reserved"
  BY DEF Types
<1>6. /\ Subtypes["Management"][u + 1] = "Probe request" <=> u = 4
      /\ Subtypes["Data"][u + 1] = "Null (no data)" <=> u = 4
  BY SubtypeNames
<1>7. t = 0 \/ t = 1 \/ t = 2 \/ t = 3
  OBVIOUS
<1>8. filter(fc0) <=> <<named.type, named.subtype>> \in
        {<<"Management", "Probe request">>, <<"Data", "Null (no data)">>}
  <2>1. \A a, b : <<a, b>> \in
            {<<"Management", "Probe request">>, <<"Data", "Null (no data)">>}
          <=> \/ a = "Management" /\ b = "Probe request"
              \/ a = "Data" /\ b = "Null (no data)"
    OBVIOUS
  <2>2. u = 4 /\ t \in {0, 2} <=>
          \/ named.type = "Management" /\ named.subtype = "Probe request"
          \/ named.type = "Data" /\ named.subtype = "Null (no data)"
    <3>1. PICK type : type = Types[t + 1]
      OBVIOUS
    <3>2. PICK subtype : subtype = Subtypes[type][u + 1]
      OBVIOUS
    <3>3. /\ t = 0 => type = "Management"
          /\ t = 1 => type = "Control"
          /\ t = 2 => type = "Data"
          /\ t = 3 => type = "Reserved"
      BY <1>5, <3>1
    <3>4. /\ type = "Management" <=> t = 0
          /\ type = "Data" <=> t = 2
      BY <1>7, <3>3
    <3>5. /\ t = 0 => (subtype = "Probe request" <=> u = 4)
          /\ t = 2 => (subtype = "Null (no data)" <=> u = 4)
      BY <1>6, <3>2, <3>3
    <3>6. named.type = type /\ named.subtype = subtype
      BY <1>4, <3>1, <3>2
    <3>7. u = 4 /\ t \in {0, 2} <=>
            \/ type = "Management" /\ subtype = "Probe request"
            \/ type = "Data" /\ subtype = "Null (no data)"
      BY <3>4, <3>5
    <3> QED
      BY <3>6, <3>7
  <2> QED
    BY <1>2, <2>1, <2>2, Zenon
<1>9. ASSUME len > 10 PROVE named.mac_addr[2] = 10
  <2>1. Reached(2, len) /\ AddressAt(2) = 10
    BY <1>9 DEF Reached, AddressAt
  <2>2. named.mac_addr = [k \in 1..3 |-> IF Reached(k, len)
          THEN AddressAt(k) ELSE 0]
    BY <1>3, Zenon DEF parse80211
  <2> QED
    BY <2>1, <2>2
<1> QED
  BY <1>3, <1>8, <1>9, Zenon

-----------------------------------------------------------------------------
(* The radiotap header.                                                    *)

IsHeader(h) == h.present \subseteq DOMAIN Size /\ h.ext \in Nat
  /\ h.zero \in BOOLEAN

(* The fields that parseRadioHeader goes through, and their sizes.         *)
LEMMA Parsing ==
  /\ Len(Parsed) = 18
  /\ \A i \in 1..18 : Parsed[i] \in DOMAIN Size
  /\ \A f \in DOMAIN Size : Size[f] \in Nat
BY DEF Parsed, Size

(* The fields of the radiotap format, in its order.                        *)
LEMMA Writing ==
  /\ Len(Written) = 21
  /\ \A i \in 1..21 : Written[i] \in DOMAIN Size
BY DEF Written, Parsed, Size

(* The cursor and the layout are the recursions they are written as.       *)
LEMMA CursorUnfolds ==
  ASSUME NEW h, IsHeader(h)
  PROVE  /\ Cursor(h)[0] = FirstField(h)
         /\ \A i \in 1..18 : Cursor(h)[i]
              = Advance(h, Parsed[i], Cursor(h)[i - 1])
<1> DEFINE rhs(g) == [i \in 0..Len(Parsed) |->
                        IF i = 0 THEN FirstField(h)
                        ELSE Advance(h, Parsed[i], g[i - 1])]
           step == [i \in 1..18 |-> [p \in Nat |-> Advance(h, Parsed[i], p)]]
<1>1. FirstField(h) \in Nat
  BY DEF FirstField, IsHeader
<1>2. step \in [1..18 -> [Nat -> Nat]]
  BY Parsing DEF Advance
<1>3. PICK f \in [0..18 -> Nat] : Unfolds(f, 18, FirstField(h), step)
  <2> HIDE DEF step
  <2>1. 18 \in Nat
    OBVIOUS
  <2> QED
    BY <1>1, <1>2, <2>1, Recursion
<1>4. f = rhs(f)
  <2>1. \A i \in 1..18 : i - 1 \in 0..18
          /\ f[i] = Advance(h, Parsed[i], f[i - 1])
    BY <1>3 DEF Unfolds
  <2> QED
    BY <1>3, <2>1, Parsing DEF Unfolds
<1>5. Cursor(h) = CHOOSE g : g = rhs(g)
  BY DEF Cursor
<1>6. Cursor(h) = rhs(Cursor(h))
  <2> HIDE DEF rhs
  <2> QED
    BY <1>4, <1>5
<1> QED
  BY <1>6, Parsing

(* where the field after f starts at the earliest                          *)
Ending(h, f, p) == Start(h, f, p) + (IF f \in h.present THEN Size[f] ELSE 0)

(* Where each field of the format ends, from the one before.               *)
LEMMA LayoutUnfolds ==
  ASSUME NEW h, IsHeader(h)
  PROVE  /\ Layout(h)[0] = 8 + 4 * h.ext
         /\ \A i \in 1..21 : Layout(h)[i]
              = Ending(h, Written[i], Layout(h)[i - 1])
<1> DEFINE rhs(g) == [i \in 0..Len(Written) |->
                        IF i = 0 THEN 8 + 4 * h.ext
                        ELSE Start(h, Written[i], g[i - 1])
                             + (IF Written[i] \in h.present
                                THEN Size[Written[i]] ELSE 0)]
           step == [i \in 1..21 |-> [p \in Nat |-> Ending(h, Written[i], p)]]
<1>1. 8 + 4 * h.ext \in Nat
  BY DEF IsHeader
<1>2. step \in [1..21 -> [Nat -> Nat]]
  <2>1. \A f \in DOMAIN Size : Alignment[f] \in {1, 2, 4, 8}
    BY DEF Alignment
  <2>2. \A p \in Nat, a \in {1, 2, 4, 8} : AlignUp(p, a) \in Nat
    BY DEF AlignUp
  <2>3. \A i \in 1..21, p \in Nat : Ending(h, Written[i], p) \in Nat
    BY <2>1, <2>2, Parsing, Writing, SMTT(60) DEF Ending, Start
  <2> QED
    BY <2>3
<1>3. PICK f \in [0..21 -> Nat] : Unfolds(f, 21, 8 + 4 * h.ext, step)
  <2> HIDE DEF step
  <2>1. 21 \in Nat
    OBVIOUS
  <2> QED
    BY <1>1, <1>2, <2>1, Recursion
<1>4. f = rhs(f)
  <2>1. \A i \in 1..21 : i - 1 \in 0..21
          /\ f[i] = Ending(h, Written[i], f[i - 1])
    BY <1>3 DEF Unfolds
  <2> QED
    BY <1>3, <2>1, Writing DEF Ending, Unfolds
<1>5. Layout(h) = CHOOSE g : g = rhs(g)
  BY DEF Layout
<1>6. Layout(h) = rhs(Layout(h))
  <2> HIDE DEF rhs
  <2> QED
    BY <1>4, <1>5
<1> QED
  BY <1>6, Writing DEF Ending

(* The antenna signal is the sixth field, in the header and for the parser.*)
LEMMA Sixth ==
  /\ \A i \in 1..5 : Written[i] = Parsed[i]
  /\ Written[6] = "AntennaSignal" /\ Parsed[6] = "AntennaSignal"
  /\ \A i \in 1..18 : Parsed[i] = "AntennaSignal" => i = 6
  /\ \A i \in 1..21 : Written[i] = "AntennaSignal" => i = 6
BY DEF Written, Parsed

(* The antenna signal: where it is read, and where it is.                  *)
LEMMA Places ==
  ASSUME NEW h, IsHeader(h), "AntennaSignal" \in h.present
  PROVE  /\ parseRadioHeader(h).AntennaSignal = Cursor(h)[5]
         /\ WrittenAt(h, "AntennaSignal") = AlignUp(Layout(h)[5], 1)
<1>1. Index("AntennaSignal") = 6
  BY Parsing, Sixth DEF Index
<1>2. (CHOOSE j \in 1..Len(Written) : Written[j] = "AntennaSignal") = 6
  BY Writing, Sixth
<1>3. Alignment["AntennaSignal"] = 1
  BY DEF Alignment, Size
<1>4. WrittenAt(h, "AntennaSignal")
        = Start(h, "AntennaSignal", Layout(h)[6 - 1])
  BY <1>2, Zenon DEF WrittenAt
<1>5. ReadAt(h, "AntennaSignal") = Cursor(h)[6 - 1]
  BY <1>1, Zenon DEF ReadAt
<1>6. "AntennaSignal" \in {Parsed[i] : i \in 1..Len(Parsed)}
  BY Parsing, Sixth
<1>7. parseRadioHeader(h).AntennaSignal = ReadAt(h, "AntennaSignal")
  BY <1>6 DEF parseRadioHeader
<1>8. 6 - 1 = 5
  OBVIOUS
<1> QED
  BY <1>3, <1>4, <1>5, <1>7, <1>8 DEF Start

(* The server reads the signal where the format puts it or it does not.    *)
LEMMA Signal ==
  ASSUME NEW h, IsHeader(h), "AntennaSignal" \in h.present
  PROVE  parseRadioHeader(h).AntennaSignal = WrittenAt(h, "AntennaSignal") <=>
           /\ h.zero = NeedsZeroWord(h)
           /\ ~(/\ "Channel" \in h.present
                /\ ("Flags" \in h.present) # ("Rate" \in h.present))
<1> DEFINE has(f) == f \in h.present
           bytes(f) == IF f \in h.present THEN Size[f] ELSE 0
<1>1. /\ Parsed[1] = "TSFT" /\ Parsed[2] = "Flags" /\ Parsed[3] = "Rate"
      /\ Parsed[4] = "Channel" /\ Parsed[5] = "FHSS"
  BY DEF Parsed
<1>2. /\ Size["TSFT"] = 8 /\ Size["Flags"] = 1 /\ Size["Rate"] = 1
      /\ Size["Channel"] = 4 /\ Size["FHSS"] = 2
  BY DEF Size
<1>3. /\ Alignment["TSFT"] = 8 /\ Alignment["Flags"] = 1
           /\ Alignment["Rate"] = 1
      /\ Alignment["Channel"] = 2 /\ Alignment["FHSS"] = 1
  BY DEF Alignment, Size
<1>4. PICK base \in Nat : base = 8 + 4 * h.ext
  BY DEF IsHeader
<1>5. PICK flags \in {0, 1} : flags = bytes("Flags")
  BY <1>2
<1>6. PICK rate \in {0, 1} : rate = bytes("Rate")
  BY <1>2
<1>7. PICK channel \in {0, 4} : channel = bytes("Channel")
  BY <1>2
<1>8. PICK fhss \in {0, 2} : fhss = bytes("FHSS")
  BY <1>2
<1>9. PICK tsft \in {0, 8} : tsft = bytes("TSFT")
  BY <1>2
<1>10. PICK zero \in {0, 4} : zero = IF h.zero THEN 4 ELSE 0
  BY DEF IsHeader
<1>11. PICK word \in {0, 4} : word = IF NeedsZeroWord(h) THEN 4 ELSE 0
  OBVIOUS
<1>12. PICK pad \in {0, 1} :
         pad = IF channel = 4 /\ flags # rate THEN 1 ELSE 0
  OBVIOUS
<1>20. Cursor(h)[5] = base + zero + tsft + flags + rate + channel + fhss
  <2>1. /\ Cursor(h)[0] = base + zero
        /\ \A i \in 1..5 :
             Cursor(h)[i] = Advance(h, Parsed[i], Cursor(h)[i - 1])
    BY <1>4, <1>10, CursorUnfolds DEF FirstField
  <2>2. Cursor(h)[1] = base + zero + tsft
    BY <1>1, <1>2, <1>9, <2>1 DEF Advance
  <2>3. Cursor(h)[2] = base + zero + tsft + flags
    BY <1>1, <1>2, <1>5, <2>1, <2>2 DEF Advance
  <2>4. Cursor(h)[3] = base + zero + tsft + flags + rate
    BY <1>1, <1>2, <1>6, <2>1, <2>3 DEF Advance
  <2>5. Cursor(h)[4] = base + zero + tsft + flags + rate + channel
    BY <1>1, <1>2, <1>7, <2>1, <2>4 DEF Advance
  <2> QED
    BY <1>1, <1>2, <1>8, <2>1, <2>5 DEF Advance
<1>21. Layout(h)[5] = base + word + tsft + flags + rate + pad + channel + fhss
  <2>1. /\ Layout(h)[0] = base
        /\ \A i \in 1..5 : Layout(h)[i]
             = Ending(h, Parsed[i], Layout(h)[i - 1])
    BY <1>4, LayoutUnfolds, Sixth
  <2>2. Layout(h)[1] = base + word + tsft
    <3>1. Layout(h)[1] = Ending(h, "TSFT", base)
      BY <1>1, <2>1
    <3>2. CASE "TSFT" \in h.present
      <4>1. Ending(h, "TSFT", base) = AlignUp(base, 8) + 8
        BY <1>2, <1>3, <3>2 DEF Ending, Start
      <4>2. AlignUp(base, 8) = IF h.ext % 2 = 1 THEN base + 4 ELSE base
        BY <1>4 DEF AlignUp, IsHeader
      <4> QED
        BY <1>2, <1>9, <1>11, <3>1, <3>2, <4>1, <4>2 DEF NeedsZeroWord
    <3>3. CASE "TSFT" \notin h.present
      BY <1>9, <1>11, <3>1, <3>3 DEF Ending, Start, NeedsZeroWord
    <3> QED
      BY <3>2, <3>3
  <2>3. \A p \in Nat : AlignUp(p, 1) = p
    BY DEF AlignUp
  <2>4. Layout(h)[2] = base + word + tsft + flags
    BY <1>1, <1>2, <1>3, <1>5, <2>1, <2>2, <2>3 DEF Ending, Start
  <2>5. Layout(h)[3] = base + word + tsft + flags + rate
    BY <1>1, <1>2, <1>3, <1>6, <2>1, <2>3, <2>4 DEF Ending, Start
  <2>6. Layout(h)[4] = base + word + tsft + flags + rate + pad + channel
    <3>1. Layout(h)[4] = Ending(h, "Channel", Layout(h)[3])
      BY <1>1, <2>1
    <3>2. CASE "Channel" \in h.present
      <4>1. AlignUp(Layout(h)[3], 2) = Layout(h)[3] + pad
        <5>1. PICK k \in Nat : base + word + tsft = 2 * k
          <6>1. PICK b \in Nat : b = 4 + 2 * h.ext
            BY DEF IsHeader
          <6>2. PICK w \in {0, 2} : word = 2 * w
            OBVIOUS
          <6>3. PICK t \in {0, 4} : tsft = 2 * t
            OBVIOUS
          <6>4. PICK k \in Nat : k = b + w + t
            OBVIOUS
          <6>5. base = 2 * b
            BY <1>4, <6>1 DEF IsHeader
          <6>6. base + word + tsft = 2 * k
            BY <6>2, <6>3, <6>4, <6>5
          <6> QED
            BY <6>6
        <5>2. \A j \in Nat : AlignUp(2 * j, 2) = 2 * j
                /\ AlignUp(2 * j + 1, 2) = 2 * j + 2
          BY DEF AlignUp
        <5>3. channel = 4
          BY <1>2, <1>7, <3>2
        <5>4. CASE flags = rate
          <6>1. PICK j \in Nat : j = k + flags
            OBVIOUS
          <6>2. Layout(h)[3] = 2 * j
            BY <2>5, <5>1, <5>4, <6>1
          <6>3. pad = 0
            BY <1>12, <5>4
          <6> QED
            BY <5>2, <6>2, <6>3
        <5>5. CASE flags # rate
          <6>1. Layout(h)[3] = 2 * k + 1
            BY <2>5, <5>1, <5>5
          <6>2. pad = 1
            BY <1>12, <5>3, <5>5
          <6> QED
            BY <5>2, <6>1, <6>2
        <5> QED
          BY <5>4, <5>5
      <4> QED
        BY <1>2, <1>3, <1>7, <2>5, <3>1, <3>2, <4>1 DEF Ending, Start
    <3>3. CASE "Channel" \notin h.present
      BY <1>7, <1>12, <2>5, <3>1, <3>3 DEF Ending, Start
    <3> QED
      BY <3>2, <3>3
  <2> QED
    BY <1>1, <1>2, <1>3, <1>8, <2>1, <2>3, <2>6 DEF Ending, Start
<1>22. WrittenAt(h, "AntennaSignal") = Layout(h)[5]
  BY <1>21, Places DEF AlignUp
<1>23. parseRadioHeader(h).AntennaSignal = WrittenAt(h, "AntennaSignal") <=>
         zero = word + pad
  BY <1>20, <1>21, <1>22, Places
<1>24. zero = word + pad <=> zero = word /\ pad = 0
  OBVIOUS
<1>25. zero = word <=> h.zero = NeedsZeroWord(h)
  BY <1>10, <1>11 DEF IsHeader, NeedsZeroWord
<1>26. pad = 0 <=> ~(/\ "Channel" \in h.present
                     /\ ("Flags" \in h.present) # ("Rate" \in h.present))
  BY <1>2, <1>5, <1>6, <1>7, <1>12
<1> QED
  BY <1>23, <1>24, <1>25, <1>26

-----------------------------------------------------------------------------
(* Documents and what is one symbol, or a cut, away from them.             *)

(* A sequence of symbols other than the zero is a text, if four digits     *)
(* stand behind every \u, or if there is no u.                             *)
LEMMA TextIs ==
  ASSUME NEW S, NUL \notin S, NEW m \in Seq(S), WellEscaped(m)
  PROVE  IsText(m)
<1>1. Len(m) \in Nat /\ m \in [1..Len(m) -> S]
  OBVIOUS
<1>2. m \in [1..Len(m) -> Chars(m)]
  BY <1>1 DEF Chars
<1>3. m \in Seq(Chars(m))
  BY <1>1, <1>2
<1> QED
  BY <1>1, <1>3 DEF IsText

(* Nothing is escaped where there is no u.                                 *)
LEMMA PlainTextIs ==
  ASSUME NEW S, NUL \notin S, Unicode \notin S, NEW m \in Seq(S)
  PROVE  IsText(m)
<1>1. \A i \in 2..Len(m) : m[i] # Unicode
  <2>1. \A i \in 2..Len(m) : i \in 1..Len(m)
    OBVIOUS
  <2> QED
    BY <2>1, ElementOfSeq
<1>2. WellEscaped(m)
  BY <1>1 DEF WellEscaped
<1> QED
  BY <1>2, TextIs

(* No symbol of a document is the zero.                                    *)
LEMMA NoNulSymbol == NUL \notin Symbols
<1>1. NUL # "a" /\ NUL # Unicode /\ NUL \notin HexDigits
  BY DEF NUL, Unicode, HexDigits
<1>2. Literal \in Scalars /\ Digitless \in Scalars
  BY DEF Scalars
<1> QED
  BY <1>1, <1>2, SymbolsDiffer DEF Symbols

(* Strings and names are written with the symbols of a text.               *)
LEMMA NamesAre ==
  ASSUME NEW S, Quote \in S, Colon \in S, NEW text \in Seq(S)
  PROVE  String(text) \in Seq(S) /\ Name(text) \in Seq(S)
<1>1. <<Quote>> \in Seq(S) /\ <<Colon>> \in Seq(S)
  OBVIOUS
<1>2. String(text) \in Seq(S)
  BY <1>1 DEF String
<1> QED
  BY <1>1, <1>2 DEF Name

(* What is one symbol, or a cut, away from a text is a text, if four digits*)
(* stand behind every \u.                                                  *)
LEMMA EditsAreTexts ==
  ASSUME NEW text \in Seq(Symbols), NEW s \in Edits(text), WellEscaped(s)
  PROVE  IsText(s)
<1>1. SUFFICES s \in Seq(Symbols)
  BY NoNulSymbol, TextIs
<1>2. ASSUME NEW i \in 1..Len(text), s \in EditsAt(text, i)
      PROVE  s \in Seq(Symbols)
  <2>1. Before(text, i) \in Seq(Symbols) /\ After(text, i) \in Seq(Symbols)
    BY DEF Before, After
  <2>2. PICK middle \in {<<>>} \cup {<<c>> : c \in Symbols} :
          s = Before(text, i) \o middle \o After(text, i)
    BY <1>2 DEF EditsAt
  <2>3. middle = <<>> \/ \E c \in Symbols : middle = <<c>>
    BY Zenon
  <2>4. middle \in Seq(Symbols)
    <3>1. <<>> \in Seq(Symbols) /\ \A c \in Symbols : <<c>> \in Seq(Symbols)
      OBVIOUS
    <3> QED
      BY <2>3, <3>1, Zenon
  <2> QED
    BY <2>1, <2>2, <2>4
<1>3. ASSUME NEW n \in 0..Len(text), s = SubSeq(text, 1, n)
      PROVE  s \in Seq(Symbols)
  BY <1>3
<1>4. \/ \E i \in 1..Len(text) : s \in EditsAt(text, i)
      \/ \E n \in 0..Len(text) : s = SubSeq(text, 1, n)
  BY Zenon DEF Edits
<1> QED
  BY <1>2, <1>3, <1>4, Zenon

-----------------------------------------------------------------------------
(* A configuration file and what initConfig makes of it.  The lemmas are   *)
(* about any text m that has the file's symbols, or the first of them, at  *)
(* its beginning; c is the place of the bracket that closes the list.      *)

(* the symbols of a string of one word, and of an empty one                *)
LEMMA StringsAre ==
  /\ \A w : String(<<w>>) = <<Quote, w, Quote>>
  /\ String(<<>>) = <<Quote, Quote>>
<1>1. ASSUME NEW q, NEW w PROVE <<q>> \o <<w>> \o <<q>> = <<q, w, q>>
  <2>1. <<q>> \in Seq({q, w}) /\ <<w>> \in Seq({q, w})
    OBVIOUS
  <2>2. PICK one : one = <<q>> \o <<w>>
    OBVIOUS
  <2>3. /\ one \in Seq({q, w}) /\ Len(one) = 2 /\ one[1] = q /\ one[2] = w
    BY <2>1, <2>2
  <2>4. PICK both : both = one \o <<q>>
    OBVIOUS
  <2>5. /\ both \in Seq({q, w}) /\ Len(both) = 3
        /\ both[1] = q /\ both[2] = w /\ both[3] = q
    <3>1. Len(<<q>>) = 1 /\ <<q>>[1] = q
      OBVIOUS
    <3>2. /\ both \in Seq({q, w}) /\ Len(both) = Len(one) + 1
          /\ \A i \in 1..Len(one) : both[i] = one[i]
          /\ \A k \in 1..1 : both[Len(one) + k] = <<q>>[k]
      BY <2>1, <2>3, <2>4, <3>1, OneMore, ConcatProperties
    <3> QED
      BY <2>3, <3>1, <3>2
  <2>6. both = <<q, w, q>>
    BY <2>5
  <2> QED
    BY <2>2, <2>4, <2>6
<1>2. ASSUME NEW q PROVE <<q>> \o <<>> \o <<q>> = <<q, q>>
  <2>1. <<q>> \in Seq({q}) /\ <<q>> \o <<>> = <<q>>
    OBVIOUS
  <2>2. PICK both : both = <<q>> \o <<q>>
    OBVIOUS
  <2>3. both \in Seq({q}) /\ Len(both) = 2 /\ both[1] = q /\ both[2] = q
    BY <2>1, <2>2
  <2>4. both = <<q, q>>
    BY <2>3
  <2> QED
    BY <2>1, <2>2, <2>4
<1> QED
  BY <1>1, <1>2, Zenon DEF String

(* the word in an entry, none in a number or an empty string               *)
Word(e) == IF e = String(<<"a">>) THEN <<"a">>
           ELSE IF e = String(<<"b">>) THEN <<"b">>
           ELSE IF e = String(<<Long>>) THEN <<Long>> ELSE <<>>

ItemOf(e) == IF e = <<Literal>> THEN Item("literal", <<>>, <<>>, <<>>)
             ELSE StringItem(Word(e))

(* No word is a symbol that the parser looks for, and only one is too long *)
(* for buff.                                                               *)
LEMMA LettersDiffer ==
  /\ {"a", "b", Long, "filter", "SUBTYPE", "mac"}
       \cap {Quote, Backslash, Blank, Literal, NUL, Unicode,
             OpenArray, CloseArray, OpenObject, CloseObject, Comma, Colon} = {}
  /\ "a" # "b" /\ "a" # Long /\ "b" # Long
  /\ ~TooLong(<<>>) /\ ~TooLong(<<"a">>) /\ ~TooLong(<<"b">>)
  /\ TooLong(<<Long>>)
<1>1. {"a", "b", Long, "filter", "SUBTYPE", "mac"}
        \cap {Quote, Backslash, Blank, Literal, NUL, Unicode,
              OpenArray, CloseArray, OpenObject, CloseObject, Comma, Colon} = {}
  BY Zenon DEF Quote, Backslash, Blank, Literal, NUL, Unicode, Long, OpenArray,
       CloseArray, OpenObject, CloseObject, Comma, Colon
<1>2. "a" # "b" /\ "a" # Long /\ "b" # Long
  BY Zenon DEF Long
<1>3. ASSUME NEW w PROVE TooLong(<<w>>) <=> w = Long
  BY DEF TooLong
<1>4. ~TooLong(<<>>)
  BY DEF TooLong
<1> QED
  BY <1>1, <1>2, <1>3, <1>4

(* what an entry is, its word and the item it becomes                      *)
LEMMA EntryCases ==
  ASSUME NEW e \in Entries
  PROVE  /\ \/ e = <<Quote, "a", Quote>> /\ ItemOf(e) = StringItem(<<"a">>)
               /\ Len(e) = 3 /\ Word(e) = <<"a">> /\ e # <<Literal>>
            \/ e = <<Quote, "b", Quote>> /\ ItemOf(e) = StringItem(<<"b">>)
               /\ Len(e) = 3 /\ Word(e) = <<"b">> /\ e # <<Literal>>
            \/ e = <<Quote, Long, Quote>> /\ ItemOf(e) = StringItem(<<Long>>)
               /\ Len(e) = 3 /\ Word(e) = <<Long>> /\ e # <<Literal>>
            \/ e = <<Quote, Quote>> /\ ItemOf(e) = StringItem(<<>>)
               /\ Len(e) = 2 /\ Word(e) = <<>> /\ e # <<Literal>>
            \/ e = <<Literal>> /\ Len(e) = 1 /\ Word(e) = <<>>
               /\ ItemOf(e) = Item("literal", <<>>, <<>>, <<>>)
         /\ e[1] \in {Quote, Literal}
         /\ \A w \in {"a", "b", Long} : Word(e) = <<w>> <=> e = String(<<w>>)
         /\ e = String(<<>>) <=> Word(e) = <<>> /\ e # <<Literal>>
<1>1. /\ String(<<"a">>) = <<Quote, "a", Quote>>
      /\ String(<<"b">>) = <<Quote, "b", Quote>>
      /\ String(<<Long>>) = <<Quote, Long, Quote>>
      /\ String(<<>>) = <<Quote, Quote>>
  BY StringsAre
<1>2. PICK a, b, d, n, l :
        /\ a = <<Quote, "a", Quote>> /\ b = <<Quote, "b", Quote>>
        /\ d = <<Quote, Long, Quote>>
        /\ n = <<Quote, Quote>> /\ l = <<Literal>>
  OBVIOUS
<1>3. /\ a # b /\ a # n /\ a # l /\ b # n /\ b # l /\ n # l
      /\ d # a /\ d # b /\ d # n /\ d # l
      /\ Len(a) = 3 /\ Len(b) = 3 /\ Len(d) = 3 /\ Len(n) = 2 /\ Len(l) = 1
      /\ a[1] = Quote /\ b[1] = Quote /\ d[1] = Quote /\ n[1] = Quote
      /\ l[1] = Literal
  <2>1. Len(a) = 3 /\ Len(b) = 3 /\ Len(d) = 3 /\ Len(n) = 2 /\ Len(l) = 1
    BY <1>2
  <2>2. /\ a[2] = "a" /\ b[2] = "b" /\ d[2] = Long
        /\ "a" # "b" /\ "a" # Long /\ "b" # Long
    BY <1>2, LettersDiffer
  <2> QED
    BY <1>2, <2>1, <2>2
<1>4. PICK A, B, D : A = <<"a">> /\ B = <<"b">> /\ D = <<Long>>
  OBVIOUS
<1>5. A # B /\ A # D /\ B # D /\ A # <<>> /\ B # <<>> /\ D # <<>>
  <2>1. /\ A[1] = "a" /\ B[1] = "b" /\ D[1] = Long
        /\ "a" # "b" /\ "a" # Long /\ "b" # Long
        /\ Len(A) = 1 /\ Len(B) = 1 /\ Len(D) = 1
    BY <1>4, LettersDiffer
  <2> QED
    BY <2>1
<1>6. /\ e \in {a, b, d, n, l}
      /\ Word(e) = IF e = a THEN A ELSE IF e = b THEN B
                   ELSE IF e = d THEN D ELSE <<>>
      /\ ItemOf(e) = IF e = l THEN Item("literal", <<>>, <<>>, <<>>)
                     ELSE StringItem(Word(e))
  BY <1>1, <1>2, <1>4, Zenon DEF Entries, Word, ItemOf
<1>7. /\ \/ e = a /\ ItemOf(e) = StringItem(A)
            /\ Len(e) = 3 /\ Word(e) = A /\ e # l
         \/ e = b /\ ItemOf(e) = StringItem(B)
            /\ Len(e) = 3 /\ Word(e) = B /\ e # l
         \/ e = d /\ ItemOf(e) = StringItem(D)
            /\ Len(e) = 3 /\ Word(e) = D /\ e # l
         \/ e = n /\ ItemOf(e) = StringItem(<<>>)
            /\ Len(e) = 2 /\ Word(e) = <<>> /\ e # l
         \/ e = l /\ Len(e) = 1 /\ Word(e) = <<>>
            /\ ItemOf(e) = Item("literal", <<>>, <<>>, <<>>)
      /\ e[1] \in {Quote, Literal}
      /\ Word(e) = A <=> e = a
      /\ Word(e) = B <=> e = b
      /\ Word(e) = D <=> e = d
      /\ e = n <=> Word(e) = <<>> /\ e # l
  <2>1. PICK w, item : w = Word(e) /\ item = ItemOf(e)
    OBVIOUS
  <2>2. CASE e = a
    BY <1>3, <1>5, <1>6, <2>2
  <2>3. CASE e = b
    BY <1>3, <1>5, <1>6, <2>3
  <2>4. CASE e = n
    BY <1>3, <1>5, <1>6, <2>4
  <2>5. CASE e = l
    BY <1>3, <1>5, <1>6, <2>5
  <2>6. CASE e = d
    BY <1>3, <1>5, <1>6, <2>6
  <2> QED
    BY <1>6, <2>2, <2>3, <2>4, <2>5, <2>6
<1>8. \A w \in {"a", "b", Long} : Word(e) = <<w>> <=> e = String(<<w>>)
  <2>1. ASSUME NEW w \in {"a", "b", Long}
        PROVE  Word(e) = <<w>> <=> e = String(<<w>>)
    <3>1. CASE w = "a"
      BY <1>1, <1>2, <1>4, <1>7, <3>1
    <3>2. CASE w = "b"
      BY <1>1, <1>2, <1>4, <1>7, <3>2
    <3>3. CASE w = Long
      BY <1>1, <1>2, <1>4, <1>7, <3>3
    <3> QED
      BY <3>1, <3>2, <3>3
  <2> QED
    BY <2>1
<1> QED
  BY <1>1, <1>2, <1>4, <1>7, <1>8, Zenon

Stands(m, p, s) == \A k \in 1..Len(s) : At(m, p + k - 1) = s[k]

(* The parser takes an entry as it stands.                                 *)
LEMMA EntryParsed ==
  ASSUME NEW m, IsText(m), NEW p \in 1..Len(m),
         NEW e \in Entries, Stands(m, p, e)
  PROVE  /\ At(m, p) \in {Quote, Literal}
         /\ Val(m, p).end = p + Len(e) /\ Val(m, p).item = ItemOf(e)
<1>1. p \in 1..Len(m) + 4
  BY LenIs
<1>2. ASSUME NEW w \in {"a", "b", Long}, e = <<Quote, w, Quote>>,
             ItemOf(e) = StringItem(<<w>>), Len(e) = 3
      PROVE  /\ At(m, p) = Quote
             /\ Val(m, p).end = p + 3 /\ Val(m, p).item = StringItem(<<w>>)
  <2>1. /\ At(m, p + 1 - 1) = Quote /\ At(m, p + 2 - 1) = w
        /\ At(m, p + 3 - 1) = Quote
    BY <1>2 DEF Stands
  <2>2. p + 1 - 1 = p /\ p + 2 - 1 = p + 1 /\ p + 3 - 1 = p + 2
    OBVIOUS
  <2>3. IsWord(m, p, w) /\ At(m, p) = Quote
    BY <2>1, <2>2 DEF IsWord
  <2>4. w \notin {Quote, Backslash, NUL}
    BY LettersDiffer
  <2>5. parse_string(m, p) = [end |-> p + 3, item |-> StringItem(<<w>>)]
    BY <2>3, <2>4, WordIs
  <2>6. Val(m, p) = parse_string(m, p)
    BY <1>1, <2>3, QuoteIs
  <2> QED
    BY <2>3, <2>5, <2>6
<1>3. ASSUME e = <<Quote, Quote>>
      PROVE  /\ At(m, p) = Quote
             /\ Val(m, p).end = p + 2 /\ Val(m, p).item = StringItem(<<>>)
  <2>1. At(m, p + 1 - 1) = Quote /\ At(m, p + 2 - 1) = Quote
    BY <1>3 DEF Stands
  <2>2. p + 1 - 1 = p /\ p + 2 - 1 = p + 1
    OBVIOUS
  <2>3. parse_string(m, p) = [end |-> p + 2, item |-> StringItem(<<>>)]
    BY <2>1, <2>2, EmptyIs
  <2>4. Val(m, p) = parse_string(m, p)
    BY <1>1, <2>1, <2>2, QuoteIs
  <2> QED
    BY <2>1, <2>2, <2>3, <2>4
<1>4. ASSUME e = <<Literal>>
      PROVE  /\ At(m, p) = Literal
             /\ Val(m, p).end = p + 1
             /\ Val(m, p).item = Item("literal", <<>>, <<>>, <<>>)
  <2>1. At(m, p + 1 - 1) = Literal /\ p + 1 - 1 = p
    BY <1>4 DEF Stands
  <2>2. Val(m, p) = [end |-> p + 1, item |-> New_Item("literal")]
    BY <1>1, <2>1, LiteralIs DEF Scalars
  <2> QED
    BY <2>1, <2>2, ItemFields
<1>5. CASE e = <<Quote, "a", Quote>> /\ ItemOf(e) = StringItem(<<"a">>)
           /\ Len(e) = 3
  BY <1>2, <1>5
<1>6. CASE e = <<Quote, "b", Quote>> /\ ItemOf(e) = StringItem(<<"b">>)
           /\ Len(e) = 3
  BY <1>2, <1>6
<1>7. CASE e = <<Quote, Quote>> /\ ItemOf(e) = StringItem(<<>>) /\ Len(e) = 2
  BY <1>3, <1>7
<1>8. CASE e = <<Literal>> /\ ItemOf(e) = Item("literal", <<>>, <<>>, <<>>)
           /\ Len(e) = 1
  BY <1>4, <1>8
<1>9. CASE e = <<Quote, Long, Quote>> /\ ItemOf(e) = StringItem(<<Long>>)
           /\ Len(e) = 3
  BY <1>2, <1>9
<1> QED
  BY <1>5, <1>6, <1>7, <1>8, <1>9, EntryCases

(* where each entry begins, up to the bracket at c                         *)
EntriesAt(m, entries, start, c) ==
  /\ At(m, c) = CloseArray /\ c \in 1..Len(m)
  /\ \A i \in 1..Len(entries) :
       /\ start[i] \in 1..Len(m) /\ Stands(m, start[i], entries[i])
       /\ i = Len(entries) => start[i] + Len(entries[i]) = c
       /\ i # Len(entries) =>
            /\ At(m, start[i] + Len(entries[i])) = Comma
            /\ start[i + 1] = start[i] + Len(entries[i]) + 1

Items(entries, i) ==
  [k \in 1..Len(entries) - i + 1 |-> ItemOf(entries[i + k - 1])]

(* the items of a list, the first of them in front                         *)
LEMMA ItemsStep ==
  ASSUME NEW entries, Len(entries) \in Nat, NEW i \in 1..Len(entries)
  PROVE  /\ <<ItemOf(entries[i])>> \o Items(entries, i + 1) = Items(entries, i)
         /\ i = Len(entries) => Items(entries, i) = <<ItemOf(entries[i])>>
<1>1. PICK N \in Nat : N = Len(entries)
  OBVIOUS
<1> DEFINE V == {ItemOf(entries[k]) : k \in 1..N}
<1>2. PICK s, t, u : /\ s = Items(entries, i) /\ t = Items(entries, i + 1)
                     /\ u = <<ItemOf(entries[i])>>
  OBVIOUS
<1>3. /\ s \in Seq(V) /\ Len(s) = N - i + 1
      /\ \A k \in 1..N - i + 1 : s[k] = ItemOf(entries[i + k - 1])
  <2>1. s = [k \in 1..N - i + 1 |-> ItemOf(entries[i + k - 1])]
    BY <1>1, <1>2 DEF Items
  <2>2. N - i + 1 \in Nat /\ \A k \in 1..N - i + 1 : i + k - 1 \in 1..N
    BY <1>1
  <2>3. \A k \in 1..N - i + 1 : ItemOf(entries[i + k - 1]) \in V
    BY <2>2
  <2> HIDE DEF V
  <2> QED
    BY <2>1, <2>2, <2>3
<1>4. /\ t \in Seq(V) /\ Len(t) = N - i
      /\ \A k \in 1..N - i : t[k] = ItemOf(entries[i + k])
  <2>1. t = [k \in 1..N - (i + 1) + 1 |-> ItemOf(entries[(i + 1) + k - 1])]
    BY <1>1, <1>2 DEF Items
  <2>2. N - (i + 1) + 1 = N - i /\ N - i \in Nat
        /\ \A k \in 1..N - i : (i + 1) + k - 1 = i + k /\ i + k \in 1..N
    BY <1>1
  <2>3. \A k \in 1..N - i : ItemOf(entries[i + k]) \in V
    BY <2>2
  <2>4. t = [k \in 1..N - i |-> ItemOf(entries[i + k])]
    BY <2>1, <2>2
  <2> HIDE DEF V
  <2> QED
    BY <2>2, <2>3, <2>4
<1>5. u \in Seq(V) /\ Len(u) = 1 /\ u[1] = ItemOf(entries[i])
  BY <1>1, <1>2
<1> HIDE DEF V
<1>6. /\ u \o t \in Seq(V) /\ Len(u \o t) = N - i + 1
      /\ (u \o t)[1] = u[1]
      /\ \A l \in 1..N - i : (u \o t)[1 + l] = t[l]
  <2>1. u \in Seq(V) /\ t \in Seq(V)
    BY <1>4, <1>5
  <2>2. /\ u \o t \in Seq(V) /\ Len(u \o t) = Len(u) + Len(t)
        /\ \A l \in 1..Len(u) : (u \o t)[l] = u[l]
        /\ \A l \in 1..Len(t) : (u \o t)[Len(u) + l] = t[l]
    BY <2>1, OneMore, ConcatProperties
  <2> QED
    BY <1>1, <1>4, <1>5, <2>2
<1>7. \A k \in 1..N - i + 1 : (u \o t)[k] = s[k]
  <2>1. ASSUME NEW k \in 1..N - i + 1 PROVE (u \o t)[k] = s[k]
    <3>1. CASE k = 1
      <4>1. i + 1 - 1 = i
        OBVIOUS
      <4> QED
        BY <1>3, <1>5, <1>6, <3>1, <4>1
    <3>2. CASE k # 1
      <4>1. k - 1 \in 1..N - i /\ i + (k - 1) = i + k - 1 /\ 1 + (k - 1) = k
        BY <1>1, <3>2
      <4>2. (u \o t)[1 + (k - 1)] = t[k - 1]
        BY <1>6, <4>1
      <4> QED
        BY <1>3, <1>4, <4>1, <4>2
    <3> QED
      BY <3>1, <3>2
  <2> QED
    BY <2>1
<1>8. u \o t = s
  BY <1>3, <1>6, <1>7, SeqEqual
<1>9. i = N => s = u
  <2>1. ASSUME i = N PROVE s = u
    <3>1. Len(s) = 1 /\ s[1] = u[1]
      BY <1>3, <1>5, <2>1
    <3> QED
      BY <1>3, <1>5, <3>1, SeqEqual
  <2> QED
    BY <2>1
<1> QED
  BY <1>1, <1>2, <1>8, <1>9

(* The parser takes the entries up to the bracket.                         *)
LEMMA EntriesParsed ==
  ASSUME NEW m, IsText(m), NEW entries \in Seq(Entries), entries # <<>>,
         NEW start, NEW c, EntriesAt(m, entries, start, c)
  PROVE  Lst(m, CloseArray, start[1]) =
           [end |-> c + 1, item |-> Item("list", <<>>, <<>>, Items(entries, 1))]
<1>1. PICK N \in Nat \ {0} : N = Len(entries)
  OBVIOUS
<1> DEFINE Right(i) ==
             Lst(m, CloseArray, start[i]) =
               [end |-> c + 1,
                item |-> Item("list", <<>>, <<>>, Items(entries, i))]
           T == {n \in Nat : n < N => Right(N - n)}
<1>2. c \in 1..Len(m) /\ c \in Nat \ {0} /\ Len(m) \in Nat /\ CloseArray \in Closes
      /\ At(m, c) = CloseArray
  BY LenIs DEF EntriesAt, Closes
<1>3. ASSUME NEW i \in 1..N
      PROVE  /\ start[i] \in 1..Len(m) /\ At(m, start[i]) # Blank
             /\ Len(entries[i]) \in Nat
             /\ One(m, CloseArray, start[i]).end = start[i] + Len(entries[i])
             /\ One(m, CloseArray, start[i]).item = ItemOf(entries[i])
  <2>1. entries[i] \in Entries
    BY <1>1, ElementOfSeq
  <2>2. start[i] \in 1..Len(m) /\ Stands(m, start[i], entries[i])
    BY <1>1 DEF EntriesAt
  <2>3. /\ At(m, start[i]) \in {Quote, Literal}
        /\ Val(m, start[i]).end = start[i] + Len(entries[i])
        /\ Val(m, start[i]).item = ItemOf(entries[i])
    BY <2>1, <2>2, EntryParsed
  <2>4. Len(entries[i]) \in Nat
    BY <2>1, EntryCases
  <2> QED
    BY <2>2, <2>3, <2>4, OneIs, SymbolsDiffer DEF Scalars
<1>4. 0 \in T
  <2>1. N \in 1..N /\ N - 0 = N
    BY <1>1
  <2>2. start[N] + Len(entries[N]) = c
    BY <1>1, <2>1 DEF EntriesAt
  <2>3. Lst(m, CloseArray, start[N]) =
          [end |-> c + 1,
           item |-> Item("list", <<>>, <<>>, <<ItemOf(entries[N])>>)]
    BY <1>2, <1>3, <2>1, <2>2, LastMember
  <2>4. Items(entries, N) = <<ItemOf(entries[N])>>
    BY <1>1, <2>1, ItemsStep
  <2> QED
    BY <2>1, <2>3, <2>4
<1>5. ASSUME NEW n \in Nat, n \in T PROVE n + 1 \in T
  <2>1. SUFFICES ASSUME n + 1 < N PROVE Right(N - (n + 1))
    OBVIOUS
  <2>2. PICK i \in 1..N : i = N - (n + 1) /\ i + 1 = N - n /\ i # N /\ n < N
    <3>1. /\ N - (n + 1) \in 1..N /\ (N - (n + 1)) + 1 = N - n
          /\ N - (n + 1) # N /\ n < N
      BY <1>1, <2>1
    <3> QED
      BY <3>1
  <2>3. Right(i + 1)
    <3> HIDE DEF Right
    <3> QED
      BY <1>5, <2>2
  <2>4. PICK e : e = start[i] + Len(entries[i])
    OBVIOUS
  <2>5. e \in Nat \ {0} /\ At(m, e) = Comma /\ start[i + 1] = e + 1
    <3>1. start[i] \in 1..Len(m) /\ Len(entries[i]) \in Nat
      BY <1>3
    <3>2. /\ At(m, start[i] + Len(entries[i])) = Comma
          /\ start[i + 1] = start[i] + Len(entries[i]) + 1
      BY <1>1, <2>2 DEF EntriesAt
    <3> QED
      BY <1>2, <2>4, <3>1, <3>2
  <2>6. PICK next : next = Items(entries, i + 1)
    OBVIOUS
  <2>7. Lst(m, CloseArray, e + 1) =
          [end |-> c + 1, item |-> Item("list", <<>>, <<>>, next)]
    BY <2>3, <2>5, <2>6
  <2>8. Lst(m, CloseArray, start[i]) =
          [end |-> c + 1,
           item |-> Item("list", <<>>, <<>>, <<ItemOf(entries[i])>> \o next)]
    <3>1. /\ start[i] \in 1..Len(m) /\ At(m, start[i]) # Blank
          /\ One(m, CloseArray, start[i]).end = e
          /\ One(m, CloseArray, start[i]).item = ItemOf(entries[i])
      BY <1>3, <2>4
    <3> QED
      BY <1>2, <2>5, <2>7, <3>1, MoreMembers
  <2>9. <<ItemOf(entries[i])>> \o next = Items(entries, i)
    BY <1>1, <2>6, ItemsStep
  <2>10. Right(i)
    BY <2>8, <2>9
  <2> HIDE DEF Right
  <2> QED
    BY <2>2, <2>10
<1>6. Nat \subseteq T
  <2> HIDE DEF T
  <2> QED
    BY <1>4, <1>5, SetInduction
<1>7. Right(1)
  <2>1. N - 1 \in Nat /\ N - 1 < N /\ N - (N - 1) = 1
    BY <1>1
  <2>2. N - 1 \in T
    BY <1>6, <2>1
  <2> HIDE DEF Right
  <2> QED
    BY <2>1, <2>2
<1> QED
  BY <1>7

(* the file up to its list, and from the bracket that closes it            *)
HeadAt(m) ==
  /\ At(m, 1) = OpenObject /\ IsWord(m, 2, "filter") /\ At(m, 5) = Colon
  /\ At(m, 6) = OpenObject /\ IsWord(m, 7, "SUBTYPE") /\ At(m, 10) = Colon
  /\ At(m, 11) = OpenArray

RestAt(m, c) ==
  /\ At(m, c + 2) = Comma /\ IsWord(m, c + 3, "mac") /\ At(m, c + 6) = Colon
  /\ At(m, c + 7) = OpenArray /\ IsWord(m, c + 8, "b")
  /\ At(m, c + 11) = CloseArray /\ At(m, c + 12) = CloseObject

HeadAndList(m, entries, start, c) ==
  /\ HeadAt(m) /\ EntriesAt(m, entries, start, c) /\ At(m, c + 1) = CloseObject
  /\ c > 11
  /\ entries = <<>> => c = 12
  /\ entries # <<>> => start[1] = 12

SubtypeItem(entries) == Item("array", <<"SUBTYPE">>, <<>>, Items(entries, 1))
FilterItem(entries) ==
  Item("object", <<"filter">>, <<>>, <<SubtypeItem(entries)>>)
MacItem == Item("array", <<"mac">>, <<>>, <<StringItem(<<"b">>)>>)

(* None of the words in a file ends a string.                              *)
LEMMA NoWord == /\ "filter" \notin {Quote, Backslash, NUL}
                /\ "SUBTYPE" \notin {Quote, Backslash, NUL}
                /\ "mac" \notin {Quote, Backslash, NUL}
                /\ "b" \notin {Quote, Backslash, NUL}
BY LettersDiffer

(* what opens and closes an array and an object                            *)
LEMMA BracketsAre ==
  /\ CloseArray \in Closes /\ CloseObject \in Closes
  /\ Opens(CloseArray) = OpenArray /\ Opens(CloseObject) = OpenObject
  /\ TypeOf(CloseArray) = "array" /\ TypeOf(CloseObject) = "object"
BY SymbolsDiffer DEF Closes, Opens, TypeOf

(* the list                                                                *)
LEMMA ListParsed ==
  ASSUME NEW m, IsText(m), NEW entries \in Seq(Entries), NEW start, NEW c,
         HeadAndList(m, entries, start, c)
  PROVE  /\ Val(m, 11).end = c + 1
         /\ Val(m, 11).item = Item("array", <<>>, <<>>, Items(entries, 1))
<1>1. /\ c \in 1..Len(m) /\ Len(m) \in Nat /\ c > 11 /\ At(m, c) = CloseArray
      /\ At(m, 11) = OpenArray
  BY LenIs DEF HeadAndList, HeadAt, EntriesAt
<1>2. 11 \in 1..Len(m) /\ 11 + 1 = 12
  BY <1>1
<1>3. CASE entries = <<>>
  <2>1. c = 12
    BY <1>3 DEF HeadAndList
  <2>2. skip(m, 12) = 12
    <3>1. CloseArray # Blank
      BY SymbolsDiffer
    <3>2. 12 \in Nat \ {0} /\ At(m, 12) = CloseArray
      BY <1>1, <2>1
    <3>3. At(m, 12) # Blank
      BY <3>1, <3>2
    <3> QED
      BY <3>2, <3>3, SkipIs
  <2>3. BracketSays(m, 11, CloseArray, 12)
    BY <1>1, <1>2, <2>2, BracketIs, BracketsAre
  <2>4. Val(m, 11) = [end |-> 12 + 1, item |-> New_Item("array")]
    BY <1>1, <2>1, <2>3, BracketsAre DEF BracketSays
  <2>5. Items(<<>>, 1) = <<>>
    BY DEF Items
  <2>6. New_Item("array") = Item("array", <<>>, <<>>, <<>>)
    BY ItemFields
  <2> QED
    BY <1>3, <2>1, <2>4, <2>5, <2>6
<1>4. CASE entries # <<>>
  <2>1. EntriesAt(m, entries, start, c) /\ start[1] = 12
    BY <1>4 DEF HeadAndList
  <2>2. Lst(m, CloseArray, 12) =
          [end |-> c + 1, item |-> Item("list", <<>>, <<>>, Items(entries, 1))]
    BY <1>4, <2>1, EntriesParsed
  <2>3. At(m, 12) \notin {Blank, CloseArray}
    <3>1. 1 \in 1..Len(entries) /\ entries[1] \in Entries
      BY <1>4
    <3>2. 12 \in 1..Len(m) /\ Stands(m, 12, entries[1])
      BY <2>1, <3>1 DEF EntriesAt
    <3>3. At(m, 12) \in {Quote, Literal}
      BY <3>1, <3>2, EntryParsed
    <3> QED
      BY <3>3, SymbolsDiffer DEF Scalars
  <2>4. At(m, 11 + 1) \notin {Blank, CloseArray} /\ At(m, 11) = Opens(CloseArray)
    BY <1>1, <1>2, <2>3, BracketsAre
  <2>5. Lst(m, CloseArray, 11 + 1) =
          [end |-> c + 1, item |-> Item("list", <<>>, <<>>, Items(entries, 1))]
    BY <1>2, <2>2
  <2>6. c + 1 \in Nat \ {0}
    BY <1>1
  <2> QED
    BY <1>2, <2>4, <2>5, <2>6, BracketOpens, BracketsAre
<1> QED
  BY <1>3, <1>4

(* "filter": {"SUBTYPE": the list}                                         *)
LEMMA FilterParsed ==
  ASSUME NEW m, IsText(m), NEW entries \in Seq(Entries), NEW start, NEW c,
         HeadAndList(m, entries, start, c)
  PROVE  /\ PairAt(m, 2).end = c + 2
         /\ PairAt(m, 2).item = FilterItem(entries)
<1>1. /\ c \in 1..Len(m) /\ c \in Nat /\ Len(m) \in Nat /\ c > 11
      /\ At(m, 6) = OpenObject /\ IsWord(m, 2, "filter") /\ At(m, 5) = Colon
      /\ IsWord(m, 7, "SUBTYPE") /\ At(m, 10) = Colon /\ At(m, 11) = OpenArray
      /\ At(m, c + 1) = CloseObject
  BY LenIs DEF HeadAndList, HeadAt, EntriesAt
<1>2. /\ 2 \in 1..Len(m) /\ 6 \in 1..Len(m) /\ 7 \in 1..Len(m)
      /\ 2 + 3 = 5 /\ 2 + 4 = 6 /\ 6 + 1 = 7 /\ 7 + 3 = 10 /\ 7 + 4 = 11
  BY <1>1
<1>3. PICK items : items = Items(entries, 1)
  OBVIOUS
<1>4. /\ PairAt(m, 7).end = c + 1
      /\ PairAt(m, 7).item = SubtypeItem(entries)
  <2>1. /\ Val(m, 11).end = c + 1
        /\ Val(m, 11).item = Item("array", <<>>, <<>>, items)
    BY <1>3, ListParsed
  <2>2. At(m, 11) # Blank
    BY <1>1, SymbolsDiffer
  <2>3. PairAt(m, 7).item = Item("array", <<"SUBTYPE">>, <<>>, items)
        /\ PairAt(m, 7).end = c + 1
    BY <1>1, <1>2, <2>1, <2>2, NamedIs, NoWord
  <2> QED
    BY <1>3, <2>3 DEF SubtypeItem
<1>5. Lst(m, CloseObject, 7) =
        [end |-> c + 2,
         item |-> Item("list", <<>>, <<>>, <<SubtypeItem(entries)>>)]
  <2>1. /\ One(m, CloseObject, 7).end = c + 1
        /\ One(m, CloseObject, 7).item = SubtypeItem(entries)
    BY <1>4, OneIs
  <2>2. At(m, 7) # Blank /\ c + 1 \in Nat \ {0} /\ (c + 1) + 1 = c + 2
    BY <1>1, SymbolsDiffer DEF IsWord
  <2> QED
    BY <1>1, <1>2, <2>1, <2>2, LastMember, BracketsAre
<1>6. /\ Val(m, 6).end = c + 2
      /\ Val(m, 6).item = Item("object", <<>>, <<>>, <<SubtypeItem(entries)>>)
  <2>1. PICK child : child = <<SubtypeItem(entries)>>
    OBVIOUS
  <2>2. Lst(m, CloseObject, 6 + 1) =
          [end |-> c + 2, item |-> Item("list", <<>>, <<>>, child)]
    BY <1>2, <1>5, <2>1
  <2>3. At(m, 6) = Opens(CloseObject) /\ At(m, 6 + 1) \notin {Blank, CloseObject}
    BY <1>1, <1>2, BracketsAre, SymbolsDiffer DEF IsWord
  <2>4. /\ Val(m, 6).end = c + 2
        /\ Val(m, 6).item = Item(TypeOf(CloseObject), <<>>, <<>>, child)
    <3>1. c + 2 \in Nat \ {0}
      BY <1>1
    <3> QED
      BY <1>2, <2>2, <2>3, <3>1, BracketOpens, BracketsAre
  <2> QED
    BY <2>1, <2>4, BracketsAre
<1>7. At(m, 6) # Blank
  BY <1>1, SymbolsDiffer
<1>8. /\ PairAt(m, 2).end = c + 2
      /\ PairAt(m, 2).item =
           Item("object", <<"filter">>, <<>>, <<SubtypeItem(entries)>>)
  <2>1. PICK child : child = <<SubtypeItem(entries)>>
    OBVIOUS
  <2>2. At(m, 2 + 3) = Colon /\ At(m, 2 + 4) # Blank /\ Val(m, 2 + 4).end = c + 2
        /\ Val(m, 2 + 4).item = Item("object", <<>>, <<>>, child)
    BY <1>1, <1>2, <1>6, <1>7, <2>1
  <2>3. /\ PairAt(m, 2).end = c + 2
        /\ PairAt(m, 2).item = Item("object", <<"filter">>, <<>>, child)
    BY <1>1, <1>2, <2>2, NamedIs, NoWord
  <2> QED
    BY <2>1, <2>3
<1> QED
  BY <1>8 DEF FilterItem

(* the list "mac"                                                          *)
LEMMA MacParsed ==
  ASSUME NEW m, IsText(m), NEW c \in Nat \ {0}, RestAt(m, c)
  PROVE  Lst(m, CloseObject, c + 3) =
           [end |-> c + 13, item |-> Item("list", <<>>, <<>>, <<MacItem>>)]
<1>1. /\ Len(m) \in Nat /\ c + 12 \in Nat \ {0} /\ At(m, c + 12) # NUL
      /\ IsWord(m, c + 3, "mac") /\ At(m, c + 6) = Colon
      /\ At(m, c + 7) = OpenArray /\ IsWord(m, c + 8, "b")
      /\ At(m, c + 11) = CloseArray /\ At(m, c + 12) = CloseObject
  <2>1. /\ IsWord(m, c + 3, "mac") /\ At(m, c + 6) = Colon
        /\ At(m, c + 7) = OpenArray /\ IsWord(m, c + 8, "b")
        /\ At(m, c + 11) = CloseArray /\ At(m, c + 12) = CloseObject
    BY DEF RestAt
  <2>2. Len(m) \in Nat /\ c + 12 \in Nat \ {0}
    BY LenIs
  <2>3. CloseObject # NUL
    BY SymbolsDiffer
  <2> QED
    BY <2>1, <2>2, <2>3
<1>2. c + 12 \in 1..Len(m)
  BY <1>1, InText
<1>3. PICK p, q, r : p = c + 3 /\ q = c + 7 /\ r = c + 8
  OBVIOUS
<1>4. /\ p \in 1..Len(m) /\ q \in 1..Len(m) /\ r \in 1..Len(m)
      /\ p + 3 = c + 6 /\ p + 4 = q /\ q + 1 = r /\ r + 3 = c + 11
      /\ c + 11 \in Nat \ {0} /\ c + 12 \in Nat \ {0}
      /\ (c + 11) + 1 = c + 12 /\ (c + 12) + 1 = c + 13
      /\ r \in 1..Len(m) + 4
  BY <1>1, <1>2, <1>3
<1>5. At(m, r) = Quote /\ At(m, p) = Quote
  BY <1>1, <1>3 DEF IsWord
<1>6. PICK string : string = StringItem(<<"b">>)
  OBVIOUS
<1>7. Val(m, r).end = c + 11 /\ Val(m, r).item = string
  <2>1. parse_string(m, r) = [end |-> r + 3, item |-> StringItem(<<"b">>)]
    BY <1>1, <1>3, <1>4, WordIs, NoWord
  <2>2. Val(m, r) = parse_string(m, r)
    BY <1>4, <1>5, QuoteIs
  <2> QED
    BY <1>4, <1>6, <2>1, <2>2
<1>8. Lst(m, CloseArray, r) =
        [end |-> c + 12, item |-> Item("list", <<>>, <<>>, <<string>>)]
  <2>1. One(m, CloseArray, r).end = c + 11 /\ One(m, CloseArray, r).item = string
    BY <1>7, OneIs
  <2>2. At(m, r) # Blank
    BY <1>5, SymbolsDiffer
  <2> QED
    BY <1>1, <1>4, <2>1, <2>2, LastMember, BracketsAre
<1>9. PICK child : child = <<string>>
  OBVIOUS
<1>10. Val(m, q).end = c + 12 /\ Val(m, q).item = Item("array", <<>>, <<>>, child)
  <2>1. Lst(m, CloseArray, q + 1) =
          [end |-> c + 12, item |-> Item("list", <<>>, <<>>, child)]
    BY <1>4, <1>8, <1>9
  <2>2. At(m, q) = Opens(CloseArray) /\ At(m, q + 1) \notin {Blank, CloseArray}
    BY <1>1, <1>3, <1>4, <1>5, BracketsAre, SymbolsDiffer
  <2>3. /\ Val(m, q).end = c + 12
        /\ Val(m, q).item = Item(TypeOf(CloseArray), <<>>, <<>>, child)
    BY <1>4, <2>1, <2>2, BracketOpens, BracketsAre
  <2> QED
    BY <2>3, BracketsAre
<1>11. PairAt(m, p).end = c + 12 /\ PairAt(m, p).item = MacItem
  <2>1. At(m, p + 3) = Colon /\ At(m, p + 4) # Blank /\ IsWord(m, p, "mac")
    BY <1>1, <1>3, <1>4, SymbolsDiffer
  <2>2. /\ PairAt(m, p).end = c + 12
        /\ PairAt(m, p).item = Item("array", <<"mac">>, <<>>, child)
    BY <1>4, <1>10, <2>1, NamedIs, NoWord
  <2> QED
    BY <1>6, <1>9, <2>2 DEF MacItem
<1>12. Lst(m, CloseObject, p) =
         [end |-> c + 13, item |-> Item("list", <<>>, <<>>, <<MacItem>>)]
  <2>1. /\ One(m, CloseObject, p).end = c + 12
        /\ One(m, CloseObject, p).item = MacItem
    BY <1>11, OneIs
  <2>2. At(m, p) # Blank
    BY <1>5, SymbolsDiffer
  <2> QED
    BY <1>1, <1>4, <2>1, <2>2, LastMember, BracketsAre
<1> QED
  BY <1>3, <1>12

(* two elements put together                                               *)
LEMMA PairsAre ==
  ASSUME NEW x, NEW y
  PROVE  <<x>> \o <<y>> = <<x, y>>
<1>1. <<x>> \in Seq({x, y}) /\ <<y>> \in Seq({x, y})
  OBVIOUS
<1>2. PICK both : both = <<x>> \o <<y>>
  OBVIOUS
<1>3. both \in Seq({x, y}) /\ Len(both) = 2 /\ both[1] = x /\ both[2] = y
  BY <1>1, <1>2
<1>4. both = <<x, y>>
  BY <1>3
<1> QED
  BY <1>2, <1>4

(* the whole file, whatever stands behind it                               *)
LEMMA FileParsed ==
  ASSUME NEW m, IsText(m), NEW entries \in Seq(Entries), NEW start, NEW c,
         HeadAndList(m, entries, start, c), RestAt(m, c)
  PROVE  /\ cJSON_Parse(m).end # 0 /\ cJSON_Parse(m).item.type # "overrun"
         /\ cJSON_Parse(m).item =
              Item("object", <<>>, <<>>, <<FilterItem(entries), MacItem>>)
<1>1. /\ c \in 1..Len(m) /\ c \in Nat \ {0} /\ Len(m) \in Nat /\ c > 11
      /\ At(m, 1) = OpenObject /\ At(m, 2) = Quote /\ At(m, c + 2) = Comma
  BY LenIs DEF HeadAndList, HeadAt, EntriesAt, RestAt, IsWord
<1>2. /\ 1 \in 1..Len(m) /\ 2 \in 1..Len(m) /\ 1 + 1 = 2
      /\ c + 2 \in Nat \ {0} /\ (c + 2) + 1 = c + 3 /\ c + 13 \in Nat \ {0}
  BY <1>1
<1>3. /\ At(m, 2) # Blank /\ At(m, 1) # Blank /\ At(m, 2) # CloseObject
  BY <1>1, SymbolsDiffer
<1>4. PICK filter_item, more :
        filter_item = FilterItem(entries) /\ more = <<MacItem>>
  OBVIOUS
<1>5. Lst(m, CloseObject, (c + 2) + 1) =
        [end |-> c + 13, item |-> Item("list", <<>>, <<>>, more)]
  BY <1>1, <1>2, <1>4, MacParsed
<1>6. /\ One(m, CloseObject, 2).end = c + 2
      /\ One(m, CloseObject, 2).item = filter_item
  BY <1>4, FilterParsed, OneIs
<1>7. PICK child : child = <<filter_item>> \o more
  OBVIOUS
<1>8. Lst(m, CloseObject, 1 + 1) =
        [end |-> c + 13, item |-> Item("list", <<>>, <<>>, child)]
  <2>1. Lst(m, CloseObject, 2) =
          [end |-> c + 13,
           item |-> Item("list", <<>>, <<>>, <<filter_item>> \o more)]
    BY <1>1, <1>2, <1>3, <1>5, <1>6, MoreMembers, BracketsAre
  <2> QED
    BY <1>2, <1>7, <2>1
<1>9. Val(m, 1).end = c + 13 /\ Val(m, 1).item = Item("object", <<>>, <<>>, child)
  <2>1. At(m, 1) = Opens(CloseObject) /\ At(m, 1 + 1) \notin {Blank, CloseObject}
    BY <1>1, <1>2, <1>3, BracketsAre
  <2>2. /\ Val(m, 1).end = c + 13
        /\ Val(m, 1).item = Item(TypeOf(CloseObject), <<>>, <<>>, child)
    BY <1>2, <1>8, <2>1, BracketOpens, BracketsAre
  <2> QED
    BY <2>2, BracketsAre
<1>10. cJSON_Parse(m) = Val(m, 1)
  <2>1. skip(m, 1) = 1
    BY <1>3, SkipIs
  <2> QED
    BY <2>1 DEF cJSON_Parse, Val
<1>11. child = <<FilterItem(entries), MacItem>>
  <2>1. PICK mac_item : mac_item = MacItem
    OBVIOUS
  <2>2. child = <<filter_item>> \o <<mac_item>>
    BY <1>4, <1>7, <2>1
  <2>3. <<filter_item>> \o <<mac_item>> = <<filter_item, mac_item>>
    BY PairsAre
  <2> QED
    BY <1>4, <2>1, <2>2, <2>3
<1>12. cJSON_Parse(m).item.type # "overrun"
  BY ParsedIff
<1> QED
  BY <1>2, <1>9, <1>10, <1>11, <1>12

(* The names that initConfig looks for, in lower case.                     *)
LEMMA NamesLowered ==
  /\ tolower(<<"filter">>) = <<"filter">> /\ tolower(<<"mac">>) = <<"mac">>
  /\ tolower(<<"SUBTYPE">>) = <<"subtype">>
  /\ <<"filter">> # <<"mac">>
<1>1. ASSUME NEW w
      PROVE  tolower(<<w>>) = <<IF w = "SUBTYPE" THEN "subtype" ELSE w>>
  BY DEF tolower
<1>2. "filter" # "SUBTYPE" /\ "mac" # "SUBTYPE" /\ "filter" # "mac"
  OBVIOUS
<1>3. PICK f, g : f = <<"filter">> /\ g = <<"mac">>
  OBVIOUS
<1>4. f[1] = "filter" /\ g[1] = "mac"
  BY <1>3
<1>5. f # g
  BY <1>2, <1>4
<1> QED
  BY <1>1, <1>2, <1>3, <1>5, Zenon

(* the only item of that name                                              *)
LEMMA ObjectItemIs ==
  ASSUME NEW object, NEW string, NEW i \in Nat, i \in DOMAIN object.child,
         tolower(object.child[i].string) = string,
         \A j \in DOMAIN object.child :
           j # i => tolower(object.child[j].string) # string
  PROVE  cJSON_GetObjectItem(object, string) = object.child[i]
<1> DEFINE hits == {j \in DOMAIN object.child :
                      tolower(object.child[j].string) = string}
<1>1. hits = {i}
  OBVIOUS
<1>2. Least({i}) = i
  BY LeastIs
<1>3. cJSON_GetObjectItem(object, string) =
        IF hits = {} THEN NoItem ELSE object.child[Least(hits)]
  BY Zenon DEF cJSON_GetObjectItem
<1>4. hits # {} /\ Least(hits) = i
  BY <1>1, <1>2
<1> QED
  BY <1>3, <1>4, Zenon

(* the list of the file: which of its items have a string                  *)
LEMMA ItemReads ==
  ASSUME NEW entries \in Seq(Entries)
  PROVE  /\ Reads(SubtypeItem(entries)) <=>
              ~\E i \in DOMAIN entries : entries[i] = <<Literal>>
         /\ Reads(MacItem)
         /\ DOMAIN SubtypeItem(entries).child = 1..Len(entries)
         /\ \A i \in 1..Len(entries) :
              SubtypeItem(entries).child[i] = ItemOf(entries[i])
<1>1. PICK N \in Nat : N = Len(entries)
  OBVIOUS
<1>2. DOMAIN entries = 1..N /\ \A i \in 1..N : entries[i] \in Entries
  BY <1>1, ElementOfSeq
<1>3. SubtypeItem(entries).child = Items(entries, 1)
  BY ItemFields DEF SubtypeItem
<1>4. /\ DOMAIN Items(entries, 1) = 1..N
      /\ \A i \in 1..N : Items(entries, 1)[i] = ItemOf(entries[i])
  <2>1. Items(entries, 1) = [k \in 1..N - 1 + 1 |-> ItemOf(entries[1 + k - 1])]
    BY <1>1 DEF Items
  <2>2. N - 1 + 1 = N /\ \A k \in 1..N : 1 + k - 1 = k
    BY <1>1
  <2> QED
    BY <2>1, <2>2
<1>5. \A i \in 1..N :
        ItemOf(entries[i]).type = "string" <=> entries[i] # <<Literal>>
  <2>1. "literal" # "string"
    OBVIOUS
  <2> QED
    BY <2>1, ItemFields DEF ItemOf, StringItem
<1>6. Reads(SubtypeItem(entries)) <=> \A i \in 1..N : entries[i] # <<Literal>>
  BY <1>3, <1>4, <1>5 DEF Reads
<1>7. Reads(MacItem)
  <2>1. MacItem.child = <<StringItem(<<"b">>)>>
    BY ItemFields DEF MacItem
  <2>2. StringItem(<<"b">>).type = "string"
    BY ItemFields DEF StringItem
  <2> QED
    BY <2>1, <2>2 DEF Reads
<1> QED
  BY <1>1, <1>2, <1>3, <1>4, <1>6, <1>7

(* initConfig on a whole file: loaded, unless an entry is no string        *)
LEMMA FileLoaded ==
  ASSUME NEW m, IsText(m), NEW entries \in Seq(Entries), NEW start, NEW c,
         HeadAndList(m, entries, start, c), RestAt(m, c)
  PROVE  initConfig(m) =
           IF \E i \in DOMAIN entries : entries[i] = <<Literal>>
           THEN [outcome |-> "null pointer"]
           ELSE [outcome |-> "loaded",
                 filter_subtype |-> StringList(SubtypeItem(entries)),
                 mac |-> StringList(MacItem)]
<1>1. PICK json : json = cJSON_Parse(m)
  OBVIOUS
<1>2. PICK f, g : f = FilterItem(entries) /\ g = MacItem
  OBVIOUS
<1>3. PICK child : child = <<f, g>>
  OBVIOUS
<1>4. /\ json.end # 0 /\ json.item.type # "overrun"
      /\ json.item = Item("object", <<>>, <<>>, child)
  BY <1>1, <1>2, <1>3, FileParsed
<1>5. json.item.child = child
  BY <1>4, ItemFields
<1>6. DOMAIN child = 1..2 /\ child[1] = f /\ child[2] = g
  BY <1>3
<1>7. f.string = <<"filter">> /\ g.string = <<"mac">>
  BY <1>2, ItemFields DEF FilterItem, MacItem
<1>8. cJSON_GetObjectItem(json.item, <<"filter">>) = f
  <2>1. /\ 1 \in Nat /\ 1 \in DOMAIN json.item.child
        /\ tolower(json.item.child[1].string) = <<"filter">>
    BY <1>5, <1>6, <1>7, NamesLowered
  <2>2. \A j \in DOMAIN json.item.child :
          j # 1 => tolower(json.item.child[j].string) # <<"filter">>
    BY <1>5, <1>6, <1>7, NamesLowered, SMTT(60)
  <2>3. cJSON_GetObjectItem(json.item, <<"filter">>) = json.item.child[1]
    BY <2>1, <2>2, ObjectItemIs
  <2> QED
    BY <1>5, <1>6, <2>3
<1>9. cJSON_GetObjectItem(json.item, <<"mac">>) = g
  <2>1. /\ 2 \in Nat /\ 2 \in DOMAIN json.item.child
        /\ tolower(json.item.child[2].string) = <<"mac">>
    BY <1>5, <1>6, <1>7, NamesLowered
  <2>2. \A j \in DOMAIN json.item.child :
          j # 2 => tolower(json.item.child[j].string) # <<"mac">>
    BY <1>5, <1>6, <1>7, NamesLowered
  <2>3. cJSON_GetObjectItem(json.item, <<"mac">>) = json.item.child[2]
    BY <2>1, <2>2, ObjectItemIs
  <2> QED
    BY <1>5, <1>6, <2>3
<1>10. cJSON_GetObjectItem(f, <<"subtype">>) = SubtypeItem(entries)
  <2>1. PICK s : s = SubtypeItem(entries)
    OBVIOUS
  <2>2. f.child = <<s>>
    BY <1>2, <2>1, ItemFields DEF FilterItem
  <2>3. s.string = <<"SUBTYPE">>
    BY <2>1, ItemFields DEF SubtypeItem
  <2>4. /\ 1 \in Nat /\ 1 \in DOMAIN f.child /\ f.child[1] = s
        /\ tolower(f.child[1].string) = <<"subtype">>
        /\ \A j \in DOMAIN f.child : j # 1 =>
             tolower(f.child[j].string) # <<"subtype">>
    BY <2>2, <2>3, NamesLowered
  <2>5. cJSON_GetObjectItem(f, <<"subtype">>) = f.child[1]
    BY <2>4, ObjectItemIs
  <2> QED
    BY <2>1, <2>4, <2>5
<1>11. Load(json) = IF ~(Reads(SubtypeItem(entries)) /\ Reads(MacItem))
                    THEN [outcome |-> "null pointer"]
                    ELSE [outcome |-> "loaded",
                          filter_subtype |-> StringList(SubtypeItem(entries)),
                          mac |-> StringList(MacItem)]
  BY <1>2, <1>4, <1>8, <1>9, <1>10, Zenon DEF Load
<1> QED
  BY <1>1, <1>11, ItemReads, Zenon DEF initConfig

(* A file that is cut short: in front of the first bracket that closes an  *)
(* object, or behind it.                                                   *)
LEMMA NoBracketNoObject ==
  ASSUME NEW m, IsText(m), At(m, 1) \in {NUL, OpenObject},
         \A i \in 1..Len(m) : At(m, i) # CloseObject
  PROVE  cJSON_Parse(m).end = 0
<1>1. At(m, 1) # Blank /\ Len(m) \in Nat /\ 1 \in 1..Len(m) + 4
  <2>1. Blank # NUL /\ Blank # OpenObject
    BY SymbolsDiffer
  <2>2. At(m, 1) # Blank
    BY <2>1
  <2>3. Len(m) \in Nat
    BY LenIs
  <2> QED
    BY <2>2, <2>3
<1>2. cJSON_Parse(m) = Val(m, 1)
  <2>1. skip(m, 1) = 1
    BY <1>1, SkipIs
  <2> QED
    BY <2>1 DEF cJSON_Parse, Val
<1>3. CASE At(m, 1) = NUL
  <2>1. Val(m, 1) = Failed
    BY <1>1, <1>3, OtherIs, SymbolsDiffer
  <2> QED
    BY <1>2, <2>1, FailedEnd
<1>4. CASE At(m, 1) = OpenObject
  <2>1. 1 \in 1..Len(m)
    <3>1. OpenObject # NUL
      BY SymbolsDiffer
    <3>2. 1 \in Nat \ {0} /\ At(m, 1) # NUL
      BY <1>4, <3>1
    <3> QED
      BY <3>2, InText
  <2>2. PICK q : q = skip(m, 1 + 1)
    OBVIOUS
  <2>3. BracketSays(m, 1, CloseObject, q)
    BY <1>4, <2>1, <2>2, BracketIs, BracketsAre
  <2>4. q \in 1..Len(m) + 1
    BY <1>1, <2>3 DEF BracketSays
  <2>5. At(m, q) # CloseObject
    <3>1. q \in Nat \ {0} /\ (q \in 1..Len(m) \/ q > Len(m))
      BY <1>1, <2>4
    <3> QED
      BY <3>1, AtIs, SymbolsDiffer
  <2>6. Val(m, 1).end = Lst(m, CloseObject, q).end
    BY <2>3, <2>5 DEF BracketSays
  <2>7. SoundList(m, CloseObject, q)
    BY <1>1, <2>4, Sound, BracketsAre
  <2>8. Lst(m, CloseObject, q).end = 0
    <3>1. PICK e : e = Lst(m, CloseObject, q).end
      OBVIOUS
    <3>2. e # 0 => e \in q + 2..Len(m) + 1 /\ At(m, e - 1) = CloseObject
      BY <2>7, <3>1 DEF SoundList
    <3>3. e # 0 => e - 1 \in 1..Len(m)
      BY <1>1, <2>4, <3>2
    <3> QED
      BY <3>1, <3>2, <3>3
  <2> QED
    BY <1>2, <2>6, <2>8
<1> QED
  BY <1>3, <1>4

(* Cut behind the first bracket, the outer object stays open.              *)
LEMMA NoLastBracketNoObject ==
  ASSUME NEW m, IsText(m), NEW entries \in Seq(Entries), NEW start, NEW c,
         HeadAndList(m, entries, start, c), At(m, c + 2) \in {NUL, Comma},
         \A i \in c + 2..Len(m) : At(m, i) # CloseObject
  PROVE  cJSON_Parse(m).end = 0
<1>1. /\ c \in 1..Len(m) /\ c \in Nat \ {0} /\ Len(m) \in Nat /\ c > 11
      /\ At(m, 1) = OpenObject /\ At(m, 2) = Quote
  BY LenIs DEF HeadAndList, HeadAt, EntriesAt, IsWord
<1>2. /\ 1 \in 1..Len(m) /\ 2 \in 1..Len(m) + 4 /\ 1 + 1 = 2 /\ c + 2 \in Nat \ {0}
      /\ c + 2 # 0
  BY <1>1
<1>3. At(m, 2) # Blank /\ At(m, 1) # Blank /\ At(m, 2) # CloseObject
      /\ At(m, c + 2) # Blank /\ At(m, c + 2) # CloseObject
  BY <1>1, SymbolsDiffer
<1>4. skip(m, 1) = 1 /\ skip(m, 2) = 2 /\ skip(m, c + 2) = c + 2
  BY <1>2, <1>3, SkipIs
<1>5. cJSON_Parse(m) = Val(m, 1)
  BY <1>4 DEF cJSON_Parse, Val
<1>6. Val(m, 1).end = Lst(m, CloseObject, 2).end
  <2>1. BracketSays(m, 1, CloseObject, 2)
    BY <1>1, <1>2, <1>4, BracketIs, BracketsAre
  <2> QED
    BY <1>3, <2>1 DEF BracketSays
<1>7. PICK first, rest : /\ first = One(m, CloseObject, 2)
                         /\ rest = Lst(m, CloseObject, (c + 2) + 1)
  OBVIOUS
<1>8. first.end = c + 2
  BY <1>7, FilterParsed, OneIs
<1>9. ListSays(m, CloseObject, 2, first, c + 2, rest)
  BY <1>2, <1>4, <1>7, <1>8, ListIs, BracketsAre
<1>10. CASE At(m, c + 2) = NUL
  <2>1. At(m, c + 2) \notin {CloseObject, Comma}
    BY <1>10, SymbolsDiffer
  <2>2. Lst(m, CloseObject, 2) = Failed
    BY <1>2, <1>8, <1>9, <2>1 DEF ListSays
  <2> QED
    BY <1>5, <1>6, <2>2, FailedEnd
<1>11. CASE At(m, c + 2) = Comma
  <2>1. Lst(m, CloseObject, 2).end = rest.end
    BY <1>2, <1>3, <1>8, <1>9, <1>11 DEF ListSays
  <2>2. c + 2 \in 1..Len(m)
    BY <1>2, <1>11, InText, SymbolsDiffer
  <2>3. PICK q : q = (c + 2) + 1
    OBVIOUS
  <2>4. q \in 1..Len(m) + 4 /\ q = c + 3
    BY <1>1, <2>2, <2>3
  <2>5. SoundList(m, CloseObject, q)
    BY <2>4, Sound, BracketsAre
  <2>6. PICK e : e = rest.end
    OBVIOUS
  <2>7. e # 0 => e \in q + 2..Len(m) + 1 /\ At(m, e - 1) = CloseObject
    BY <1>7, <2>3, <2>5, <2>6 DEF SoundList
  <2>8. e # 0 => e - 1 \in c + 2..Len(m)
    BY <1>1, <2>4, <2>7
  <2>9. e = 0
    BY <2>7, <2>8
  <2> QED
    BY <1>5, <1>6, <2>1, <2>6, <2>9
<1> QED
  BY <1>10, <1>11

(* Where everything in a file is.                                          *)
Letters == {Quote, Backslash, Literal, OpenArray, CloseArray, OpenObject,
            CloseObject, Comma, Colon, "a", "b", Long, "filter", "SUBTYPE", "mac"}
Listed == {Quote, "a", "b", Long, Literal, Comma}

(* the letters of a file, and those of its entries                         *)
LEMMA LettersAre ==
  /\ NUL \notin Letters /\ Unicode \notin Letters
  /\ CloseObject \notin Listed /\ Listed \subseteq Letters
  /\ {Quote, Literal, OpenArray, CloseArray, OpenObject, CloseObject, Comma,
      Colon, "a", "b", "filter", "SUBTYPE", "mac"} \subseteq Letters
<1>1. {"a", "b", Long, "filter", "SUBTYPE", "mac"}
        \cap {NUL, Unicode, CloseObject} = {}
  BY LettersDiffer
<1>2. Literal \in Scalars
  BY DEF Scalars
<1>3. CloseObject \notin {Quote, Literal, Comma}
  BY <1>2, SymbolsDiffer
<1>4. NUL \notin {Quote, Backslash, Literal, OpenArray, CloseArray, OpenObject,
                 CloseObject, Comma, Colon}
  BY <1>2, SymbolsDiffer
<1>5. Unicode \notin {Quote, Backslash, Literal, OpenArray, CloseArray,
                     OpenObject, CloseObject, Comma, Colon}
  BY DEF Unicode, Quote, Backslash, Literal, OpenArray, CloseArray,
         OpenObject, CloseObject, Comma, Colon
<1> QED
  BY <1>1, <1>3, <1>4, <1>5 DEF Letters, Listed

Join(S, s, t, u) ==
  /\ u \in Seq(S) /\ Len(s) \in Nat /\ Len(u) = Len(s) + Len(t)
  /\ \A i \in 1..Len(s) : u[i] = s[i]
  /\ \A k \in 1..Len(t) : u[Len(s) + k] = t[k]

(* one sequence behind another: where the elements are                     *)
LEMMA Joined ==
  ASSUME NEW S, NEW s \in Seq(S), NEW t \in Seq(S)
  PROVE  Join(S, s, t, s \o t)
<1>1. Len(s) \in Nat /\ s \o t \in Seq(S)
  BY ConcatProperties
<1> QED
  BY <1>1, OneMore DEF Join

(* one more symbol, two, or three, or a name                               *)
JoinOne(S, s, x, u) ==
  /\ u \in Seq(S) /\ Len(s) \in Nat /\ Len(u) = Len(s) + 1
  /\ \A i \in 1..Len(s) : u[i] = s[i]
  /\ u[Len(s) + 1] = x

JoinTwo(S, s, x, y, u) ==
  /\ u \in Seq(S) /\ Len(s) \in Nat /\ Len(u) = Len(s) + 2
  /\ \A i \in 1..Len(s) : u[i] = s[i]
  /\ u[Len(s) + 1] = x /\ u[Len(s) + 2] = y

JoinThree(S, s, x, y, z, u) ==
  /\ u \in Seq(S) /\ Len(s) \in Nat /\ Len(u) = Len(s) + 3
  /\ \A i \in 1..Len(s) : u[i] = s[i]
  /\ u[Len(s) + 1] = x /\ u[Len(s) + 2] = y /\ u[Len(s) + 3] = z

JoinName(S, s, w, u) ==
  /\ u \in Seq(S) /\ Len(s) \in Nat /\ Len(u) = Len(s) + 4
  /\ \A i \in 1..Len(s) : u[i] = s[i]
  /\ u[Len(s) + 1] = Quote /\ u[Len(s) + 2] = w
  /\ u[Len(s) + 3] = Quote /\ u[Len(s) + 4] = Colon

(* The same for one element more.                                          *)
LEMMA OneJoined ==
  ASSUME NEW S, NEW s \in Seq(S), NEW x \in S
  PROVE  JoinOne(S, s, x, s \o <<x>>)
<1>1. PICK t, u : t = <<x>> /\ u = s \o t
  OBVIOUS
<1>2. t \in Seq(S) /\ Len(t) = 1 /\ t[1] = x
  BY <1>1
<1>3. Join(S, s, t, u)
  BY <1>1, <1>2, Joined
<1>4. JoinOne(S, s, x, u)
  BY <1>2, <1>3 DEF Join, JoinOne
<1> QED
  BY <1>1, <1>4

(* The same for two.                                                       *)
LEMMA TwoJoined ==
  ASSUME NEW S, NEW s \in Seq(S), NEW x \in S, NEW y \in S
  PROVE  JoinTwo(S, s, x, y, s \o <<x, y>>)
<1>1. PICK t, u : t = <<x, y>> /\ u = s \o t
  OBVIOUS
<1>2. t \in Seq(S) /\ Len(t) = 2 /\ t[1] = x /\ t[2] = y
  BY <1>1
<1>3. Join(S, s, t, u)
  BY <1>1, <1>2, Joined
<1>4. JoinTwo(S, s, x, y, u)
  BY <1>2, <1>3 DEF Join, JoinTwo
<1> QED
  BY <1>1, <1>4

(* The same for three.                                                     *)
LEMMA ThreeJoined ==
  ASSUME NEW S, NEW s \in Seq(S), NEW x \in S, NEW y \in S, NEW z \in S
  PROVE  JoinThree(S, s, x, y, z, s \o <<x, y, z>>)
<1>1. PICK t, u : t = <<x, y, z>> /\ u = s \o t
  OBVIOUS
<1>2. t \in Seq(S) /\ Len(t) = 3 /\ t[1] = x /\ t[2] = y /\ t[3] = z
  BY <1>1
<1>3. Join(S, s, t, u)
  BY <1>1, <1>2, Joined
<1>4. JoinThree(S, s, x, y, z, u)
  BY <1>2, <1>3 DEF Join, JoinThree
<1> QED
  BY <1>1, <1>4

(* The same for a name, which is four symbols.                             *)
LEMMA NameJoined ==
  ASSUME NEW S, NEW s \in Seq(S), NEW w \in S, Quote \in S, Colon \in S
  PROVE  JoinName(S, s, w, s \o Name(<<w>>))
<1>1. PICK a : a = <<Quote, w, Quote>>
  OBVIOUS
<1>2. a \in Seq(S) /\ Len(a) = 3 /\ a[1] = Quote /\ a[2] = w /\ a[3] = Quote
  BY <1>1
<1>3. PICK t : t = a \o <<Colon>>
  OBVIOUS
<1>4. JoinOne(S, a, Colon, t)
  BY <1>2, <1>3, OneJoined
<1>5. /\ t \in Seq(S) /\ Len(t) = 4
      /\ t[1] = Quote /\ t[2] = w /\ t[3] = Quote /\ t[4] = Colon
  BY <1>2, <1>4 DEF JoinOne
<1>6. t = Name(<<w>>)
  BY <1>1, <1>3, StringsAre, Zenon DEF Name
<1>7. PICK u : u = s \o t
  OBVIOUS
<1>8. Join(S, s, t, u)
  BY <1>5, <1>7, Joined
<1>9. JoinName(S, s, w, u)
  BY <1>5, <1>8 DEF Join, JoinName
<1> QED
  BY <1>6, <1>7, <1>9

(* the eleven symbols before the list                                      *)
FileHead == <<OpenObject>> \o Name(<<"filter">>) \o <<OpenObject>>
            \o Name(<<"SUBTYPE">>) \o <<OpenArray>>

HeadIs(s) ==
  /\ s[1] = OpenObject
  /\ s[2] = Quote /\ s[3] = "filter" /\ s[4] = Quote /\ s[5] = Colon
  /\ s[6] = OpenObject
  /\ s[7] = Quote /\ s[8] = "SUBTYPE" /\ s[9] = Quote /\ s[10] = Colon
  /\ s[11] = OpenArray

(* The head of a file, symbol by symbol.                                   *)
LEMMA FileHeadIs ==
  FileHead \in Seq(Letters) /\ Len(FileHead) = 11 /\ HeadIs(FileHead)
<1>1. /\ Quote \in Letters /\ Colon \in Letters /\ OpenObject \in Letters
      /\ OpenArray \in Letters /\ "filter" \in Letters /\ "SUBTYPE" \in Letters
  BY LettersAre
<1>2. PICK a : a = <<OpenObject>>
  OBVIOUS
<1>3. a \in Seq(Letters) /\ Len(a) = 1 /\ a[1] = OpenObject
  BY <1>1, <1>2
<1>4. PICK b : b = a \o Name(<<"filter">>)
  OBVIOUS
<1>5. JoinName(Letters, a, "filter", b)
  BY <1>1, <1>3, <1>4, NameJoined
<1>6. PICK c : c = b \o <<OpenObject>>
  OBVIOUS
<1>7. JoinOne(Letters, b, OpenObject, c)
  <2>1. b \in Seq(Letters)
    BY <1>5 DEF JoinName
  <2> QED
    BY <1>1, <1>6, <2>1, OneJoined
<1>8. PICK d : d = c \o Name(<<"SUBTYPE">>)
  OBVIOUS
<1>9. JoinName(Letters, c, "SUBTYPE", d)
  <2>1. c \in Seq(Letters)
    BY <1>7 DEF JoinOne
  <2> QED
    BY <1>1, <1>8, <2>1, NameJoined
<1>10. PICK e : e = d \o <<OpenArray>>
  OBVIOUS
<1>11. JoinOne(Letters, d, OpenArray, e)
  <2>1. d \in Seq(Letters)
    BY <1>9 DEF JoinName
  <2> QED
    BY <1>1, <1>10, <2>1, OneJoined
<1>12. /\ Len(b) = 5 /\ b[1] = OpenObject
       /\ b[2] = Quote /\ b[3] = "filter" /\ b[4] = Quote /\ b[5] = Colon
  BY <1>3, <1>5 DEF JoinName
<1>13. Len(c) = 6 /\ c[6] = OpenObject /\ \A i \in 1..5 : c[i] = b[i]
  BY <1>7, <1>12 DEF JoinOne
<1>14. /\ Len(d) = 10 /\ \A i \in 1..6 : d[i] = c[i]
       /\ d[7] = Quote /\ d[8] = "SUBTYPE" /\ d[9] = Quote /\ d[10] = Colon
  BY <1>9, <1>13 DEF JoinName
<1>15. /\ e \in Seq(Letters) /\ Len(e) = 11 /\ e[11] = OpenArray
       /\ \A i \in 1..10 : e[i] = d[i]
  BY <1>11, <1>14 DEF JoinOne
<1>16. HeadIs(e)
  <2>1. \A i \in 1..6 : e[i] = c[i]
    BY <1>14, <1>15
  <2>2. \A i \in 1..5 : e[i] = b[i]
    BY <1>13, <2>1
  <2> QED
    BY <1>12, <1>13, <1>14, <1>15, <2>1, <2>2 DEF HeadIs
<1>17. e = FileHead
  BY <1>2, <1>4, <1>6, <1>8, <1>10, Zenon DEF FileHead
<1> QED
  BY <1>15, <1>16, <1>17

(* what stands behind the list                                             *)
TailIs(s, n) ==
  /\ s[n + 1] = CloseArray /\ s[n + 2] = CloseObject /\ s[n + 3] = Comma
  /\ s[n + 4] = Quote /\ s[n + 5] = "mac" /\ s[n + 6] = Quote
  /\ s[n + 7] = Colon /\ s[n + 8] = OpenArray
  /\ s[n + 9] = Quote /\ s[n + 10] = "b" /\ s[n + 11] = Quote
  /\ s[n + 12] = CloseArray /\ s[n + 13] = CloseObject

Ended(s, n, u) ==
  /\ u \in Seq(Letters) /\ n \in Nat /\ Len(u) = n + 13
  /\ \A i \in 1..n : u[i] = s[i]
  /\ TailIs(u, n)

(* What stands behind the list, symbol by symbol.                          *)
LEMMA FileTailIs ==
  ASSUME NEW s \in Seq(Letters), NEW n, n = Len(s), NEW u,
         u = s \o <<CloseArray, CloseObject, Comma>>
             \o Name(<<"mac">>) \o <<OpenArray>> \o String(<<"b">>)
             \o <<CloseArray, CloseObject>>
  PROVE  Ended(s, n, u)
<1>1. /\ Quote \in Letters /\ Colon \in Letters /\ CloseObject \in Letters
      /\ OpenArray \in Letters /\ CloseArray \in Letters /\ Comma \in Letters
      /\ "mac" \in Letters /\ "b" \in Letters
  BY LettersAre
<1>2. PICK a : a = s \o <<CloseArray, CloseObject, Comma>>
  OBVIOUS
<1>3. JoinThree(Letters, s, CloseArray, CloseObject, Comma, a)
  <2>1. JoinThree(Letters, s, CloseArray, CloseObject, Comma,
                  s \o <<CloseArray, CloseObject, Comma>>)
    BY <1>1, ThreeJoined
  <2> QED
    BY <1>2, <2>1, Zenon
<1>4. PICK b : b = a \o Name(<<"mac">>)
  OBVIOUS
<1>5. JoinName(Letters, a, "mac", b)
  <2>1. a \in Seq(Letters)
    BY <1>3 DEF JoinThree
  <2> QED
    BY <1>1, <1>4, <2>1, NameJoined
<1>6. PICK c : c = b \o <<OpenArray>>
  OBVIOUS
<1>7. JoinOne(Letters, b, OpenArray, c)
  <2>1. b \in Seq(Letters)
    BY <1>5 DEF JoinName
  <2> QED
    BY <1>1, <1>6, <2>1, OneJoined
<1>8. PICK d : d = c \o <<Quote, "b", Quote>>
  OBVIOUS
<1>9. JoinThree(Letters, c, Quote, "b", Quote, d)
  <2>1. c \in Seq(Letters)
    BY <1>7 DEF JoinOne
  <2>2. JoinThree(Letters, c, Quote, "b", Quote, c \o <<Quote, "b", Quote>>)
    BY <1>1, <2>1, ThreeJoined
  <2> QED
    BY <1>8, <2>2, Zenon
<1>10. JoinTwo(Letters, d, CloseArray, CloseObject, u)
  <2>1. d \in Seq(Letters)
    BY <1>9 DEF JoinThree
  <2>2. JoinTwo(Letters, d, CloseArray, CloseObject,
                d \o <<CloseArray, CloseObject>>)
    BY <1>1, <2>1, TwoJoined
  <2>3. String(<<"b">>) = <<Quote, "b", Quote>>
    BY StringsAre
  <2>4. u = d \o <<CloseArray, CloseObject>>
    BY <1>2, <1>4, <1>6, <1>8, <2>3, Zenon
  <2> QED
    BY <2>2, <2>4, Zenon
<1>11. /\ n \in Nat /\ Len(a) = n + 3 /\ \A i \in 1..n : a[i] = s[i]
       /\ a[n + 1] = CloseArray /\ a[n + 2] = CloseObject /\ a[n + 3] = Comma
  BY <1>3 DEF JoinThree
<1>12. /\ Len(b) = n + 7 /\ \A i \in 1..n + 3 : b[i] = a[i]
       /\ b[n + 4] = Quote /\ b[n + 5] = "mac" /\ b[n + 6] = Quote
       /\ b[n + 7] = Colon
  <2>1. /\ n + 3 + 1 = n + 4 /\ n + 3 + 2 = n + 5 /\ n + 3 + 3 = n + 6
        /\ n + 3 + 4 = n + 7
    BY <1>11
  <2> QED
    BY <1>5, <1>11, <2>1, Zenon DEF JoinName
<1>13. Len(c) = n + 8 /\ c[n + 8] = OpenArray /\ \A i \in 1..n + 7 : c[i] = b[i]
  <2>1. n + 7 + 1 = n + 8
    BY <1>11
  <2> QED
    BY <1>7, <1>12, <2>1, Zenon DEF JoinOne
<1>14. /\ Len(d) = n + 11 /\ \A i \in 1..n + 8 : d[i] = c[i]
       /\ d[n + 9] = Quote /\ d[n + 10] = "b" /\ d[n + 11] = Quote
  <2>1. n + 8 + 1 = n + 9 /\ n + 8 + 2 = n + 10 /\ n + 8 + 3 = n + 11
    BY <1>11
  <2> QED
    BY <1>9, <1>13, <2>1, Zenon DEF JoinThree
<1>15. /\ u \in Seq(Letters) /\ Len(u) = n + 13
       /\ \A i \in 1..n + 11 : u[i] = d[i]
       /\ u[n + 12] = CloseArray /\ u[n + 13] = CloseObject
  <2>1. n + 11 + 1 = n + 12 /\ n + 11 + 2 = n + 13
    BY <1>11
  <2> QED
    BY <1>10, <1>14, <2>1, Zenon DEF JoinTwo
<1>16. \A i \in 1..n + 8 : u[i] = c[i]
  <2>1. 1..n + 8 \subseteq 1..n + 11
    BY <1>11
  <2> QED
    BY <1>14, <1>15, <2>1, Zenon
<1>17. \A i \in 1..n + 7 : u[i] = b[i]
  <2>1. 1..n + 7 \subseteq 1..n + 8
    BY <1>11
  <2> QED
    BY <1>13, <1>16, <2>1, Zenon
<1>18. \A i \in 1..n + 3 : u[i] = a[i]
  <2>1. 1..n + 3 \subseteq 1..n + 7
    BY <1>11
  <2> QED
    BY <1>12, <1>17, <2>1, Zenon
<1>19. \A i \in 1..n : u[i] = s[i]
  <2>1. 1..n \subseteq 1..n + 3
    BY <1>11
  <2> QED
    BY <1>11, <1>18, <2>1, Zenon
<1>20. TailIs(u, n)
  <2>1. /\ n + 1 \in 1..n + 3 /\ n + 2 \in 1..n + 3 /\ n + 3 \in 1..n + 3
        /\ n + 4 \in 1..n + 7 /\ n + 5 \in 1..n + 7 /\ n + 6 \in 1..n + 7
        /\ n + 7 \in 1..n + 7 /\ n + 8 \in 1..n + 8
        /\ n + 9 \in 1..n + 11 /\ n + 10 \in 1..n + 11 /\ n + 11 \in 1..n + 11
    BY <1>11
  <2>2. /\ u[n + 1] = CloseArray /\ u[n + 2] = CloseObject /\ u[n + 3] = Comma
    BY <1>11, <1>18, <2>1, Zenon
  <2>3. /\ u[n + 4] = Quote /\ u[n + 5] = "mac" /\ u[n + 6] = Quote
        /\ u[n + 7] = Colon
    BY <1>12, <1>17, <2>1, Zenon
  <2>4. u[n + 8] = OpenArray
    BY <1>13, <1>16, <2>1, Zenon
  <2>5. u[n + 9] = Quote /\ u[n + 10] = "b" /\ u[n + 11] = Quote
    BY <1>14, <1>15, <2>1, Zenon
  <2> QED
    BY <1>15, <2>2, <2>3, <2>4, <2>5, Zenon DEF TailIs
<1> QED
  BY <1>11, <1>15, <1>19, <1>20 DEF Ended

(* The entries and the commas between them; the i-th begins behind the     *)
(* at[i] symbols of the parts before it, and its comma.                    *)
Spans(entries) ==
  [i \in DOMAIN entries |-> (IF i = 1 THEN <<>> ELSE <<Comma>>) \o entries[i]]

(* An entry is made of a few letters, and none is a bracket.               *)
LEMMA EntryIs ==
  ASSUME NEW e \in Entries
  PROVE  e \in Seq(Listed) /\ Len(e) \in Nat
<1>1. /\ Quote \in Listed /\ "a" \in Listed /\ "b" \in Listed
      /\ Long \in Listed /\ Literal \in Listed
  BY DEF Listed
<1>2. /\ <<Quote, "a", Quote>> \in Seq(Listed)
      /\ <<Quote, "b", Quote>> \in Seq(Listed)
      /\ <<Quote, Long, Quote>> \in Seq(Listed)
      /\ <<Quote, Quote>> \in Seq(Listed) /\ <<Literal>> \in Seq(Listed)
  BY <1>1
<1>3. e \in Seq(Listed)
  BY <1>2, EntryCases
<1> QED
  BY <1>3

(* a part: the entry, with a comma in front unless it is the first         *)
LEMMA PartsAre ==
  ASSUME NEW entries \in Seq(Entries), NEW i \in 1..Len(entries)
  PROVE  LET part == Spans(entries)[i]
             e == entries[i]
         IN /\ part \in Seq(Listed) /\ Len(e) \in Nat
            /\ i = 1 => part = e
            /\ i # 1 => /\ Len(part) = Len(e) + 1 /\ part[1] = Comma
                        /\ \A k \in 1..Len(e) : part[k + 1] = e[k]
<1>1. DOMAIN entries = 1..Len(entries) /\ entries[i] \in Entries
  OBVIOUS
<1>2. PICK e \in Seq(Listed) : e = entries[i] /\ Len(e) \in Nat
  BY <1>1, EntryIs
<1>3. Spans(entries)[i] = (IF i = 1 THEN <<>> ELSE <<Comma>>) \o e
  BY <1>1, <1>2 DEF Spans
<1>4. CASE i = 1
  <2>1. <<>> \o e = e
    BY <1>2
  <2> QED
    BY <1>2, <1>3, <1>4, <2>1
<1>5. CASE i # 1
  <2>1. PICK t : t = <<Comma>>
    OBVIOUS
  <2>2. t \in Seq(Listed) /\ Len(t) = 1 /\ t[1] = Comma
    BY <2>1 DEF Listed
  <2>3. PICK part : part = t \o e
    OBVIOUS
  <2>4. Join(Listed, t, e, part)
    BY <1>2, <2>2, <2>3, Joined
  <2>5. part = Spans(entries)[i]
    BY <1>3, <1>5, <2>1, <2>3
  <2>6. part[1] = Comma /\ Len(part) = Len(e) + 1
        /\ \A k \in 1..Len(e) : part[k + 1] = e[k]
    BY <1>2, <2>2, <2>4 DEF Join
  <2>7. part \in Seq(Listed)
    BY <2>4 DEF Join
  <2> QED
    BY <1>2, <1>5, <2>5, <2>6, <2>7
<1> QED
  BY <1>4, <1>5

(* a file, where its entries begin and the bracket behind them             *)
Laid(file, entries, start, c) ==
  /\ file \in Seq(Letters) /\ c \in Nat /\ c > 11 /\ Len(file) = c + 12
  /\ HeadIs(file) /\ TailIs(file, c - 1)
  /\ entries = <<>> => c = 12
  /\ entries # <<>> => start[1] = 12
  /\ \A i \in 12..c - 1 : file[i] # CloseObject
  /\ \A i \in 1..Len(entries) :
       /\ start[i] \in Nat /\ start[i] > 11 /\ start[i] + Len(entries[i]) <= c
       /\ \A k \in 1..Len(entries[i]) : file[start[i] + k - 1] = entries[i][k]
       /\ i = Len(entries) => start[i] + Len(entries[i]) = c
       /\ i # Len(entries) =>
            /\ file[start[i] + Len(entries[i])] = Comma
            /\ start[i + 1] = start[i] + Len(entries[i]) + 1

(* Every file is laid out like this.                                       *)
LEMMA FileLaid ==
  ASSUME NEW entries \in Seq(Entries)
  PROVE  \E start, c : Laid(File(entries), entries, start, c)
<1>1. PICK N \in Nat : N = Len(entries) /\ DOMAIN entries = 1..N
  OBVIOUS
<1>2. PICK parts : parts = Spans(entries)
  OBVIOUS
<1>3. ASSUME NEW i \in 1..N
      PROVE  /\ parts[i] \in Seq(Listed) /\ Len(entries[i]) \in Nat
             /\ i = 1 => parts[i] = entries[i]
             /\ i # 1 => /\ Len(parts[i]) = Len(entries[i]) + 1
                         /\ parts[i][1] = Comma
                         /\ \A k \in 1..Len(entries[i]) :
                              parts[i][k + 1] = entries[i][k]
  BY <1>1, <1>2, PartsAre
<1>4. parts \in Seq(Seq(Listed)) /\ Len(parts) = N
  <2>1. parts = [i \in 1..N |-> parts[i]]
    BY <1>1, <1>2 DEF Spans
  <2> QED
    BY <1>3, <2>1, SMTT(60)
<1>5. PICK list, at : /\ list = FlattenSeq(parts) /\ list \in Seq(Listed)
                      /\ Parted(parts, list, at)
  BY <1>4, Pieces
<1>6. PICK L \in Nat : L = Len(list)
  BY <1>5
<1>7. PICK head : head = FileHead
  OBVIOUS
<1>8. head \in Seq(Letters) /\ Len(head) = 11 /\ HeadIs(head)
  BY <1>7, FileHeadIs
<1>9. PICK front : front = head \o list
  OBVIOUS
<1>10. list \in Seq(Letters)
  <2>1. Listed \subseteq Letters
    BY LettersAre
  <2>2. \A i \in 1..L : list[i] \in Letters
    BY <1>5, <1>6, <2>1, ElementOfSeq
  <2>3. list = [i \in 1..L |-> list[i]]
    BY <1>5, <1>6
  <2> QED
    BY <2>2, <2>3
<1>11. /\ front \in Seq(Letters) /\ Len(front) = 11 + L
       /\ \A i \in 1..11 : front[i] = head[i]
       /\ \A k \in 1..L : front[11 + k] = list[k]
  <2>1. Join(Letters, head, list, front)
    BY <1>8, <1>9, <1>10, Joined
  <2> QED
    BY <1>6, <1>8, <2>1, Zenon DEF Join
<1>12. PICK n \in Nat : n = 11 + L
  OBVIOUS
<1>13. PICK file : file = File(entries)
  OBVIOUS
<1>14. /\ file \in Seq(Letters) /\ Len(file) = n + 13
       /\ \A i \in 1..n : file[i] = front[i]
       /\ TailIs(file, n)
  <2>1. file = front \o <<CloseArray, CloseObject, Comma>>
               \o Name(<<"mac">>) \o <<OpenArray>> \o String(<<"b">>)
               \o <<CloseArray, CloseObject>>
    BY <1>2, <1>5, <1>7, <1>9, <1>13, Zenon DEF File, FileHead, Spans
  <2>2. n = Len(front)
    BY <1>11, <1>12
  <2> QED
    <3>1. Ended(front, n, file)
      BY <1>11, <2>1, <2>2, FileTailIs
    <3> QED
      BY <3>1 DEF Ended
<1>15. PICK c \in Nat : c = n + 1
  OBVIOUS
<1>16. /\ \A i \in 1..11 : file[i] = head[i]
       /\ \A k \in 1..L : 11 + k \in 12..n /\ file[11 + k] = list[k]
  <2>1. \A i \in 1..11 : i \in 1..n
    BY <1>12
  <2>2. \A k \in 1..L : 11 + k \in 1..n /\ 11 + k \in 12..n
    BY <1>12
  <2> QED
    BY <1>11, <1>14, <2>1, <2>2
<1>17. HeadIs(file)
  BY <1>8, <1>16 DEF HeadIs
<1>18. \A i \in 12..c - 1 : file[i] # CloseObject
  <2>1. ASSUME NEW i \in 12..c - 1 PROVE file[i] # CloseObject
    <3>1. i - 11 \in 1..L /\ 11 + (i - 11) = i
      BY <1>12, <1>15
    <3>2. file[i] = list[i - 11]
      BY <1>16, <3>1
    <3>3. list[i - 11] \in Listed
      BY <1>5, <1>6, <3>1, ElementOfSeq
    <3> QED
      BY <3>2, <3>3, LettersAre
  <2> QED
    BY <2>1
<1>19. /\ at[1] = 0 /\ at[N + 1] = L
       /\ \A i \in 1..N :
            /\ at[i] \in Nat /\ at[i + 1] = at[i] + Len(parts[i])
            /\ at[i + 1] \in Nat /\ at[i + 1] <= L
            /\ \A k \in 1..Len(parts[i]) : list[at[i] + k] = parts[i][k]
  <2>1. Begins(parts, at)
    BY <1>5 DEF Parted
  <2>2. /\ at \in [1..N + 1 -> Nat]
        /\ \A i \in 1..N : i \in 1..N + 1 /\ i + 1 \in 1..N + 1
    BY <1>4, <2>1 DEF Begins
  <2> QED
    BY <1>4, <1>5, <1>6, <2>1, <2>2 DEF Parted, Begins
<1> DEFINE start == [i \in 1..N |-> IF i = 1 THEN 12 ELSE 13 + at[i]]
<1>20. ASSUME NEW i \in 1..N
       PROVE  /\ start[i] \in Nat /\ start[i] > 11
              /\ start[i] + Len(entries[i]) = at[i + 1] + 12
              /\ \A k \in 1..Len(entries[i]) :
                   file[start[i] + k - 1] = entries[i][k]
              /\ i # 1 => file[start[i] - 1] = Comma
  <2>1. PICK e : e = entries[i]
    OBVIOUS
  <2>2. PICK l \in Nat : e = entries[i] /\ l = Len(e)
    BY <1>3, <2>1
  <2>3. PICK part : part = parts[i]
    OBVIOUS
  <2>4. PICK a \in Nat, b \in Nat : a = at[i] /\ b = at[i + 1]
    BY <1>19
  <2>5. /\ b = a + Len(part) /\ b <= L
        /\ \A k \in 1..Len(part) : list[a + k] = part[k]
    BY <1>19, <2>3, <2>4
  <2>6. CASE i = 1
    <3>1. part = e /\ a = 0 /\ start[i] = 12
      BY <1>3, <1>19, <2>2, <2>3, <2>4, <2>6
    <3>2. \A k \in 1..l : 12 + k - 1 = 11 + k /\ 0 + k = k /\ k \in 1..L
      BY <2>2, <2>5, <3>1
    <3>3. \A k \in 1..l : list[k] = e[k]
      BY <2>2, <2>5, <3>1, <3>2
    <3>4. \A k \in 1..l : file[12 + k - 1] = e[k]
      BY <1>16, <3>2, <3>3
    <3>5. 12 + l = b + 12
      BY <2>2, <2>5, <3>1
    <3> QED
      BY <2>2, <2>3, <2>4, <2>6, <3>1, <3>4, <3>5
  <2>7. CASE i # 1
    <3>1. /\ start[i] = 13 + a /\ Len(part) = l + 1 /\ part[1] = Comma
          /\ \A k \in 1..l : part[k + 1] = e[k]
      BY <1>3, <2>2, <2>3, <2>4, <2>7
    <3>2. \A k \in 1..l : /\ (13 + a) + k - 1 = 11 + (a + (k + 1))
                          /\ a + (k + 1) \in 1..L /\ k + 1 \in 1..Len(part)
      BY <2>2, <2>5, <3>1
    <3>3. \A k \in 1..l : file[(13 + a) + k - 1] = e[k]
      BY <1>16, <2>5, <3>1, <3>2, ZenonT(60)
    <3>4. (13 + a) - 1 = 11 + (a + 1) /\ a + 1 \in 1..L /\ 1 \in 1..Len(part)
      BY <2>2, <2>5, <3>1
    <3>5. file[(13 + a) - 1] = Comma
      BY <1>16, <2>5, <3>1, <3>4
    <3>6. (13 + a) + l = b + 12 /\ 13 + a > 11 /\ 13 + a \in Nat
      <4>1. b = a + (l + 1)
        BY <2>5, <3>1
      <4> QED
        BY <4>1
    <3>7. PICK s : s = start[i] /\ s = 13 + a
      BY <3>1
    <3>8. /\ s \in Nat /\ s > 11 /\ s + l = b + 12 /\ file[s - 1] = Comma
          /\ \A k \in 1..l : file[s + k - 1] = e[k]
      BY <3>3, <3>5, <3>6, <3>7
    <3> HIDE DEF start
    <3> QED
      BY <2>2, <2>4, <3>7, <3>8
  <2> QED
    BY <2>6, <2>7
<1>21. ASSUME NEW i \in 1..N, i # N
       PROVE  start[i + 1] = at[i + 1] + 13 /\ start[i + 1] - 1 = at[i + 1] + 12
              /\ file[at[i + 1] + 12] = Comma
  <2>1. i + 1 \in 1..N /\ i + 1 # 1
    BY <1>1, <1>21
  <2>2. start[i + 1] = 13 + at[i + 1] /\ at[i + 1] \in Nat
    BY <1>19, <2>1
  <2>3. file[start[i + 1] - 1] = Comma
    BY <1>20, <2>1
  <2> HIDE DEF start
  <2>4. start[i + 1] - 1 = at[i + 1] + 12 /\ start[i + 1] = at[i + 1] + 13
    BY <2>2
  <2> QED
    BY <2>3, <2>4
<1>22. entries # <<>> => start[1] = 12
  <2>1. entries # <<>> => 1 \in 1..N
    BY <1>1
  <2> QED
    BY <2>1
<1>23. entries = <<>> => c = 12
  <2>1. entries = <<>> => N = 0
    BY <1>1
  <2>2. N = 0 => L = 0
    BY <1>19
  <2> QED
    BY <1>12, <1>15, <2>1, <2>2
<1> HIDE DEF start
<1>24. ASSUME NEW i \in 1..N
       PROVE  /\ start[i] \in Nat /\ start[i] > 11
              /\ start[i] + Len(entries[i]) <= c
              /\ \A k \in 1..Len(entries[i]) :
                   file[start[i] + k - 1] = entries[i][k]
              /\ i = N => start[i] + Len(entries[i]) = c
              /\ i # N => /\ file[start[i] + Len(entries[i])] = Comma
                          /\ start[i + 1] = start[i] + Len(entries[i]) + 1
  <2>1. PICK e \in Nat : e = start[i] + Len(entries[i]) /\ e = at[i + 1] + 12
    <3>1. start[i] \in Nat /\ Len(entries[i]) \in Nat
      BY <1>3, <1>20
    <3>2. start[i] + Len(entries[i]) \in Nat
      BY <3>1
    <3> QED
      BY <1>20, <3>2
  <2>2. e <= c
    <3>1. at[i + 1] <= L /\ at[i + 1] \in Nat
      BY <1>3, <1>19
    <3> QED
      BY <1>12, <1>15, <2>1, <3>1
  <2>3. i = N => e = c
    BY <1>12, <1>15, <1>19, <2>1
  <2>4. i # N => file[e] = Comma /\ start[i + 1] = e + 1
    <3>1. ASSUME i # N PROVE file[e] = Comma /\ start[i + 1] = e + 1
      <4>1. start[i + 1] = at[i + 1] + 13 /\ file[at[i + 1] + 12] = Comma
        BY <1>21, <3>1
      <4>2. at[i + 1] \in Nat
        BY <1>1, <1>19, <3>1
      <4> QED
        BY <2>1, <4>1, <4>2
    <3> QED
      BY <3>1
  <2> QED
    BY <1>20, <2>1, <2>2, <2>3, <2>4
<1>25. c > 11 /\ Len(file) = c + 12 /\ TailIs(file, c - 1)
  <2>1. c > 11 /\ n + 13 = c + 12 /\ c - 1 = n
    BY <1>12, <1>15
  <2> QED
    BY <1>14, <2>1
<1>26. Laid(file, entries, start, c)
  BY <1>1, <1>14, <1>17, <1>18, <1>22, <1>23, <1>24, <1>25, Zenon DEF Laid
<1> QED
  BY <1>13, <1>26, Zenon

(* A text that begins like a file, up to the second bracket behind the     *)
(* list or to its end.                                                     *)
LEMMA FileSeen ==
  ASSUME NEW file, NEW entries, Len(entries) \in Nat,
         \A i \in 1..Len(entries) : Len(entries[i]) \in Nat \ {0},
         NEW start, NEW c, Laid(file, entries, start, c),
         NEW m, IsText(m), NEW k \in c + 1..c + 12, k <= Len(m),
         \A i \in 1..k : m[i] = file[i]
  PROVE  /\ HeadAndList(m, entries, start, c)
         /\ k = c + 12 => RestAt(m, c)
<1>1. /\ c \in Nat /\ c > 11 /\ Len(file) = c + 12 /\ Len(m) \in Nat
  BY LenIs DEF Laid
<1>2. \A i \in 1..k : At(m, i) = file[i]
  BY <1>1 DEF At
<1>3. \A i \in 1..c + 1 : At(m, i) = file[i]
  BY <1>1, <1>2
<1>4. c \in 1..Len(m)
  BY <1>1
<1>5. HeadAt(m)
  <2>1. /\ 2 + 1 = 3 /\ 2 + 2 = 4 /\ 7 + 1 = 8 /\ 7 + 2 = 9
    OBVIOUS
  <2>2. \A i \in 1..11 : At(m, i) = file[i]
    BY <1>1, <1>3
  <2>3. HeadIs(file)
    BY DEF Laid
  <2> QED
    BY <2>1, <2>2, <2>3, SMTT(60) DEF HeadAt, HeadIs, IsWord
<1>6. PICK n \in Nat : n = c - 1 /\ n + 1 = c /\ TailIs(file, n)
  <2>1. c - 1 \in Nat /\ (c - 1) + 1 = c
    BY <1>1
  <2> QED
    BY <2>1 DEF Laid
<1>7. At(m, c) = CloseArray /\ At(m, c + 1) = CloseObject
  <2>1. n + 2 = c + 1 /\ c \in 1..c + 1 /\ c + 1 \in 1..c + 1
    BY <1>1, <1>6
  <2>2. file[c] = CloseArray /\ file[c + 1] = CloseObject
    BY <1>6, <2>1 DEF TailIs
  <2> QED
    BY <1>3, <2>1, <2>2
<1>8. EntriesAt(m, entries, start, c)
  <2>1. ASSUME NEW i \in 1..Len(entries)
        PROVE  /\ start[i] \in 1..Len(m) /\ Stands(m, start[i], entries[i])
               /\ i # Len(entries) =>
                    At(m, start[i] + Len(entries[i])) = Comma
    <3>1. start[i] \in Nat
      BY DEF Laid
    <3>2. PICK e : e = entries[i]
      OBVIOUS
    <3>3. PICK l \in Nat, s \in Nat : l = Len(e) /\ l # 0 /\ s = start[i]
      BY <3>1, <3>2
    <3>4. s > 11 /\ s + l <= c
      BY <3>2, <3>3 DEF Laid
    <3>5. \A j \in 1..l : file[s + j - 1] = e[j]
      BY <3>2, <3>3 DEF Laid
    <3>6. i # Len(entries) => file[s + l] = Comma
      BY <3>2, <3>3 DEF Laid
    <3>7. s \in 1..Len(m) /\ s + l \in 1..c + 1
      BY <1>1, <1>4, <3>3, <3>4
    <3>8. ASSUME NEW j \in 1..l PROVE s + j - 1 \in 1..c + 1
      <4>1. c \in Nat
        BY <1>1
      <4>2. j \in Nat /\ 1 <= j /\ j <= l
        BY <3>3
      <4>3. s + j - 1 \in Nat /\ 1 <= s + j - 1 /\ s + j - 1 <= c + 1
        BY <3>3, <3>4, <4>1, <4>2, SMTT(60)
      <4> QED
        BY <4>1, <4>3
    <3>9. \A j \in 1..l : At(m, s + j - 1) = e[j]
      BY <1>3, <3>5, <3>8
    <3>10. i # Len(entries) => At(m, s + l) = Comma
      BY <1>3, <3>6, <3>7
    <3> QED
      BY <3>2, <3>3, <3>7, <3>9, <3>10 DEF Stands
  <2>2. ASSUME NEW i \in 1..Len(entries)
        PROVE  /\ i = Len(entries) => start[i] + Len(entries[i]) = c
               /\ i # Len(entries) =>
                    start[i + 1] = start[i] + Len(entries[i]) + 1
    BY DEF Laid
  <2> QED
    BY <1>4, <1>7, <2>1, <2>2 DEF EntriesAt
<1>9. HeadAndList(m, entries, start, c)
  <2>1. /\ c > 11 /\ (entries = <<>> => c = 12)
        /\ (entries # <<>> => start[1] = 12)
    BY DEF Laid
  <2> QED
    BY <1>5, <1>7, <1>8, <2>1, Zenon DEF HeadAndList
<1>10. ASSUME k = c + 12 PROVE RestAt(m, c)
  <2>1. /\ c + 2 \in 1..k /\ c + 3 \in 1..k /\ c + 4 \in 1..k /\ c + 5 \in 1..k
        /\ c + 6 \in 1..k /\ c + 7 \in 1..k /\ c + 8 \in 1..k /\ c + 9 \in 1..k
        /\ c + 10 \in 1..k /\ c + 11 \in 1..k /\ c + 12 \in 1..k
    BY <1>1, <1>10
  <2>2. /\ n + 3 = c + 2 /\ n + 4 = c + 3 /\ n + 5 = c + 4 /\ n + 6 = c + 5
        /\ n + 7 = c + 6 /\ n + 8 = c + 7 /\ n + 9 = c + 8 /\ n + 10 = c + 9
        /\ n + 11 = c + 10 /\ n + 12 = c + 11 /\ n + 13 = c + 12
    <3>1. n = c - 1 /\ n \in Nat /\ c \in Nat
      BY <1>1, <1>6
    <3> QED
      BY <3>1
  <2>3. /\ (c + 3) + 1 = c + 4 /\ (c + 3) + 2 = c + 5
        /\ (c + 8) + 1 = c + 9 /\ (c + 8) + 2 = c + 10
    BY <1>1
  <2>4. /\ file[c + 2] = Comma
        /\ file[c + 3] = Quote /\ file[c + 4] = "mac" /\ file[c + 5] = Quote
        /\ file[c + 6] = Colon /\ file[c + 7] = OpenArray
        /\ file[c + 8] = Quote /\ file[c + 9] = "b" /\ file[c + 10] = Quote
        /\ file[c + 11] = CloseArray /\ file[c + 12] = CloseObject
    BY <1>6, <2>2, Zenon DEF TailIs
  <2>5. IsWord(m, c + 3, "mac") /\ IsWord(m, c + 8, "b")
    BY <1>2, <2>1, <2>3, <2>4, ZenonT(60) DEF IsWord
  <2> QED
    BY <1>2, <2>1, <2>4, <2>5, Zenon DEF RestAt
<1> QED
  BY <1>9, <1>10

(* The brackets that close an object in a file.                            *)
LEMMA BracketsOfFile ==
  ASSUME NEW file, NEW entries, NEW start, NEW c, Laid(file, entries, start, c)
  PROVE  \A i \in 1..c + 11 : i # c + 1 => file[i] # CloseObject
<1>1. c \in Nat /\ c > 11
  BY DEF Laid
<1>2. ASSUME NEW i \in 1..c + 11, i # c + 1 PROVE file[i] # CloseObject
  <2>1. CASE i \in 1..11
    <3>1. HeadIs(file)
      BY DEF Laid
    <3>2. /\ CloseObject \notin {OpenObject, Quote, Colon, OpenArray}
          /\ CloseObject # "filter" /\ CloseObject # "SUBTYPE"
      BY LettersDiffer, SymbolsDiffer
    <3>3. \/ i = 1 \/ i = 2 \/ i = 3 \/ i = 4 \/ i = 5 \/ i = 6 \/ i = 7
          \/ i = 8 \/ i = 9 \/ i = 10 \/ i = 11
      BY <2>1
    <3> QED
      BY <3>1, <3>2, <3>3 DEF HeadIs
  <2>2. CASE i \in 12..c - 1
    BY <2>2 DEF Laid
  <2>3. CASE i \in c..c + 11
    <3>1. PICK n \in Nat : n = c - 1 /\ TailIs(file, n)
      <4>1. c - 1 \in Nat
        BY <1>1
      <4> QED
        BY <4>1 DEF Laid
    <3>2. /\ CloseObject \notin {CloseArray, Comma, Quote, Colon, OpenArray}
          /\ CloseObject # "mac" /\ CloseObject # "b"
      BY LettersDiffer, SymbolsDiffer
    <3>3. \/ i = n + 1 \/ i = n + 3 \/ i = n + 4 \/ i = n + 5 \/ i = n + 6
          \/ i = n + 7 \/ i = n + 8 \/ i = n + 9 \/ i = n + 10
          \/ i = n + 11 \/ i = n + 12
      BY <1>1, <1>2, <2>3, <3>1
    <3> QED
      BY <3>1, <3>2, <3>3, Zenon DEF TailIs
  <2>4. i \in 1..11 \/ i \in 12..c - 1 \/ i \in c..c + 11
    BY <1>1
  <2> QED
    BY <2>1, <2>2, <2>3, <2>4
<1> QED
  BY <1>2

(* What is left behind a file is made of the same letters.                 *)
LEMMA LeftoversAre ==
  ASSUME NEW rest \in Leftovers
  PROVE  rest \in Seq(Letters)
<1>1. /\ Quote \in Letters /\ Backslash \in Letters /\ Literal \in Letters
      /\ CloseArray \in Letters /\ CloseObject \in Letters /\ Comma \in Letters
  BY DEF Letters
<1>2. /\ <<>> \in Seq(Letters) /\ <<Quote>> \in Seq(Letters)
      /\ <<Backslash>> \in Seq(Letters) /\ <<CloseArray>> \in Seq(Letters)
      /\ <<Comma, Literal>> \in Seq(Letters)
  BY <1>1
<1>3. /\ <<CloseArray, CloseObject, CloseObject>> \in Seq(Letters)
      /\ <<Quote, CloseArray, CloseObject, CloseObject>> \in Seq(Letters)
  BY <1>1
<1> QED
  BY <1>2, <1>3, Zenon DEF Leftovers

(* the whole file, and anything behind it                                  *)
LEMMA WholeFile ==
  ASSUME NEW entries \in Seq(Entries), NEW rest \in Leftovers
  PROVE  initConfig(File(entries) \o rest) =
           IF \E i \in DOMAIN entries : entries[i] = <<Literal>>
           THEN [outcome |-> "null pointer"]
           ELSE [outcome |-> "loaded",
                 filter_subtype |-> StringList(SubtypeItem(entries)),
                 mac |-> StringList(MacItem)]
<1>1. PICK file : file = File(entries)
  OBVIOUS
<1>2. PICK start, c : Laid(file, entries, start, c)
  BY <1>1, FileLaid
<1>3. file \in Seq(Letters) /\ c \in Nat /\ c > 11 /\ Len(file) = c + 12
  BY <1>2 DEF Laid
<1>4. PICK m : m = file \o rest
  OBVIOUS
<1>5. Join(Letters, file, rest, m)
  BY <1>3, <1>4, LeftoversAre, Joined
<1>6. m \in Seq(Letters) /\ \A i \in 1..Len(file) : m[i] = file[i]
  BY <1>5 DEF Join
<1>7. IsText(m)
  BY <1>6, LettersAre, PlainTextIs
<1>8. c + 12 <= Len(m)
  <2>1. rest \in Seq(Letters)
    BY LeftoversAre
  <2>2. Len(rest) \in Nat
    BY <2>1
  <2>3. Len(m) = Len(file) + Len(rest)
    BY <1>5 DEF Join
  <2> QED
    BY <1>3, <2>2, <2>3
<1>9. /\ Len(entries) \in Nat
      /\ \A i \in 1..Len(entries) : Len(entries[i]) \in Nat \ {0}
  <2>1. \A i \in 1..Len(entries) : entries[i] \in Entries
    BY ElementOfSeq
  <2> QED
    BY <2>1, EntryCases
<1>10. HeadAndList(m, entries, start, c) /\ RestAt(m, c)
  <2>1. PICK k : k = c + 12
    OBVIOUS
  <2>2. k \in c + 1..c + 12 /\ k <= Len(m) /\ \A i \in 1..k : m[i] = file[i]
    BY <1>3, <1>6, <1>8, <2>1
  <2> QED
    BY <1>2, <1>7, <1>9, <2>1, <2>2, FileSeen
<1> QED
  BY <1>1, <1>4, <1>7, <1>10, FileLoaded

(* a file that is cut short                                                *)
LEMMA CutFile ==
  ASSUME NEW entries \in Seq(Entries), NEW n \in 0..Len(File(entries)) - 1
  PROVE  /\ cJSON_Parse(SubSeq(File(entries), 1, n)).end = 0
         /\ cJSON_Parse(SubSeq(File(entries), 1, n)).item.type # "overrun"
<1>1. PICK file : file = File(entries)
  OBVIOUS
<1>2. PICK start, c : Laid(file, entries, start, c)
  BY <1>1, FileLaid
<1>3. file \in Seq(Letters) /\ c \in Nat /\ c > 11 /\ Len(file) = c + 12
  BY <1>2 DEF Laid
<1>4. n \in Nat /\ n <= c + 11
  BY <1>1, <1>3
<1>5. PICK m : m = SubSeq(file, 1, n)
  OBVIOUS
<1>6. m \in Seq(Letters) /\ Len(m) = n /\ \A i \in 1..n : m[i] = file[i]
  <2>1. \A i \in 1..n : i \in 1..Len(file)
    BY <1>3, <1>4
  <2>2. \A i \in 1..n : file[i] \in Letters
    BY <1>3, <2>1, ElementOfSeq
  <2>3. m = [i \in 1..n |-> file[i]]
    BY <1>3, <1>4, <1>5
  <2> QED
    BY <1>4, <2>2, <2>3
<1>7. IsText(m)
  BY <1>6, LettersAre, PlainTextIs
<1>8. \A i \in 1..n : i # c + 1 => m[i] # CloseObject
  <2>1. \A i \in 1..c + 11 : i # c + 1 => file[i] # CloseObject
    BY <1>2, BracketsOfFile
  <2>2. \A i \in 1..n : i \in 1..c + 11
    BY <1>3, <1>4
  <2> QED
    BY <1>6, <2>1, <2>2
<1>9. \A i \in 1..n : At(m, i) = m[i]
  BY <1>4, <1>6 DEF At
<1>10. ASSUME n < c + 1 PROVE cJSON_Parse(m).end = 0
  <2>1. At(m, 1) \in {NUL, OpenObject}
    <3>1. CASE n = 0
      BY <1>6, <3>1 DEF At
    <3>2. CASE n # 0
      <4>1. 1 \in 1..n
        BY <1>4, <3>2
      <4>2. file[1] = OpenObject
        BY <1>2 DEF Laid, HeadIs
      <4> QED
        BY <1>6, <1>9, <4>1, <4>2
    <3> QED
      BY <3>1, <3>2
  <2>2. \A i \in 1..n : At(m, i) # CloseObject
    <3>1. \A i \in 1..n : i # c + 1
      BY <1>3, <1>4, <1>10
    <3> QED
      BY <1>8, <1>9, <3>1
  <2> QED
    BY <1>6, <1>7, <2>1, <2>2, NoBracketNoObject
<1>11. ASSUME n >= c + 1 PROVE cJSON_Parse(m).end = 0
  <2>1. /\ Len(entries) \in Nat
        /\ \A i \in 1..Len(entries) : Len(entries[i]) \in Nat \ {0}
    <3>1. \A i \in 1..Len(entries) : entries[i] \in Entries
      BY ElementOfSeq
    <3> QED
      BY <3>1, EntryCases
  <2>2. HeadAndList(m, entries, start, c)
    <3>1. n \in c + 1..c + 12 /\ n <= Len(m)
      BY <1>3, <1>4, <1>6, <1>11
    <3> QED
      BY <1>2, <1>6, <1>7, <2>1, <3>1, FileSeen
  <2>3. At(m, c + 2) \in {NUL, Comma}
    <3>1. CASE n = c + 1
      <4>1. ~(c + 2 <= n)
        BY <1>3, <3>1
      <4> QED
        BY <1>6, <4>1 DEF At
    <3>2. CASE n # c + 1
      <4>1. c + 2 \in 1..n
        BY <1>3, <1>4, <1>11, <3>2
      <4>2. TailIs(file, c - 1) /\ (c - 1) + 3 = c + 2
        BY <1>2, <1>3 DEF Laid
      <4>3. file[c + 2] = Comma
        BY <4>2, Zenon DEF TailIs
      <4> QED
        BY <1>6, <1>9, <4>1, <4>3
    <3> QED
      BY <3>1, <3>2
  <2>4. \A i \in c + 2..Len(m) : At(m, i) # CloseObject
    <3>1. \A i \in c + 2..Len(m) : i \in 1..n /\ i # c + 1
      BY <1>3, <1>4, <1>6
    <3> QED
      BY <1>8, <1>9, <3>1
  <2> QED
    BY <1>7, <2>2, <2>3, <2>4, NoLastBracketNoObject
<1>12. n < c + 1 \/ n >= c + 1
  BY <1>3, <1>4
<1>13. cJSON_Parse(m).item.type # "overrun"
  BY <1>7, ParsedIff
<1> QED
  BY <1>1, <1>5, <1>10, <1>11, <1>12, <1>13

(* initConfig changes nothing when there is no document.                   *)
LEMMA CutRefused ==
  ASSUME NEW m, cJSON_Parse(m).end = 0, cJSON_Parse(m).item.type # "overrun"
  PROVE  initConfig(m).outcome = "invalid"
<1>1. initConfig(m) = [outcome |-> "invalid"]
  BY Zenon DEF initConfig, Load
<1> QED
  BY <1>1

(* What a look-up says of a word in the list of a file.                    *)
LEMMA FoundInFile ==
  ASSUME NEW entries \in Seq(Entries),
         \A i \in DOMAIN entries : entries[i] # <<Literal>>,
         NEW w \in {"a", "b"}
  PROVE  in_config(StringList(SubtypeItem(entries)), <<w>>)
           = Answer(entries, <<w>>)
<1>1. PICK N \in Nat : N = Len(entries) /\ DOMAIN entries = 1..N
  OBVIOUS
<1> DEFINE S == {"a", "b", Long, NUL}
           words == [i \in 1..N |-> Word(entries[i])]
<1>2. ASSUME NEW i \in 1..N
      PROVE  /\ entries[i] \in Entries /\ entries[i] # <<Literal>>
             /\ Word(entries[i]) \in Seq(S)
             /\ \A k \in 1..Len(Word(entries[i])) : Word(entries[i])[k] # NUL
             /\ ItemOf(entries[i]).valuestring = Word(entries[i])
             /\ Word(entries[i]) = <<w>> <=> entries[i] = String(<<w>>)
             /\ Word(entries[i]) = <<>> <=> entries[i] = String(<<>>)
             /\ TooLong(Word(entries[i])) <=> entries[i] = String(<<Long>>)
  <2>1. PICK e \in Entries : e = entries[i] /\ e # <<Literal>>
    BY <1>1, ElementOfSeq
  <2>2. /\ \/ Word(e) = <<"a">> \/ Word(e) = <<"b">>
           \/ Word(e) = <<Long>> \/ Word(e) = <<>>
        /\ ItemOf(e) = StringItem(Word(e))
    BY <2>1, EntryCases
  <2>3. ItemOf(e).valuestring = Word(e)
    BY <2>2, ItemFields DEF StringItem
  <2>4. /\ Word(e) = <<w>> <=> e = String(<<w>>)
        /\ Word(e) = <<Long>> <=> e = String(<<Long>>)
        /\ Word(e) = <<>> <=> e = String(<<>>)
    BY <2>1, EntryCases
  <2>5. PICK word : word = Word(e)
    OBVIOUS
  <2>6. "a" # NUL /\ "b" # NUL /\ Long # NUL
    BY LettersDiffer
  <2>7. word \in Seq(S) /\ \A k \in 1..Len(word) : word[k] # NUL
    <3>1. CASE word = <<"a">>
      BY <2>6, <3>1
    <3>2. CASE word = <<"b">>
      BY <2>6, <3>2
    <3>3. CASE word = <<>>
      BY <3>3
    <3>4. CASE word = <<Long>>
      BY <2>6, <3>4
    <3> QED
      BY <2>2, <2>5, <3>1, <3>2, <3>3, <3>4
  <2>8. TooLong(word) <=> word = <<Long>>
    <3>1. TooLong(word) => word = <<Long>>
      BY <2>2, <2>5, LettersDiffer, Zenon
    <3>2. word = <<Long>> => TooLong(word)
      BY LettersDiffer, Zenon
    <3> QED
      BY <3>1, <3>2
  <2> QED
    BY <2>1, <2>3, <2>4, <2>5, <2>7, <2>8
<1>3. /\ words \in Seq(Seq(S)) /\ Len(words) = N
      /\ \A i \in 1..N : words[i] = Word(entries[i])
  <2>1. \A i \in 1..N : Word(entries[i]) \in Seq(S)
    BY <1>2
  <2> HIDE DEF S
  <2> QED
    BY <1>1, <2>1
<1> HIDE DEF words
<1>4. \A i \in 1..Len(words) : \A k \in 1..Len(words[i]) : words[i][k] # NUL
  BY <1>2, <1>3
<1>5. HasWords(SubtypeItem(entries), words)
  <2>1. /\ DOMAIN SubtypeItem(entries).child = 1..N
        /\ \A i \in 1..N : SubtypeItem(entries).child[i] = ItemOf(entries[i])
    BY <1>1, ItemReads
  <2>2. \A i \in 1..N : ItemOf(entries[i]).valuestring = words[i]
    BY <1>2, <1>3
  <2> QED
    BY <1>3, <2>1, <2>2 DEF HasWords
<1>6. PICK word, full, none, long :
        /\ word = <<w>> /\ full = String(<<w>>)
        /\ none = String(<<>>) /\ long = String(<<Long>>)
  OBVIOUS
<1>7. in_config(StringList(SubtypeItem(entries)), word) = Said(words, word, 1)
  <2>1. NUL \in S /\ word # <<>>
    BY <1>6
  <2> HIDE DEF S
  <2> QED
    BY <1>3, <1>4, <1>5, <2>1, InList
<1>8. ASSUME NEW i \in 1..N
      PROVE  /\ words[i] = word <=> entries[i] = full
             /\ words[i] = <<>> <=> entries[i] = none
             /\ TooLong(words[i]) <=> entries[i] = long
  BY <1>2, <1>3, <1>6
<1>9. full # long
  <2>1. /\ full = <<Quote, w, Quote>> /\ long = <<Quote, Long, Quote>>
        /\ w # Long
    BY <1>6, StringsAre, LettersDiffer
  <2>2. full[2] = w /\ long[2] = Long
    BY <2>1
  <2> QED
    BY <2>1, <2>2
<1>10. PICK D, H :
         /\ D = Deciding(words, word, 1)
         /\ H = {i \in {i \in 1..N : \A j \in 1..i : entries[j] # none} :
                   entries[i] \in {full, long}}
  OBVIOUS
<1>11. /\ D \subseteq 1..N /\ H \subseteq 1..N
       /\ \A k \in 1..N : k \in D <=>
            entries[k] = none \/ entries[k] = long \/ entries[k] = full
       /\ \A k \in 1..N : k \in H <=>
            /\ \A j \in 1..k : entries[j] # none
            /\ entries[k] = full \/ entries[k] = long
  <2>1. D \subseteq 1..N
    BY <1>3, <1>10 DEF Deciding
  <2>2. H \subseteq 1..N
    BY <1>10
  <2>3. \A k \in 1..N : k \in D <=>
          words[k] = <<>> \/ TooLong(words[k]) \/ words[k] = word
    BY <1>3, <1>10 DEF Deciding
  <2>4. \A k \in 1..N : k \in H <=>
          /\ \A j \in 1..k : entries[j] # none
          /\ entries[k] = full \/ entries[k] = long
    BY <1>10
  <2> QED
    BY <1>8, <2>1, <2>2, <2>3, <2>4
<1>12. PICK l : l = Least(D)
  OBVIOUS
<1>13. D # {} => l \in D /\ \A k \in D : l <= k
  <2>1. D \subseteq Nat
    BY <1>1, <1>11
  <2> QED
    BY <1>12, <2>1, LeastIs
<1>14. D # {} /\ entries[l] # none => l \in H
  <2>1. SUFFICES ASSUME D # {}, entries[l] # none PROVE l \in H
    OBVIOUS
  <2>2. l \in D /\ l \in 1..N /\ \A k \in D : l <= k
    BY <1>11, <1>13, <2>1
  <2>3. ASSUME NEW j \in 1..l, entries[j] = none PROVE FALSE
    <3>1. j \in 1..N
      BY <2>2
    <3>2. j \in D /\ l <= j
      BY <1>11, <2>2, <2>3, <3>1
    <3>3. j = l
      BY <2>2, <3>2
    <3> QED
      BY <2>1, <2>3, <3>3
  <2>4. entries[l] = full \/ entries[l] = long
    BY <1>11, <2>1, <2>2
  <2> QED
    BY <1>11, <2>2, <2>3, <2>4
<1>15. H # {} => D # {} /\ entries[l] # none
  <2>1. SUFFICES ASSUME NEW h \in H PROVE D # {} /\ entries[l] # none
    OBVIOUS
  <2>2. h \in 1..N /\ h \in D /\ \A j \in 1..h : entries[j] # none
    BY <1>11, <2>1
  <2>3. l \in 1..h
    <3>1. l \in 1..N /\ l <= h
      BY <1>11, <1>13, <2>2
    <3> QED
      BY <1>1, <2>2, <3>1
  <2> QED
    BY <2>2, <2>3
<1>16. H # {} => Least(H) = l
  <2>1. SUFFICES ASSUME H # {} PROVE Least(H) = l
    OBVIOUS
  <2>2. PICK h : h = Least(H)
    OBVIOUS
  <2>3. h \in H /\ \A k \in H : h <= k
    <3>1. H \subseteq Nat
      BY <1>1, <1>11
    <3> QED
      BY <2>1, <2>2, <3>1, LeastIs
  <2>4. l \in H /\ l \in D
    BY <1>13, <1>14, <1>15, <2>1
  <2>5. h \in D
    BY <1>11, <2>3
  <2>6. h <= l /\ l <= h /\ h \in Nat /\ l \in Nat
    BY <1>11, <1>13, <2>3, <2>4, <2>5
  <2> QED
    BY <2>2, <2>6
<1>17. Answer(entries, word) =
         IF H = {} THEN "absent"
         ELSE IF entries[Least(H)] = full THEN "found" ELSE "overflow"
  BY <1>1, <1>6, <1>10, Zenon DEF Answer
<1>18. Said(words, word, 1) =
         IF D = {} \/ words[l] = <<>> THEN "absent"
         ELSE IF TooLong(words[l]) THEN "overflow" ELSE "found"
  BY <1>10, <1>12, Zenon DEF Said
<1>19. CASE H = {}
  <2>1. D # {} => words[l] = <<>>
    BY <1>8, <1>11, <1>13, <1>14, <1>19
  <2> QED
    BY <1>6, <1>7, <1>17, <1>18, <1>19, <2>1
<1>20. CASE H # {}
  <2>1. /\ D # {} /\ l \in 1..N /\ l \in H /\ entries[l] # none
        /\ Least(H) = l
    BY <1>11, <1>14, <1>15, <1>16, <1>20
  <2>2. /\ words[l] # <<>> /\ (TooLong(words[l]) <=> entries[l] = long)
        /\ entries[l] = full \/ entries[l] = long
    BY <1>8, <1>11, <2>1
  <2> QED
    BY <1>6, <1>7, <1>9, <1>17, <1>18, <1>20, <2>1, <2>2
<1> QED
  BY <1>19, <1>20

(* The other list of the file has its one word.                            *)
LEMMA MacFound == in_config(StringList(MacItem), <<"b">>) = "found"
<1> DEFINE S == {"b", NUL}
<1>1. PICK word : word = <<"b">>
  OBVIOUS
<1>2. PICK words : words = <<word>>
  OBVIOUS
<1>3. "b" # NUL
  BY LettersDiffer
<1>4. /\ word \in Seq(S) /\ word # <<>> /\ NUL \in S
      /\ \A k \in 1..Len(word) : word[k] # NUL
  BY <1>1, <1>3
<1>5. words \in Seq(Seq(S)) /\ Len(words) = 1 /\ words[1] = word
  BY <1>2, <1>4
<1>6. HasWords(MacItem, words)
  <2>1. PICK item : item = StringItem(<<"b">>)
    OBVIOUS
  <2>2. MacItem.child = <<item>>
    BY <2>1, ItemFields DEF MacItem
  <2>3. item.valuestring = word
    BY <1>1, <2>1, ItemFields DEF StringItem
  <2> QED
    BY <1>5, <2>2, <2>3 DEF HasWords
<1> HIDE DEF S
<1>7. in_config(StringList(MacItem), word) = Said(words, word, 1)
  BY <1>4, <1>5, <1>6, InList
<1>8. Said(words, word, 1) = "found"
  <2>1. ~TooLong(word)
    BY <1>1, LettersDiffer
  <2>2. 1 \in 1..Len(words) /\ Len(words) \in Nat
    BY <1>5
  <2> QED
    BY <1>4, <1>5, <2>1, <2>2, SaidStep
<1> QED
  BY <1>1, <1>7, <1>8

(* A whole file, read in any memory, is what its entries say.              *)
LEMMA ListsRight ==
  ASSUME NEW entries \in Seq(Entries), NEW rest \in Leftovers
  PROVE  Lists(initConfig(File(entries) \o rest), entries)
<1>1. PICK config : config = initConfig(File(entries) \o rest)
  OBVIOUS
<1>2. CASE \E i \in DOMAIN entries : entries[i] = <<Literal>>
  <2>1. config = [outcome |-> "null pointer"]
    BY <1>1, <1>2, WholeFile
  <2>2. config.outcome = "null pointer"
    BY <2>1
  <2>3. Lists(config, entries)
    BY <1>2, <2>2, Zenon DEF Lists
  <2> QED
    BY <1>1, <2>3
<1>3. CASE ~\E i \in DOMAIN entries : entries[i] = <<Literal>>
  <2>1. PICK subtype, mac :
          subtype = StringList(SubtypeItem(entries)) /\ mac = StringList(MacItem)
    OBVIOUS
  <2>2. config = [outcome |-> "loaded", filter_subtype |-> subtype, mac |-> mac]
    BY <1>1, <1>3, <2>1, WholeFile
  <2>3. /\ config.outcome = "loaded" /\ config.filter_subtype = subtype
        /\ config.mac = mac
    BY <2>2
  <2>4. \A i \in DOMAIN entries : entries[i] # <<Literal>>
    BY <1>3
  <2>5. ASSUME NEW word \in {<<"a">>, <<"b">>}
        PROVE  in_config(subtype, word) = Answer(entries, word)
    <3>1. CASE word = <<"a">>
      <4>1. "a" \in {"a", "b"}
        OBVIOUS
      <4> QED
        BY <2>1, <2>4, <3>1, <4>1, FoundInFile, Zenon
    <3>2. CASE word = <<"b">>
      <4>1. "b" \in {"a", "b"}
        OBVIOUS
      <4> QED
        BY <2>1, <2>4, <3>2, <4>1, FoundInFile, Zenon
    <3> QED
      BY <3>1, <3>2, Zenon
  <2>6. in_config(mac, <<"b">>) = "found"
    BY <2>1, MacFound
  <2>7. Lists(config, entries)
    BY <1>3, <2>3, <2>5, <2>6, Zenon DEF Lists
  <2> QED
    BY <1>1, <2>7
<1> QED
  BY <1>2, <1>3

-----------------------------------------------------------------------------
(* The inputs that the module builds.                                      *)

(* Every input has the fields of its kind.                                 *)
InputTyped ==
  /\ input.kind = "capture" =>
       input \in [kind : {"capture"}, bytes : Seq(Bytes)]
  /\ input.kind = "size" => input \in [kind : {"size"}, caplen : Nat]
  /\ input.kind = "radiotap" =>
       input \in [kind : {"radiotap"}, present : SUBSET DOMAIN Size,
                  ext : Nat, zero : BOOLEAN]
  /\ input.kind = "frame" =>
       input \in [kind : {"frame"}, fc0 : 0..255, fc1 : 0..3, len : Nat]
  /\ input.kind = "text" => input \in [kind : {"text"}, text : Seq(Symbols)]
  /\ input.kind = "config" =>
       input \in [kind : {"config"}, entries : Seq(Entries)]

(* The first documents are made of symbols.                                *)
LEMMA SeedsAre == Seeds \subseteq Seq(Symbols)
<1>1. /\ {"a", "0", "8", "c", "d", Quote, Backslash, Unicode, Literal,
          OpenArray, CloseArray, OpenObject, CloseObject} \subseteq Symbols
      /\ Quote \in Symbols /\ Colon \in Symbols
  BY DEF Symbols, HexDigits
<1>2. /\ <<>> \in Seq(Symbols) /\ <<"a", Backslash, Quote>> \in Seq(Symbols)
      /\ <<"a", Unicode>> \in Seq(Symbols) /\ <<Backslash, Unicode>> \in Seq(Symbols)
      /\ <<"0", "0", "8", "d">> \in Seq(Symbols)
      /\ <<"d", "8", "0", "0">> \in Seq(Symbols)
      /\ <<"d", "c", "0", "0">> \in Seq(Symbols)
  BY <1>1
<1>3. ASSUME NEW digits \in Seq(Symbols) PROVE Escaped(digits) \in Seq(Symbols)
  <2>1. PICK u \in Seq(Symbols) : u = <<Backslash, Unicode>>
    BY <1>2
  <2>2. u \o digits \in Seq(Symbols)
    OBVIOUS
  <2> QED
    BY <2>1, <2>2 DEF Escaped
<1>4. PICK e, high, low :
        /\ e = Escaped(<<"0", "0", "8", "d">>)
        /\ high = Escaped(<<"d", "8", "0", "0">>)
        /\ low = Escaped(<<"d", "c", "0", "0">>)
  OBVIOUS
<1>5. e \in Seq(Symbols) /\ high \in Seq(Symbols) /\ low \in Seq(Symbols)
  BY <1>2, <1>3, <1>4
<1>6. high \o low \in Seq(Symbols)
  BY <1>5
<1>7. \A text \in Seq(Symbols) : String(text) \in Seq(Symbols)
  BY <1>1, NamesAre
<1>8. /\ <<Literal>> \in Seq(Symbols)
      /\ <<OpenArray, CloseArray>> \in Seq(Symbols)
      /\ <<OpenObject, CloseObject>> \in Seq(Symbols)
  BY <1>1
<1>9. /\ String(<<>>) \in Seq(Symbols)
      /\ String(<<"a", Backslash, Quote>>) \in Seq(Symbols)
      /\ String(<<"a", Unicode>>) \in Seq(Symbols)
      /\ String(e) \in Seq(Symbols) /\ String(high \o low) \in Seq(Symbols)
  BY <1>2, <1>5, <1>6, <1>7
<1> QED
  BY <1>4, <1>8, <1>9, Zenon DEF Seeds

(* The inputs begin as the program can meet them.                          *)
LEMMA StartTyped == Init => InputTyped
<1>1. SUFFICES ASSUME Init PROVE InputTyped
  OBVIOUS
<1>2. CASE input = [kind |-> "capture", bytes |-> <<>>]
  BY <1>2 DEF InputTyped
<1>3. CASE input = [kind |-> "size", caplen |-> 696]
  BY <1>3 DEF InputTyped
<1>4. CASE \E ext \in 0..MaxExt, zero \in BOOLEAN :
             input = [kind |-> "radiotap", present |-> {}, ext |-> ext,
                      zero |-> zero]
  BY <1>4, FieldsAssumption DEF InputTyped
<1>5. CASE \E fc1 \in 0..3, len \in 0..24 :
             input = [kind |-> "frame", fc0 |-> 0, fc1 |-> fc1, len |-> len]
  BY <1>5 DEF InputTyped
<1>6. CASE \E text \in Seeds : input = [kind |-> "text", text |-> text]
  <2>1. PICK text \in Seeds : input = [kind |-> "text", text |-> text]
    BY <1>6
  <2>2. text \in Seq(Symbols)
    BY SeedsAre
  <2> QED
    BY <2>1, <2>2 DEF InputTyped
<1>7. CASE input = [kind |-> "config", entries |-> <<>>]
  BY <1>7 DEF InputTyped
<1> QED
  BY <1>1, <1>2, <1>3, <1>4, <1>5, <1>6, <1>7 DEF Init

(* What Nest puts around a document is made of symbols.                    *)
LEMMA NestedIs ==
  ASSUME Nest
  PROVE  \E l, r \in Seq(Symbols) :
           input' = [input EXCEPT !.text = l \o input.text \o r]
<1>1. /\ <<"a">> \in Seq(Symbols) /\ <<>> \in Seq(Symbols)
      /\ Quote \in Symbols /\ Colon \in Symbols
  BY DEF Symbols
<1>2. PICK a, empty : a = Name(<<"a">>) /\ empty = Name(<<>>)
  OBVIOUS
<1>3. a \in Seq(Symbols) /\ empty \in Seq(Symbols)
  BY <1>1, <1>2, NamesAre
<1>4. \E l, r :
        /\ \/ l = <<OpenArray>> /\ r = <<CloseArray>>
           \/ l = <<OpenArray>> /\ r = <<Comma, Literal, CloseArray>>
           \/ l = <<OpenObject>> \o a /\ r = <<CloseObject>>
           \/ l = <<OpenObject>> \o empty \o <<Literal, Comma>> \o a
              /\ r = <<CloseObject>>
           \/ l = <<Blank>> /\ r = <<Blank>>
        /\ input' = [input EXCEPT !.text = l \o input.text \o r]
  <2> DEFINE w1 == <<<<OpenArray>>, <<CloseArray>>>>
             w2 == <<<<OpenArray>>, <<Comma, Literal, CloseArray>>>>
             w3 == <<<<OpenObject>> \o a, <<CloseObject>>>>
             w4 == <<<<OpenObject>> \o empty \o <<Literal, Comma>> \o a,
                     <<CloseObject>>>>
             w5 == <<<<Blank>>, <<Blank>>>>
  <2>1. PICK wrap \in {w1, w2, w3, w4, w5} :
          input' = [input EXCEPT !.text = wrap[1] \o input.text \o wrap[2]]
    BY <1>2 DEF Nest
  <2>2. wrap = w1 \/ wrap = w2 \/ wrap = w3 \/ wrap = w4 \/ wrap = w5
    BY <2>1
  <2>3. /\ w1[1] = <<OpenArray>> /\ w1[2] = <<CloseArray>>
        /\ w2[1] = <<OpenArray>> /\ w2[2] = <<Comma, Literal, CloseArray>>
        /\ w3[1] = <<OpenObject>> \o a /\ w3[2] = <<CloseObject>>
        /\ w4[1] = <<OpenObject>> \o empty \o <<Literal, Comma>> \o a
        /\ w4[2] = <<CloseObject>>
        /\ w5[1] = <<Blank>> /\ w5[2] = <<Blank>>
    OBVIOUS
  <2> HIDE DEF w1, w2, w3, w4, w5
  <2> QED
    BY <2>1, <2>2, <2>3
<1>5. PICK l, r :
        /\ \/ l = <<OpenArray>> /\ r = <<CloseArray>>
           \/ l = <<OpenArray>> /\ r = <<Comma, Literal, CloseArray>>
           \/ l = <<OpenObject>> \o a /\ r = <<CloseObject>>
           \/ l = <<OpenObject>> \o empty \o <<Literal, Comma>> \o a
              /\ r = <<CloseObject>>
           \/ l = <<Blank>> /\ r = <<Blank>>
        /\ input' = [input EXCEPT !.text = l \o input.text \o r]
  BY <1>4
<1>6. /\ <<OpenArray>> \in Seq(Symbols) /\ <<CloseArray>> \in Seq(Symbols)
      /\ <<Comma, Literal, CloseArray>> \in Seq(Symbols)
      /\ <<OpenObject>> \in Seq(Symbols) /\ <<CloseObject>> \in Seq(Symbols)
      /\ <<Literal, Comma>> \in Seq(Symbols) /\ <<Blank>> \in Seq(Symbols)
  BY DEF Symbols
<1>7. l \in Seq(Symbols) /\ r \in Seq(Symbols)
  <2>1. <<OpenObject>> \o a \in Seq(Symbols)
    BY <1>3, <1>6
  <2>2. <<OpenObject>> \o empty \in Seq(Symbols)
    BY <1>3, <1>6
  <2>3. <<OpenObject>> \o empty \o <<Literal, Comma>> \in Seq(Symbols)
    BY <1>6, <2>2
  <2>4. <<OpenObject>> \o empty \o <<Literal, Comma>> \o a \in Seq(Symbols)
    BY <1>3, <2>3
  <2> QED
    BY <1>5, <1>6, <2>1, <2>4, Zenon
<1> QED
  BY <1>5, <1>7

(* A larger input is again one that the program can meet.                  *)
LEMMA StepTyped == InputTyped /\ [Next]_input => InputTyped'
<1>1. SUFFICES ASSUME InputTyped, [Next]_input PROVE InputTyped'
  OBVIOUS
<1>2. CASE AddByte
  <2>1. PICK b \in ByteValues : input' = [input EXCEPT !.bytes = Append(@, b)]
    BY <1>2 DEF AddByte
  <2>2. b \in Bytes /\ input.kind = "capture"
    BY <1>2, BytesAssumption DEF AddByte
  <2>3. input \in [kind : {"capture"}, bytes : Seq(Bytes)]
    BY <1>1, <2>2 DEF InputTyped
  <2>4. Append(input.bytes, b) \in Seq(Bytes)
    BY <2>2, <2>3
  <2>5. input' \in [kind : {"capture"}, bytes : Seq(Bytes)]
    BY <2>1, <2>3, <2>4
  <2> QED
    BY <2>5 DEF InputTyped
<1>3. CASE LongerFrame
  BY <1>1, <1>3 DEF LongerFrame, InputTyped
<1>4. CASE AddField
  <2>1. PICK f \in Fields : input' = [input EXCEPT !.present = @ \cup {f}]
    BY <1>4 DEF AddField
  <2>2. f \in DOMAIN Size /\ input.kind = "radiotap"
    BY <1>4, FieldsAssumption DEF AddField
  <2>3. input \in [kind : {"radiotap"}, present : SUBSET DOMAIN Size,
                   ext : Nat, zero : BOOLEAN]
    BY <1>1, <2>2 DEF InputTyped
  <2>4. input' \in [kind : {"radiotap"}, present : SUBSET DOMAIN Size,
                    ext : Nat, zero : BOOLEAN]
    BY <2>1, <2>2, <2>3
  <2> QED
    BY <2>4 DEF InputTyped
<1>5. CASE NextFrame
  <2>1. input \in [kind : {"frame"}, fc0 : 0..255, fc1 : 0..3, len : Nat]
    BY <1>1, <1>5 DEF NextFrame, InputTyped
  <2>2. input.fc0 + 1 \in 0..255 /\ input' = [input EXCEPT !.fc0 = @ + 1]
    BY <1>5, <2>1 DEF NextFrame
  <2>3. input' \in [kind : {"frame"}, fc0 : 0..255, fc1 : 0..3, len : Nat]
    BY <2>1, <2>2
  <2> QED
    BY <2>3 DEF InputTyped
<1>6. CASE Nest
  <2>1. PICK l, r \in Seq(Symbols) :
          input' = [input EXCEPT !.text = l \o input.text \o r]
    BY <1>6, NestedIs
  <2>2. input \in [kind : {"text"}, text : Seq(Symbols)]
    BY <1>1, <1>6 DEF Nest, InputTyped
  <2>3. l \o input.text \o r \in Seq(Symbols)
    BY <2>2
  <2>4. input' \in [kind : {"text"}, text : Seq(Symbols)]
    BY <2>1, <2>2, <2>3
  <2> QED
    BY <2>4 DEF InputTyped
<1>7. CASE AddEntry
  <2>1. PICK e \in Entries : input' = [input EXCEPT !.entries = Append(@, e)]
    BY <1>7 DEF AddEntry
  <2>2. input \in [kind : {"config"}, entries : Seq(Entries)]
    BY <1>1, <1>7 DEF AddEntry, InputTyped
  <2>3. Append(input.entries, e) \in Seq(Entries)
    BY <2>2
  <2>4. input' \in [kind : {"config"}, entries : Seq(Entries)]
    BY <2>1, <2>2, <2>3
  <2> QED
    BY <2>4 DEF InputTyped
<1>8. CASE UNCHANGED input
  BY <1>1, <1>8 DEF InputTyped
<1> QED
  BY <1>1, <1>2, <1>3, <1>4, <1>5, <1>6, <1>7, <1>8 DEF Next

(* Every input of every behaviour has the fields of its kind: bytes that   *)
(* are bytes, known radiotap fields, a frame control of two bytes.         *)
THEOREM InputsAreTyped == Spec => []InputTyped
<1> QED
  BY StartTyped, StepTyped, PTL DEF Spec

(* do_parse stores every frame whose message fits base64_buff, with any    *)
(* bytes, or drops it for one of the six reasons.                          *)
THEOREM FramesAreStored == Spec => []StoredExactly
<1>1. InputTyped => StoredExactly
  <2>1. SUFFICES ASSUME InputTyped, input.kind = "capture" PROVE StoredExactly
    BY DEF StoredExactly
  <2>2. input.bytes \in Seq(Bytes)
    BY <2>1 DEF InputTyped
  <2>3. \A source \in Sources, utime \in 1..6, garbage \in 0..NoDigit,
           st \in Threads, db \in Databases :
          RightResult(source, input.bytes, garbage, st, db,
            do_parse(bin_print(source, utime, input.bytes).msg, garbage, st, db))
    BY <2>2, Stored
  <2> QED
    BY <2>3, Zenon DEF StoredExactly
<1> QED
  BY <1>1, InputsAreTyped, PTL

(* Which frames' messages fit the 1024 bytes of base64_buff.               *)
THEOREM MessagesFitOrNot == Spec => []MessageFits
<1>1. InputTyped => MessageFits
  BY Fits DEF InputTyped, MessageFits
<1> QED
  BY <1>1, InputsAreTyped, PTL

(* filter of mycap and parse80211 of the server agree on every frame.      *)
THEOREM FilteredFramesAreNamed == Spec => []FilterIsNamed
<1>1. InputTyped => FilterIsNamed
  <2>1. SUFFICES ASSUME InputTyped, input.kind = "frame", input.len > 0
                 PROVE  FilterIsNamed
    BY DEF FilterIsNamed
  <2>2. input.fc0 \in 0..255 /\ input.fc1 \in 0..3 /\ input.len \in Nat \ {0}
    BY <2>1 DEF InputTyped
  <2>3. PICK named : named = parse80211(input.fc0, input.fc1, input.len)
    OBVIOUS
  <2>4. /\ filter(input.fc0) <=> <<named.type, named.subtype>> \in
             {<<"Management", "Probe request">>, <<"Data", "Null (no data)">>}
        /\ input.len > 10 => named.mac_addr[2] = 10
    <3>1. input.fc1 \in 0..255
      BY <2>2
    <3> QED
      BY <2>2, <2>3, <3>1, Named, Zenon
  <2>5. 2 + 2 + 6 = 10
    OBVIOUS
  <2> QED
    BY <2>3, <2>4, <2>5, Zenon DEF FilterIsNamed
<1> QED
  BY <1>1, InputsAreTyped, PTL

(* When the server reads the antenna signal where the format puts it, for  *)
(* every set of fields and every number of present words.                  *)
THEOREM SignalIsReadRight == Spec => []SignalRight
<1>1. InputTyped => SignalRight
  BY Signal DEF InputTyped, SignalRight, IsHeader
<1> QED
  BY <1>1, InputsAreTyped, PTL

(* cJSON_Parse never writes a string behind its memory, and takes a text   *)
(* exactly if it begins with a JSON value, but for parse_number's numbers, *)
(* by a grammar that says nothing about the parser, or if it is a string   *)
(* that is never closed: for every document, of any length and depth, and  *)
(* every text one symbol or one cut away from it in which four digits stand*)
(* behind every \u.                                                        *)
THEOREM DocumentsAreParsed == Spec => []ParsedIffDocument
<1>1. InputTyped => ParsedIffDocument
  <2>1. SUFFICES ASSUME InputTyped, input.kind = "text",
                        NEW s \in Edits(input.text), WellEscaped(s)
                 PROVE  /\ cJSON_Parse(s).item.type # "overrun"
                        /\ cJSON_Parse(s).end # 0 <=>
                             \/ \E n \in 1..Len(s) : Grammar(s)["value"][1][n]
                             \/ \E n \in 0..Len(s) :
                                  Blanks(s, 1, n) /\ IsUnclosed(After(s, n))
    BY Zenon DEF ParsedIffDocument
  <2>2. input.text \in Seq(Symbols)
    BY <2>1 DEF InputTyped
  <2>3. IsText(s)
    BY <2>1, <2>2, EditsAreTexts
  <2> QED
    BY <2>3, ParsedIff
<1> QED
  BY <1>1, InputsAreTyped, PTL

(* initConfig and the look-up, for any list of any length: a whole file is *)
(* read the same whatever follows it in memory, a word is found exactly if *)
(* it is listed before any empty string and any word of thirty characters, *)
(* which overflows buff, without leaving the list, an entry that is no     *)
(* string kills the process, and a file that is cut short changes nothing. *)
THEOREM ListedWordsAreFound == Spec => []ListedIsFound
<1>1. InputTyped => ListedIsFound
  <2>1. SUFFICES ASSUME InputTyped, input.kind = "config"
                 PROVE  ListedIsFound
    BY DEF ListedIsFound
  <2>2. PICK entries : entries = input.entries
    OBVIOUS
  <2>3. entries \in Seq(Entries)
    BY <2>1, <2>2 DEF InputTyped
  <2>4. \A rest \in Leftovers : Lists(initConfig(File(entries) \o rest), entries)
    BY <2>3, ListsRight
  <2>5. \A n \in 0..Len(File(entries)) - 1 :
          initConfig(SubSeq(File(entries), 1, n)).outcome = "invalid"
    BY <2>3, CutFile, CutRefused
  <2> QED
    BY <2>2, <2>4, <2>5, Zenon DEF ListedIsFound
<1> QED
  BY <1>1, InputsAreTyped, PTL

=============================================================================
