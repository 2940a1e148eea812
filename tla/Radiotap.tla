------------------------------ MODULE Radiotap ------------------------------
(***************************************************************************)
(* The cursor of parseRadioHeader (radiotap_parse.c): which bytes of the   *)
(* header each member of std_rt_header is read from.  A header is the set  *)
(* of fields its first present word announces, the number of further       *)
(* present words, and whether the four bytes after them are zero; a value  *)
(* is the offset it is read at.                                            *)
(***************************************************************************)
EXTENDS Naturals, Sequences

(* the fields that the parser knows, in the order it tests for them        *)
Parsed ==
  <<"TSFT", "Flags", "Rate", "Channel", "FHSS", "AntennaSignal",
    "AntennaNoise", "LockQuality", "TXAttenuation", "dBTXAttenuation",
    "dBmTXPower", "Antenna", "dBAntennaSignal", "dBAntennaNoise", "RXFlags",
    "MCS", "AMPDUStatus", "VHT">>

Size ==
  [TSFT |-> 8, Flags |-> 1, Rate |-> 1, Channel |-> 4, FHSS |-> 2,
   AntennaSignal |-> 1, AntennaNoise |-> 1, LockQuality |-> 2,
   TXAttenuation |-> 2, dBTXAttenuation |-> 2, dBmTXPower |-> 1,
   Antenna |-> 1, dBAntennaSignal |-> 1, dBAntennaNoise |-> 1, RXFlags |-> 2,
   MCS |-> 3, AMPDUStatus |-> 8, VHT |-> 12,
   TXFlags |-> 2, RTSRetries |-> 1, DataRetries |-> 1]

(* The format's own rule, not the program's: a field starts at a multiple  *)
(* of its alignment, and three more fields lie between RXFlags and MCS.    *)
Alignment ==
  [f \in DOMAIN Size |->
     CASE f = "TSFT" -> 8
       [] f = "AMPDUStatus" -> 4
       [] f \in {"Channel", "LockQuality", "TXAttenuation", "dBTXAttenuation",
                 "RXFlags", "TXFlags", "VHT"} -> 2
       [] OTHER -> 1]
Written ==
  SubSeq(Parsed, 1, 15) \o <<"TXFlags", "RTSRetries", "DataRetries">>
  \o SubSeq(Parsed, 16, 18)

-----------------------------------------------------------------------------
(* Faulty variants: each is the definition it is named after with one      *)
(* plausible slip in the C; a property must fail when it takes its place.  *)

(* the second byte of FHSS is forgotten                                    *)
AdvanceShort(header, f, pos) ==
  IF f \in header.present
  THEN pos + (IF f = "FHSS" THEN 1 ELSE Size[f]) ELSE pos

-----------------------------------------------------------------------------
(* version, len and the present words, then the test for a zero word       *)
FirstField(header) == 8 + 4 * header.ext + (IF header.zero THEN 4 ELSE 0)

(* one if(header->present&...): read_p moves by the size of the field      *)
Advance(header, f, pos) ==
  IF f \in header.present THEN pos + Size[f] ELSE pos

(* read_p after the first i tests                                          *)
Cursor(header) ==
  LET read_p[i \in 0..Len(Parsed)] ==
        IF i = 0 THEN FirstField(header)
        ELSE Advance(header, Parsed[i], read_p[i - 1])
  IN read_p

Index(f) == CHOOSE i \in 1..Len(Parsed) : Parsed[i] = f

(* Where v_f comes from; 0: it keeps the zero of radioHeader_clean.  The   *)
(* rate is stored in v_Flags, over the flags (radiotap_parse.c:44).        *)
ReadAt(header, f) == Cursor(header)[Index(f) - 1]
parseRadioHeader(header) ==
  [f \in {Parsed[i] : i \in 1..Len(Parsed)} |->
     CASE f = "Rate" -> 0
       [] f = "Flags" /\ "Rate" \in header.present -> ReadAt(header, "Rate")
       [] OTHER -> IF f \in header.present THEN ReadAt(header, f) ELSE 0]

-----------------------------------------------------------------------------
(* Where the format puts the fields.                                       *)

AlignUp(pos, a) == ((pos + a - 1) \div a) * a
Start(header, f, pos) ==
  IF f \in header.present THEN AlignUp(pos, Alignment[f]) ELSE pos
Layout(header) ==
  LET end[i \in 0..Len(Written)] ==
        IF i = 0 THEN 8 + 4 * header.ext
        ELSE Start(header, Written[i], end[i - 1])
             + (IF Written[i] \in header.present THEN Size[Written[i]] ELSE 0)
  IN end
WrittenAt(header, f) ==
  LET i == CHOOSE j \in 1..Len(Written) : Written[j] = f IN
    Start(header, f, Layout(header)[i - 1])

(* TSFT is the only field that may need padding right behind the present   *)
(* words: it does when there is an odd number of further ones.             *)
NeedsZeroWord(header) == "TSFT" \in header.present /\ header.ext % 2 = 1

=============================================================================
