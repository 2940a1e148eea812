------------------------------- MODULE Codecs --------------------------------
(***************************************************************************)
(* The pure functions of both programs over bounded inputs.  An input is   *)
(* built step by step: the bytes of a frame, its length, the fields of a   *)
(* radiotap header, the first bytes of an 802.11 header, a JSON document,  *)
(* or the list in a configuration file.                                    *)
(***************************************************************************)
EXTENDS Message, Frame80211, Radiotap, ConfigText

CONSTANTS ByteValues,  (* the bytes a captured frame is made of            *)
          MaxBytes,    (* how many of them                                 *)
          Fields,      (* the radiotap fields that may be present          *)
          MaxExt,      (* how many further present words                   *)
          MaxText,     (* the symbols of a document                        *)
          MaxEntries   (* the entries of a list                            *)

ASSUME BytesAssumption == ByteValues \subseteq Bytes /\ MaxBytes \in Nat
ASSUME FieldsAssumption == Fields \subseteq DOMAIN Size /\ MaxExt \in Nat
ASSUME TextAssumption == MaxText \in Nat /\ MaxEntries \in Nat

VARIABLE input

String(text) == <<Quote>> \o text \o <<Quote>>
Name(text) == String(text) \o <<Colon>>
Escaped(digits) == <<Backslash, Unicode>> \o digits

(* The entries of a list, a number and a word that is too long among them, *)
(* and a file that has it.                                                 *)
Entries ==
  {String(<<"a">>), String(<<"b">>), String(<<Long>>), String(<<>>), <<Literal>>}
File(entries) ==
  <<OpenObject>> \o Name(<<"filter">>)
  \o <<OpenObject>> \o Name(<<"SUBTYPE">>) \o <<OpenArray>>
  \o FlattenSeq([i \in DOMAIN entries |->
                   (IF i = 1 THEN <<>> ELSE <<Comma>>) \o entries[i]])
  \o <<CloseArray, CloseObject, Comma>>
  \o Name(<<"mac">>) \o <<OpenArray>> \o String(<<"b">>)
  \o <<CloseArray, CloseObject>>

(* What an earlier user of the memory may have left behind a text.         *)
Leftovers ==
  {<<>>, <<Quote>>, <<Backslash>>, <<CloseArray>>, <<Comma, Literal>>,
   <<CloseArray, CloseObject, CloseObject>>,
   <<Quote, CloseArray, CloseObject, CloseObject>>}

(* The texts that differ from this one in one symbol, or end early.        *)
Symbols ==
  {Quote, Backslash, Unicode, Blank, Literal, Digitless, "a",
   OpenArray, CloseArray, OpenObject, CloseObject, Comma, Colon} \cup HexDigits
EditsAt(text, i) ==
  {Before(text, i) \o middle \o After(text, i) :
     middle \in {<<>>} \cup {<<c>> : c \in Symbols}}
Edits(text) ==
  {SubSeq(text, 1, n) : n \in 0..Len(text)}
  \cup UNION {EditsAt(text, i) : i \in 1..Len(text)}

(* the documents to begin with                                             *)
Seeds ==
  {<<Literal>>, <<OpenArray, CloseArray>>, <<OpenObject, CloseObject>>,
   String(<<>>), String(<<"a", Backslash, Quote>>), String(<<"a", Unicode>>),
   String(Escaped(<<"0", "0", "8", "d">>)),
   String(Escaped(<<"d", "8", "0", "0">>) \o Escaped(<<"d", "c", "0", "0">>))}

Init ==
  \/ input = [kind |-> "capture", bytes |-> <<>>]
  \/ input = [kind |-> "size", caplen |-> 696]
  \/ \E ext \in 0..MaxExt, zero \in BOOLEAN :
       input = [kind |-> "radiotap", present |-> {}, ext |-> ext, zero |-> zero]
  \/ \E fc1 \in 0..3, len \in 0..24 :
       input = [kind |-> "frame", fc0 |-> 0, fc1 |-> fc1, len |-> len]
  \/ \E text \in Seeds : input = [kind |-> "text", text |-> text]
  \/ input = [kind |-> "config", entries |-> <<>>]

AddByte ==
  /\ input.kind = "capture"
  /\ Len(input.bytes) < MaxBytes
  /\ \E b \in ByteValues : input' = [input EXCEPT !.bytes = Append(@, b)]

LongerFrame ==
  /\ input.kind = "size"
  /\ input.caplen < 725
  /\ input' = [input EXCEPT !.caplen = @ + 1]

AddField ==
  /\ input.kind = "radiotap"
  /\ \E f \in Fields \ input.present :
       input' = [input EXCEPT !.present = @ \cup {f}]

NextFrame ==
  /\ input.kind = "frame"
  /\ input.fc0 < 255
  /\ input' = [input EXCEPT !.fc0 = @ + 1]

(* A document becomes part of a larger one.                                *)
Nest ==
  /\ input.kind = "text"
  /\ \E wrap \in {<<<<OpenArray>>, <<CloseArray>>>>,
                  <<<<OpenArray>>, <<Comma, Literal, CloseArray>>>>,
                  <<<<OpenObject>> \o Name(<<"a">>), <<CloseObject>>>>,
                  <<<<OpenObject>> \o Name(<<>>) \o <<Literal, Comma>>
                      \o Name(<<"a">>), <<CloseObject>>>>,
                  <<<<Blank>>, <<Blank>>>>} :
       LET text == wrap[1] \o input.text \o wrap[2] IN
         Len(text) <= MaxText /\ input' = [input EXCEPT !.text = text]

AddEntry ==
  /\ input.kind = "config"
  /\ Len(input.entries) < MaxEntries
  /\ \E e \in Entries : input' = [input EXCEPT !.entries = Append(@, e)]

Next == AddByte \/ LongerFrame \/ AddField \/ NextFrame \/ Nest \/ AddEntry

Spec == Init /\ [][Next]_input

-----------------------------------------------------------------------------
(* what do_parse has to make of the frame that bin_print was given         *)
RightResult(source, bytes, garbage, st, db, result) ==
  /\ result.stored =
       IF \/ st = "NULL" \/ (st = "not connected" /\ ~db.connects)
          \/ ~db.inserts
          \/ source = "empty" \/ bytes = <<>>
          \/ garbage # NoDigit
       THEN <<>> ELSE <<[source |-> source, data |-> bytes]>>
  /\ st = "connected" => result.st = st

(* From bin_print to the database: if the message fits base64_buff,        *)
(* do_parse stores exactly the frame that was captured, whatever its length*)
(* is modulo 3, and drops it for these reasons only: no thread, no         *)
(* connection to the database or a refused insert; no MAC address (the     *)
(* reload of ConfigReload), no bytes, or a digit behind the number in      *)
(* getIntProperty's uninitialised buffer.  A connection is lost with none  *)
(* of them.                                                                *)
StoredExactly ==
  input.kind = "capture" =>
    \A source \in Sources, utime \in 1..6 :
      LET sent == bin_print(source, utime, input.bytes) IN
        sent.overrun \/
        \A garbage \in 0..NoDigit, st \in Threads, db \in Databases :
          RightResult(source, input.bytes, garbage, st, db,
                      do_parse(sent.msg, garbage, st, db))

(* The message fits the 1024 bytes of base64_buff for every frame of up to *)
(* 705 bytes and for none above 723; in between it depends on the digits   *)
(* of the microseconds and on the MAC address being there.  Neither        *)
(* bin_print nor the snapshot length in main (BUFSIZ) keeps frames that    *)
(* short.                                                                  *)
MessageFits ==
  input.kind = "size" =>
    LET n == input.caplen IN
      \A source \in Sources, utime \in 1..6 :
        Footprint(source, n, utime) <= 1024 <=>
          IF source = "empty"
          THEN n <= 717 \/ (n <= 720 /\ utime < 6) \/ (n <= 723 /\ utime = 1)
          ELSE n <= 705 \/ (n <= 708 /\ utime < 5)

(* The two programs agree on what is captured: the frames that filter lets *)
(* through are those that parse80211 calls probe requests or null data, and*)
(* it reads the station that sent one where 802.11 puts it, behind frame   *)
(* control, duration and the first address.                                *)
FilterIsNamed ==
  input.kind = "frame" /\ input.len > 0 =>
    LET named == parse80211(input.fc0, input.fc1, input.len) IN
      /\ filter(input.fc0) <=> <<named.type, named.subtype>> \in
           {<<"Management", "Probe request">>, <<"Data", "Null (no data)">>}
      /\ filter(input.fc0) /\ input.len > 2 + 2 + 6 =>
           named.mac_addr[2] = 2 + 2 + 6

(* The only radiotap value the server stores, the antenna signal, is read  *)
(* where the format puts it unless the guess about the zero word is wrong, *)
(* or exactly one of flags and rate stands before the channel: the parser  *)
(* does not align.                                                         *)
SignalRight ==
  input.kind = "radiotap" /\ "AntennaSignal" \in input.present =>
    LET odd == ("Flags" \in input.present) # ("Rate" \in input.present)
        misaligned == "Channel" \in input.present /\ odd
        guessed == input.zero = NeedsZeroWord(input)
    IN parseRadioHeader(input).AntennaSignal = WrittenAt(input, "AntennaSignal")
         <=> guessed /\ ~misaligned

(* A text in which four digits stand behind every \u never makes           *)
(* cJSON_Parse write behind the memory of a string, though a \u becomes    *)
(* other bytes than were counted, and it is taken exactly if it begins with*)
(* a value of JSON, with parse_number's numbers for JSON's, or if it is one*)
(* thing more: a string at the top that is never closed.  Checked on       *)
(* documents and on everything one symbol, or a cut, away from them.       *)
ParsedIffDocument ==
  input.kind = "text" =>
    \A s \in Edits(input.text) : WellEscaped(s) =>
      /\ cJSON_Parse(s).item.type # "overrun"
      /\ cJSON_Parse(s).end # 0 <=>
           \/ \E n \in 1..Len(s) : Grammar(s)["value"][1][n]
           \/ \E n \in 0..Len(s) : Blanks(s, 1, n) /\ IsUnclosed(After(s, n))

(* What the look-up has to say of a word, when these are all strings.      *)
Answer(entries, word) ==
  LET listed == {i \in DOMAIN entries :
                   \A j \in 1..i : entries[j] # String(<<>>)}
      hits == {i \in listed : entries[i] \in {String(word), String(<<Long>>)}}
  IN IF hits = {} THEN "absent"
     ELSE IF entries[Least(hits)] = String(word) THEN "found"
     ELSE "overflow"

(* What a configuration made of these entries has to be.                   *)
Lists(config, entries) ==
  IF \E i \in DOMAIN entries : entries[i] = <<Literal>>
  THEN config.outcome = "null pointer"
  ELSE /\ config.outcome = "loaded"
       /\ \A word \in {<<"a">>, <<"b">>} :
            in_config(config.filter_subtype, word) = Answer(entries, word)
       /\ in_config(config.mac, <<"b">>) = "found"

(* initConfig reads a whole file, in memory that has no zero behind it     *)
(* (utils.c:277), the same whatever follows: a word is then found exactly  *)
(* if it is listed before any empty string and any word of thirty          *)
(* characters, which overflows buff, and the walk stays in the list; an    *)
(* entry that is no string kills the process.  A file that is cut short,   *)
(* with a zero behind it, changes nothing.                                 *)
ListedIsFound ==
  input.kind = "config" =>
    LET file == File(input.entries) IN
       /\ \A rest \in Leftovers : Lists(initConfig(file \o rest), input.entries)
       /\ \A n \in 0..(Len(file) - 1) :
            initConfig(SubSeq(file, 1, n)).outcome = "invalid"

=============================================================================
