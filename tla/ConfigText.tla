----------------------------- MODULE ConfigText -----------------------------
(***************************************************************************)
(* The text of the configuration on its way from memory through cJSON.c    *)
(* into my_config (utils.c): the parser, the two string lists that         *)
(* initConfig fills, and the functions that look a word up in them.        *)
(*                                                                         *)
(* Memory is a sequence of symbols with zeros behind it; a position is an  *)
(* index, and 0 the null pointer.  One symbol stands for a literal or a    *)
(* number, one for a key of the configuration, any other for one character;*)
(* \n and its like stand for the symbol behind the backslash.  The look-up *)
(* has no caller at present (utils.c:329, 344), it is modelled as it       *)
(* stands.                                                                 *)
(***************************************************************************)
EXTENDS Naturals, Sequences, SequencesExt

NUL == "NUL"
Quote == "\""
Backslash == "\\"
Blank == " "
Unicode == "u"
Literal == "null"
OpenArray == "["
CloseArray == "]"
OpenObject == "{"
CloseObject == "}"
Comma == ","
Colon == ":"

(* What parse_number takes for a number and JSON does not: a lone '-', an  *)
(* exponent without digits, a zero in front.                               *)
Digitless == "-"
Scalars == {Literal, Digitless}

(* some hexadecimal digits, and a byte of an encoded character             *)
HexDigits == {"0", "8", "c", "d"}
HexValue(c) == CASE c = "0" -> 0 [] c = "8" -> 8 [] c = "c" -> 12 [] c = "d" -> 13
Byte == "byte"

(* a word of thirty characters                                             *)
Long == "long"

At(m, p) == IF p <= Len(m) THEN m[p] ELSE NUL

(* cJSON_New_Item; an item is its type, its name in an object, its string  *)
(* and its children in order.  NoItem is the null pointer, which the       *)
(* accessors take for an item without children.                            *)
New_Item(type) ==
  [type |-> type, string |-> <<>>, valuestring |-> <<>>, child |-> <<>>]
NoItem == New_Item("none")

Failed == [end |-> 0, item |-> NoItem]

(* The heap is written behind a string's memory: nothing is said of what   *)
(* the program does then.                                                  *)
Overrun == [end |-> 0, item |-> New_Item("overrun")]

(* the first of a set of positions                                         *)
Least(positions) == CHOOSE p \in positions : \A q \in positions : p <= q

skip(m, p) == Least({q \in p..(Len(m) + p + 1) : At(m, q) # Blank})

(* four digits, or 0                                                       *)
parse_hex4(m, p) ==
  IF \A i \in 0..3 : At(m, p + i) \in HexDigits
  THEN 4096 * HexValue(At(m, p)) + 256 * HexValue(At(m, p + 1))
       + 16 * HexValue(At(m, p + 2)) + HexValue(At(m, p + 3))
  ELSE 0

HighHalf == 55296..56319
LowHalf == 56320..57343

(* What the u at q stands for, and where the loop goes on: it skips four   *)
(* symbols, or ten, without looking at what they are.                      *)
Encoded(m, q) ==
  LET uc == parse_hex4(m, q + 1)
      paired == At(m, q + 5) = Backslash /\ At(m, q + 6) = Unicode
      valid == parse_hex4(m, q + 7) \in LowHalf
      length == IF uc = 0 \/ uc \in LowHalf THEN 0
                ELSE IF uc \in HighHalf THEN IF paired /\ valid THEN 4 ELSE 0
                ELSE IF uc < 128 THEN 1 ELSE IF uc < 2048 THEN 2 ELSE 3
  IN [next |-> IF uc \in HighHalf /\ paired THEN q + 11 ELSE q + 5,
      text |-> [i \in 1..length |-> Byte]]

(* The two loops of parse_string go over a string by different steps.  What*)
(* stands behind a backslash is taken as it is, a zero too.                *)
Step(m, q, loop) ==
  IF At(m, q) # Backslash THEN [next |-> q + 1, text |-> <<At(m, q)>>]
  ELSE IF loop = "copy" /\ At(m, q + 1) = Unicode THEN Encoded(m, q + 1)
  ELSE [next |-> q + 2, text |-> <<At(m, q + 1)>>]

(* The string from p to the quote or the zero where the loop ends.         *)
Walk(m, p, loop) ==
  LET from[q \in p..(Len(m) + p + 5)] ==
        IF At(m, q) \in {Quote, NUL} THEN [end |-> q, text |-> <<>>]
        ELSE [from[Step(m, q, loop).next] EXCEPT
                !.text = Step(m, q, loop).text \o @]
  IN from[p]

(* the C string that begins with the i-th symbol                           *)
CString(s, i) ==
  SubSeq(s, i, Least({j \in i..(Len(s) + i) : At(s, j) = NUL}) - 1)

(* the first loop counts what the memory is allocated for                  *)
parse_string(m, p) ==
  LET counted == Len(Walk(m, p + 1, "count").text)
      str == Walk(m, p + 1, "copy")
  IN IF At(m, p) # Quote THEN Failed
     ELSE IF Len(str.text) > counted THEN Overrun
     ELSE [end |-> IF At(m, str.end) = Quote THEN str.end + 1 ELSE str.end,
           item |-> [New_Item("string") EXCEPT
                       !.valuestring = CString(str.text, 1)]]

-----------------------------------------------------------------------------
(* The parser is one function of what is expected at a position: a value,  *)
(* or members up to a closing bracket.  The operators below are its parts, *)
(* and take it as their first argument.                                    *)

(* one "name": value of an object                                          *)
NamedValue(parse, m, name) ==
  LET colon == skip(m, name.end)
  IN IF name.end = 0 THEN name
     ELSE IF At(m, colon) # Colon THEN Failed
     ELSE [parse["value"][skip(m, colon + 1)] EXCEPT
             !.item.string = name.item.valuestring]
Pair(parse, m, p) == NamedValue(parse, m, parse_string(m, p))

Member(parse, m, p, close) ==
  IF close = CloseObject THEN Pair(parse, m, p) ELSE parse["value"][p]

(* Faulty variant of Continued: a comma may stand before the bracket       *)
ContinuedLax(parse, m, first, close) ==
  LET next == skip(m, first.end)
      last == skip(m, next + 1)
      list == [New_Item("list") EXCEPT !.child = <<first.item>>]
  IN IF first.end = 0 THEN first
     ELSE IF At(m, next) = close THEN [end |-> next + 1, item |-> list]
     ELSE IF At(m, next) # Comma THEN Failed
     ELSE IF At(m, last) = close THEN [end |-> last + 1, item |-> list]
     ELSE [parse[close][next + 1] EXCEPT !.item.child = <<first.item>> \o @]

(* behind the first member the list is closed, or a comma and the next are *)
Continued(parse, m, first, close) ==
  LET next == skip(m, first.end)
  IN IF first.end = 0 THEN first
     ELSE IF At(m, next) = close
     THEN [end |-> next + 1,
           item |-> [New_Item("list") EXCEPT !.child = <<first.item>>]]
     ELSE IF At(m, next) # Comma THEN Failed
     ELSE [parse[close][next + 1] EXCEPT !.item.child = <<first.item>> \o @]

(* The loops of parse_array and parse_object differ in their members only. *)
Members(parse, m, p, close) ==
  Continued(parse, m, Member(parse, m, skip(m, p), close), close)

parse_members(parse, m, p, type, close) ==
  LET q == skip(m, p + 1)
      list == parse[close][q]
  IN IF At(m, q) = close THEN [end |-> q + 1, item |-> New_Item(type)]
     ELSE IF list.end = 0 THEN list
     ELSE [list EXCEPT !.item.type = type]

parse_array(parse, m, p) ==
  parse_members(parse, m, p, "array", CloseArray)
parse_object(parse, m, p) ==
  parse_members(parse, m, p, "object", CloseObject)

parse_value(parse, m, p) ==
  CASE At(m, p) \in Scalars -> [end |-> p + 1, item |-> New_Item("literal")]
    [] At(m, p) = Quote -> parse_string(m, p)
    [] At(m, p) = OpenArray -> parse_array(parse, m, p)
    [] At(m, p) = OpenObject -> parse_object(parse, m, p)
    [] OTHER -> Failed

(* A string may end two positions behind the text.                         *)
Parser(m) ==
  LET parse[what \in {"value", CloseArray, CloseObject}] ==
        [p \in 1..(Len(m) + 4) |->
           IF what = "value" THEN parse_value(parse, m, p)
           ELSE Members(parse, m, p, what)]
  IN parse

(* what stands behind the value is not looked at                           *)
cJSON_Parse(m) == Parser(m)["value"][skip(m, 1)]

-----------------------------------------------------------------------------
(* initConfig and the look-up.                                             *)

(* the one word of the model that is written in two cases                  *)
tolower(name) ==
  [i \in DOMAIN name |-> IF name[i] = "SUBTYPE" THEN "subtype" ELSE name[i]]

cJSON_GetObjectItem(object, string) ==
  LET hits == {i \in DOMAIN object.child :
                 tolower(object.child[i].string) = string}
  IN IF hits = {} THEN NoItem ELSE object.child[Least(hits)]

(* Faulty variant of StringList: two bytes less                            *)
StringListTight(list) ==
  FlattenSeq([i \in DOMAIN list.child |-> list.child[i].valuestring
                                           \o (IF i = 1 THEN <<>> ELSE <<NUL>>)])

(* the strings one after the other, each with its zero, and two more       *)
StringList(list) ==
  FlattenSeq([i \in DOMAIN list.child |-> list.child[i].valuestring \o <<NUL>>])
  \o <<NUL, NUL>>

(* strlen of an item that is no string reads the null pointer              *)
Reads(list) == \A i \in DOMAIN list.child : list.child[i].type = "string"

Load(json) ==
  LET subtype == cJSON_GetObjectItem(
                   cJSON_GetObjectItem(json.item, <<"filter">>), <<"subtype">>)
      mac == cJSON_GetObjectItem(json.item, <<"mac">>)
  IN IF json.item.type = "overrun" THEN [outcome |-> "overrun"]
     ELSE IF json.end = 0 THEN [outcome |-> "invalid"]
     ELSE IF ~(Reads(subtype) /\ Reads(mac)) THEN [outcome |-> "null pointer"]
     ELSE [outcome |-> "loaded", filter_subtype |-> StringList(subtype),
           mac |-> StringList(mac)]

initConfig(m) == Load(cJSON_Parse(m))

(* strcpy into buff does not know that it has thirty bytes                 *)
TooLong(entry) ==
  Len(entry) >= 30 \/ \E i \in DOMAIN entry : entry[i] = Long

(* subtype_in_config_filter and mac_in_config, from position p: is the     *)
(* word found, and does the walk stay in the buffer, and an entry in buff? *)
Lookup(buffer, word) ==
  LET from[p \in 1..(Len(buffer) + 2)] ==
        IF p > Len(buffer) THEN "outside"
        ELSE LET entry == CString(buffer, p) IN
               IF entry = <<>> THEN "absent"
               ELSE IF TooLong(entry) THEN "overflow"
               ELSE IF entry = word THEN "found"
               ELSE from[p + Len(entry) + 1]
  IN from

in_config(buffer, word) == Lookup(buffer, word)[1]

-----------------------------------------------------------------------------
(* The grammar, independently of the parser: which parts i..j of a text    *)
(* are values, or lists of values or of pairs, by the ways to cut them up. *)
(* It is that of JSON but for the numbers, which are those of parse_number.*)

Before(s, i) == SubSeq(s, 1, i - 1)
After(s, i) == SubSeq(s, i + 1, Len(s))
Blanks(s, i, j) == \A k \in i..j : s[k] = Blank

(* The quotes that are not taken as they are because of a backslash.       *)
OpenQuotes(s) ==
  LET escaped[i \in 0..Len(s)] ==
        i > 1 /\ s[i - 1] = Backslash /\ ~escaped[i - 1]
  IN {i \in DOMAIN s : s[i] = Quote /\ ~escaped[i]}

(* Four digits stand behind every \u.                                      *)
WellEscaped(s) ==
  \A i \in 2..Len(s) :
    s[i - 1] = Backslash /\ s[i] = Unicode =>
      i + 4 <= Len(s) /\ \A k \in i + 1..i + 4 : s[k] \in HexDigits

(* a string, and one that is never closed                                  *)
IsString(s) ==
  Len(s) > 1 /\ s[1] = Quote /\ s[Len(s)] = Quote /\ OpenQuotes(s) = {1, Len(s)}
IsUnclosed(s) == s # <<>> /\ s[1] = Quote /\ OpenQuotes(s) = {1}

Bracketed(is, s, i, j, open, close, list) ==
  /\ i < j /\ s[i] = open /\ s[j] = close
  /\ Blanks(s, i + 1, j - 1) \/ is[list][i + 1][j - 1]

IsValue(is, s, i, j) ==
  IF s[i] = Blank THEN is["value"][i + 1][j]
  ELSE IF s[j] = Blank THEN is["value"][i][j - 1]
  ELSE \/ i = j /\ s[i] \in Scalars
       \/ IsString(SubSeq(s, i, j))
       \/ Bracketed(is, s, i, j, OpenArray, CloseArray, "values")
       \/ Bracketed(is, s, i, j, OpenObject, CloseObject, "pairs")

IsPair(is, s, i, j) ==
  \E k \in {k \in i..j : s[k] = Colon} :
    /\ \E a \in i..k, b \in i..(k - 1) :
         /\ Blanks(s, i, a - 1) /\ Blanks(s, b + 1, k - 1)
         /\ IsString(SubSeq(s, a, b))
    /\ is["value"][k + 1][j]

IsList(is, s, what, i, j, one) ==
  \/ is[one][i][j]
  \/ \E k \in {k \in i..j : s[k] = Comma} :
       is[one][i][k - 1] /\ is[what][k + 1][j]

Grammar(s) ==
  LET is[what \in {"value", "pair", "values", "pairs"}] ==
        [i \in 1..(Len(s) + 1) |-> [j \in 0..Len(s) |->
          i <= j /\
            CASE what = "value" -> IsValue(is, s, i, j)
              [] what = "pair" -> IsPair(is, s, i, j)
              [] what = "values" -> IsList(is, s, what, i, j, "value")
              [] what = "pairs" -> IsList(is, s, what, i, j, "pair")]]
  IN is

=============================================================================
