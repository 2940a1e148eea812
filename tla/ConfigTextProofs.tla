-------------------------- MODULE ConfigTextProofs ---------------------------
(***************************************************************************)
(* Proofs about ConfigText, for every text without a zero in it: the       *)
(* parser and the grammar are functions that are defined on every text,    *)
(* what the parser takes is in the grammar and what is in the grammar it   *)
(* takes (ParsedIff), and what is found in a list of strings (InList).     *)
(* The lemmas about parts of a configuration file are for CodecsProofs.    *)
(***************************************************************************)
EXTENDS ConfigText, Induction

-----------------------------------------------------------------------------
(* Texts, and positions in them.                                           *)

Chars(m) == {m[p] : p \in 1..Len(m)} \cup {NUL}
IsText(m) ==
  m \in Seq(Chars(m)) /\ (\A p \in 1..Len(m) : m[p] # NUL) /\ WellEscaped(m)

(* A text has a length.                                                    *)
LEMMA LenIs ==
  ASSUME NEW m, IsText(m)
  PROVE  Len(m) \in Nat
BY DEF IsText

(* The symbols that the parser looks for are different.                    *)
LEMMA SymbolsDiffer ==
  /\ Quote \notin {Backslash, Blank, NUL}
  /\ Backslash \notin {Blank, NUL} /\ Blank # NUL
  /\ {Quote, Backslash, Blank, NUL}
       \cap {OpenArray, CloseArray, OpenObject, CloseObject, Comma, Colon} = {}
  /\ Scalars \cap {Quote, Backslash, Blank, NUL, OpenArray, CloseArray,
                   OpenObject, CloseObject, Comma, Colon} = {}
  /\ OpenArray \notin {CloseArray, OpenObject, CloseObject, Comma, Colon}
  /\ CloseArray \notin {OpenObject, CloseObject, Comma, Colon}
  /\ OpenObject \notin {CloseObject, Comma, Colon}
  /\ CloseObject \notin {Comma, Colon} /\ Comma # Colon
BY DEF Quote, Backslash, Blank, Literal, Digitless, Scalars, NUL, OpenArray,
     CloseArray, OpenObject, CloseObject, Comma, Colon

(* the symbol at a position, or the zero behind the text                   *)
LEMMA AtIs ==
  ASSUME NEW m, IsText(m), NEW p \in Nat \ {0}
  PROVE  /\ Len(m) \in Nat
         /\ At(m, p) = NUL <=> p > Len(m)
         /\ p <= Len(m) => At(m, p) = m[p]
         /\ At(m, p) \in Chars(m)
<1>1. Len(m) \in Nat
  BY DEF IsText
<1>2. CASE p <= Len(m)
  <2>1. p \in 1..Len(m)
    BY <1>1, <1>2
  <2>2. m[p] # NUL /\ m[p] \in Chars(m)
    BY <2>1 DEF IsText, Chars
  <2> QED
    BY <1>1, <1>2, <2>2 DEF At
<1>3. CASE p > Len(m)
  <2>1. At(m, p) = NUL
    BY <1>1, <1>3 DEF At
  <2>2. NUL \in Chars(m)
    BY DEF Chars
  <2> QED
    BY <1>1, <1>3, <2>1, <2>2
<1> QED
  BY <1>1, <1>2, <1>3

(* Where there is a symbol other than the zero, the text has not ended.    *)
LEMMA InText ==
  ASSUME NEW m, IsText(m), NEW p \in Nat \ {0}, At(m, p) # NUL
  PROVE  p \in 1..Len(m) /\ Len(m) \in Nat
BY AtIs

(* A set of positions has a first one.                                     *)
LEMMA LeastIs ==
  ASSUME NEW S, S \subseteq Nat, S # {}
  PROVE  Least(S) \in S /\ \A q \in S : Least(S) <= q
<1>1. \E p \in S : \A q \in S : p <= q
  BY LeastNumber
<1> QED
  BY <1>1 DEF Least

(* skip(m, p) is the first position from p on that is not blank.           *)
Skips(m, p, q) ==
  /\ q \in Nat /\ p <= q /\ At(m, q) # Blank
  /\ \A r \in p..q - 1 : At(m, r) = Blank

(* skip finds that position, within the text or just behind it.            *)
LEMMA SkipIs ==
  ASSUME NEW m, IsText(m), NEW p \in Nat \ {0}
  PROVE  /\ Skips(m, p, skip(m, p))
         /\ skip(m, p) \in Nat \ {0}
         /\ p <= skip(m, p) /\ At(m, skip(m, p)) # Blank
         /\ p <= Len(m) + 1 => skip(m, p) <= Len(m) + 1
         /\ p > Len(m) => skip(m, p) = p
         /\ skip(m, p) = p <=> At(m, p) # Blank
<1> DEFINE S == {q \in p..(Len(m) + p + 1) : At(m, q) # Blank}
           q == Least(S)
<1>1. Len(m) \in Nat /\ S \subseteq Nat
  BY AtIs
<1>2. \A r \in Nat \ {0} : r > Len(m) => At(m, r) # Blank
  BY AtIs, SymbolsDiffer
<1>3. S # {}
  <2>1. Len(m) + p + 1 \in S
    BY <1>1, <1>2
  <2> QED
    BY <2>1
<1>4. q \in S /\ \A r \in S : q <= r
  <2> HIDE DEF S
  <2> QED
    BY <1>1, <1>3, LeastIs
<1>5. skip(m, p) = q
  BY DEF skip
<1>6. q \in Nat \ {0} /\ p <= q /\ q <= Len(m) + p + 1 /\ At(m, q) # Blank
  BY <1>1, <1>4
<1>7. \A r \in p..q - 1 : At(m, r) = Blank
  BY <1>1, <1>4, <1>6
<1>8. p <= Len(m) + 1 => q <= Len(m) + 1
  BY <1>1, <1>2, <1>6, <1>7
<1>9. p > Len(m) => q = p
  BY <1>1, <1>2, <1>6, <1>7
<1>10. q = p <=> At(m, p) # Blank
  BY <1>6, <1>7
<1> HIDE DEF q
<1> QED
  BY <1>5, <1>6, <1>7, <1>8, <1>9, <1>10 DEF Skips

(* There is only one such position.                                        *)
LEMMA SkipUnique ==
  ASSUME NEW m, IsText(m), NEW p \in Nat \ {0}, NEW q, Skips(m, p, q)
  PROVE  skip(m, p) = q
<1>1. PICK r \in Nat : r = skip(m, p) /\ Skips(m, p, r)
  BY SkipIs
<1>2. q \in Nat /\ ~(q < r) /\ ~(r < q)
  BY <1>1 DEF Skips
<1> QED
  BY <1>1, <1>2

(* Blanks before a position change nothing.                                *)
LEMMA SkipBlanks ==
  ASSUME NEW m, IsText(m), NEW p \in Nat \ {0}, NEW q \in Nat, p <= q,
         \A r \in p..q - 1 : At(m, r) = Blank
  PROVE  skip(m, p) = skip(m, q)
<1>1. PICK s \in Nat : s = skip(m, q) /\ Skips(m, q, s)
  BY SkipIs
<1>2. Skips(m, p, s)
  BY <1>1 DEF Skips
<1> QED
  BY <1>1, <1>2, SkipUnique

(* To skip again changes nothing.                                          *)
LEMMA SkipTwice ==
  ASSUME NEW m, IsText(m), NEW p \in Nat \ {0}
  PROVE  skip(m, skip(m, p)) = skip(m, p)
BY SkipIs

-----------------------------------------------------------------------------
(* Strings.                                                                *)

Loops == {"count", "copy"}
Counted(m, p) == Walk(m, p, "count")
Copied(m, p) == Walk(m, p, "copy")

(* the string from q when that from behind q is known                      *)
Longer(m, q, loop, rest) ==
  [end |-> rest.end, text |-> Step(m, q, loop).text \o rest.text]

Symbol(m) == Chars(m) \cup {Byte}
Strings(m) == [end : Nat, text : Seq(Symbol(m))]

IsWalk(m, loop, g) ==
  /\ g \in [1..Len(m) + 5 -> Strings(m)]
  /\ \A q \in 1..Len(m) + 5 :
       g[q] = IF At(m, q) \in {Quote, NUL} THEN [end |-> q, text |-> <<>>]
              ELSE Longer(m, q, loop, g[Step(m, q, loop).next])

(* The bytes of an escaped character, and where the copy goes on.          *)
LEMMA EncodedIs ==
  ASSUME NEW m, NEW q \in Nat
  PROVE  \E n \in 0..4 :
           /\ Encoded(m, q).text = [i \in 1..n |-> Byte]
           /\ \/ Encoded(m, q).next = q + 5
              \/ /\ Encoded(m, q).next = q + 11
                 /\ At(m, q + 5) = Backslash /\ At(m, q + 6) = Unicode
<1> DEFINE uc == parse_hex4(m, q + 1)
           paired == At(m, q + 5) = Backslash /\ At(m, q + 6) = Unicode
           valid == parse_hex4(m, q + 7) \in LowHalf
           length == IF uc = 0 \/ uc \in LowHalf THEN 0
                     ELSE IF uc \in HighHalf THEN IF paired /\ valid THEN 4 ELSE 0
                     ELSE IF uc < 128 THEN 1 ELSE IF uc < 2048 THEN 2 ELSE 3
           next == IF uc \in HighHalf /\ paired THEN q + 11 ELSE q + 5
<1>1. Encoded(m, q) = [next |-> next, text |-> [i \in 1..length |-> Byte]]
  BY Zenon DEF Encoded
<1>2. length \in 0..4
  <2> HIDE DEF uc, paired, valid
  <2> QED
    OBVIOUS
<1>3. next = q + 5 \/ (next = q + 11 /\ paired)
  <2> HIDE DEF uc, paired
  <2> QED
    OBVIOUS
<1>4. PICK l, n, text : /\ l \in 0..4 /\ l = length /\ n = next
                                 /\ text = [i \in 1..l |-> Byte]
  <2> HIDE DEF length, next
  <2> QED
    BY <1>2
<1>5. Encoded(m, q).next = n /\ Encoded(m, q).text = text
  <2>1. Encoded(m, q) = [next |-> n, text |-> text]
    <3> HIDE DEF length, next
    <3> QED
      BY <1>1, <1>4
  <2> QED
    BY <2>1
<1> HIDE DEF length, next, uc, valid
<1> QED
  BY <1>3, <1>4, <1>5

(* These bytes are symbols.                                                *)
LEMMA BytesAre ==
  ASSUME NEW m, NEW n \in 0..4
  PROVE  /\ [i \in 1..n |-> Byte] \in Seq(Symbol(m))
         /\ Len([i \in 1..n |-> Byte]) = n
BY DEF Symbol

(* A step goes forward, and not farther than five behind the text, or two  *)
(* when it only counts.                                                    *)
LEMMA StepIs ==
  ASSUME NEW m, IsText(m), NEW loop \in Loops, NEW q \in Nat \ {0},
         At(m, q) \notin {Quote, NUL}
  PROVE  /\ q \in 1..Len(m) /\ Len(m) \in Nat
         /\ Step(m, q, loop).next \in q + 1..Len(m) + 5
         /\ Step(m, q, loop).text \in Seq(Symbol(m))
         /\ (loop = "count" \/ At(m, q) # Backslash \/ At(m, q + 1) # Unicode) =>
              /\ Step(m, q, loop).next
                   = IF At(m, q) = Backslash THEN q + 2 ELSE q + 1
              /\ Len(Step(m, q, loop).text) = 1
         /\ (loop = "copy" /\ At(m, q) = Backslash /\ At(m, q + 1) = Unicode) =>
              Step(m, q, loop) = Encoded(m, q + 1)
<1>1. q \in 1..Len(m) /\ Len(m) \in Nat
  BY InText
<1>2. At(m, q) \in Symbol(m) /\ At(m, q + 1) \in Symbol(m)
  BY AtIs DEF Symbol
<1>3. \A c \in Symbol(m) : <<c>> \in Seq(Symbol(m)) /\ Len(<<c>>) = 1
  OBVIOUS
<1>4. CASE loop = "copy" /\ At(m, q) = Backslash /\ At(m, q + 1) = Unicode
  <2>1. Step(m, q, loop) = Encoded(m, q + 1)
    BY <1>4 DEF Step
  <2>2. Unicode # NUL
    BY DEF Unicode, NUL
  <2>3. q + 1 <= Len(m)
    <3>1. q + 1 \in Nat \ {0} /\ At(m, q + 1) # NUL
      BY <1>1, <1>4, <2>2
    <3> QED
      BY <3>1, InText
  <2>4. PICK next : \E n \in 0..4 :
          /\ next = Encoded(m, q + 1).next
          /\ Encoded(m, q + 1).text = [i \in 1..n |-> Byte]
          /\ \/ next = q + 1 + 5
             \/ /\ next = q + 1 + 11
                /\ At(m, q + 1 + 5) = Backslash /\ At(m, q + 1 + 6) = Unicode
    <3>1. q + 1 \in Nat
      OBVIOUS
    <3> QED
      BY <3>1, EncodedIs, Zenon
  <2>5. At(m, q + 1 + 6) = Unicode => q + 7 <= Len(m)
    <3>1. q + 1 + 6 \in Nat \ {0} /\ q + 1 + 6 = q + 7
      BY <1>1
    <3> QED
      BY <2>2, <3>1, InText
  <2>6. next \in q + 1..Len(m) + 5
    BY <1>1, <2>3, <2>4, <2>5
  <2>7. Encoded(m, q + 1).text \in Seq(Symbol(m))
    BY <2>4, BytesAre, Zenon
  <2> QED
    BY <1>1, <1>4, <2>1, <2>4, <2>6, <2>7
<1>5. CASE ~(loop = "copy" /\ At(m, q) = Backslash /\ At(m, q + 1) = Unicode)
  <2>1. PICK n, c : /\ Step(m, q, loop) = [next |-> n, text |-> <<c>>]
                    /\ n = IF At(m, q) = Backslash THEN q + 2 ELSE q + 1
                    /\ c \in Symbol(m)
    BY <1>2, <1>5 DEF Step
  <2>2. n \in q + 1..Len(m) + 5
    BY <1>1, <2>1
  <2> QED
    BY <1>1, <1>3, <1>5, <2>1, <2>2
<1> QED
  BY <1>4, <1>5

(* More symbols in front of a string.                                      *)
LEMMA LongerType ==
  ASSUME NEW m, NEW q, NEW loop, NEW rest \in Strings(m),
         Step(m, q, loop).text \in Seq(Symbol(m))
  PROVE  Longer(m, q, loop, rest) \in Strings(m)
<1>1. rest.end \in Nat /\ rest.text \in Seq(Symbol(m))
  BY DEF Strings
<1>2. PICK more : more = Step(m, q, loop).text \o rest.text
  OBVIOUS
<1>3. more \in Seq(Symbol(m))
  BY <1>1, <1>2, ConcatProperties
<1>4. Longer(m, q, loop, rest) = [end |-> rest.end, text |-> more]
  BY <1>2 DEF Longer
<1> QED
  BY <1>1, <1>3, <1>4 DEF Strings

(* The walk from every position is defined, beginning behind the text.     *)
LEMMA WalkExists ==
  ASSUME NEW m, IsText(m), NEW loop \in Loops
  PROVE  \E g : IsWalk(m, loop, g)
<1> DEFINE N == Len(m)
           Body(g, q) == IF At(m, q) \in {Quote, NUL}
                         THEN [end |-> q, text |-> <<>>]
                         ELSE Longer(m, q, loop, g[Step(m, q, loop).next])
           Right(g, n) ==
             /\ g \in [1..N + 5 -> Strings(m)]
             /\ \A q \in 1..N + 5 : N + 5 < q + n => g[q] = Body(g, q)
           T == {n \in Nat : \E g : Right(g, n)}
<1>1. N \in Nat
  BY DEF IsText
<1>2. 0 \in T
  <2>1. PICK s : s = [end |-> 0, text |-> <<>>]
    OBVIOUS
  <2>2. s \in Strings(m)
    BY <2>1 DEF Strings
  <2>3. Right([q \in 1..N + 5 |-> s], 0)
    BY <1>1, <2>2
  <2> QED
    BY <2>3
<1>3. ASSUME NEW n \in Nat, n \in T PROVE n + 1 \in T
  <2>1. PICK g : Right(g, n)
    BY <1>3
  <2>2. CASE n >= N + 5
    <3>1. Right(g, n + 1)
      BY <1>1, <2>1, <2>2
    <3> QED
      BY <3>1
  <2>3. CASE n < N + 5
    <3>1. PICK p \in 1..N + 5 : p = N + 5 - n
      BY <1>1, <2>3
    <3>2. PICK b : b = Body(g, p)
      OBVIOUS
    <3>3. b \in Strings(m)
      <4>1. CASE At(m, p) \in {Quote, NUL}
        BY <3>2, <4>1 DEF Strings
      <4>2. CASE At(m, p) \notin {Quote, NUL}
        <5>1. PICK n1 : n1 = Step(m, p, loop).next
          OBVIOUS
        <5>2. n1 \in 1..N + 5 /\ Step(m, p, loop).text \in Seq(Symbol(m))
          <6>1. p \in Nat \ {0}
            BY <1>1
          <6>2. n1 \in p + 1..N + 5
            BY <4>2, <5>1, <6>1, StepIs
          <6> QED
            BY <1>1, <4>2, <6>1, <6>2, StepIs
        <5>3. g[n1] \in Strings(m)
          BY <2>1, <5>2
        <5> QED
          BY <3>2, <4>2, <5>1, <5>2, <5>3, LongerType
      <4> QED
        BY <4>1, <4>2
    <3>4. PICK h : h = [g EXCEPT ![p] = b]
      OBVIOUS
    <3>5. /\ h \in [1..N + 5 -> Strings(m)] /\ h[p] = b
          /\ \A q \in 1..N + 5 : q # p => h[q] = g[q]
      BY <2>1, <3>3, <3>4
    <3>6. ASSUME NEW q \in 1..N + 5, N + 5 < q + (n + 1)
          PROVE  h[q] = Body(h, q)
      <4>1. p <= q
        BY <1>1, <3>1, <3>6
      <4>2. Body(h, q) = Body(g, q)
        <5>1. CASE At(m, q) \in {Quote, NUL}
          BY <5>1
        <5>2. CASE At(m, q) \notin {Quote, NUL}
          <6>1. PICK n1 : n1 = Step(m, q, loop).next
            OBVIOUS
          <6>2. n1 \in q + 1..N + 5
            BY <1>1, <5>2, <6>1, StepIs
          <6>3. n1 \in 1..N + 5 /\ n1 # p
            BY <1>1, <4>1, <6>2
          <6>4. h[n1] = g[n1]
            BY <3>5, <6>3
          <6> QED
            BY <6>1, <6>4
        <5> QED
          BY <5>1, <5>2
      <4>3. CASE q = p
        BY <3>2, <3>5, <4>2, <4>3
      <4>4. CASE q # p
        <5>1. N + 5 < q + n
          BY <1>1, <3>1, <4>1, <4>4
        <5>2. g[q] = Body(g, q)
          BY <2>1, <5>1
        <5> QED
          BY <3>5, <4>2, <4>4, <5>2
      <4> QED
        BY <4>3, <4>4
    <3>7. Right(h, n + 1)
      BY <3>5, <3>6
    <3> QED
      BY <3>7
  <2> QED
    BY <1>1, <2>2, <2>3
<1>4. Nat \subseteq T
  <2> HIDE DEF T
  <2> QED
    BY <1>2, <1>3, SetInduction
<1>5. PICK g : Right(g, N + 6)
  <2>1. N + 6 \in T
    <3> HIDE DEF T
    <3> QED
      BY <1>1, <1>4
  <2> HIDE DEF Right
  <2> QED
    BY <2>1
<1>6. \A q \in 1..N + 5 : N + 5 < q + (N + 6)
  BY <1>1
<1>7. IsWalk(m, loop, g)
  BY <1>5, <1>6 DEF IsWalk
<1> QED
  BY <1>7

(* Walk is such a function, whatever position it is asked for.             *)
LEMMA WalkIsWalk ==
  ASSUME NEW m, IsText(m), NEW loop \in Loops, NEW g, IsWalk(m, loop, g),
         NEW p \in 1..Len(m) + 5
  PROVE  Walk(m, p, loop) = g[p]
<1> DEFINE N == Len(m)
           D == p..(Len(m) + p + 5)
           Body(f, q) == IF At(m, q) \in {Quote, NUL}
                         THEN [end |-> q, text |-> <<>>]
                         ELSE [f[Step(m, q, loop).next] EXCEPT
                                 !.text = Step(m, q, loop).text \o @]
           rhs(f) == [q \in D |-> Body(f, q)]
           e == [q \in D |-> IF q <= N + 5 THEN g[q]
                             ELSE [end |-> q, text |-> <<>>]]
           from == CHOOSE f : f = rhs(f)
<1>1. N \in Nat /\ D \subseteq Nat \ {0}
  BY DEF IsText
<1>2. ASSUME NEW q \in D, At(m, q) \notin {Quote, NUL}
      PROVE  \E n \in q + 1..N + 5 :
               /\ n = Step(m, q, loop).next /\ n \in D
               /\ \A f : f[n] = g[n] => Body(f, q) = g[q]
  <2>1. PICK n : n = Step(m, q, loop).next
    OBVIOUS
  <2>2. q \in Nat \ {0}
    BY <1>1
  <2>3. n \in q + 1..N + 5 /\ n \in D /\ n \in 1..N + 5 /\ q \in 1..N + 5
    <3>1. q \in 1..N /\ n \in q + 1..N + 5
      BY <1>2, <2>1, <2>2, StepIs
    <3> QED
      BY <1>1, <3>1
  <2>4. PICK rest : rest = g[n]
    OBVIOUS
  <2>5. rest \in Strings(m)
    BY <2>3, <2>4 DEF IsWalk
  <2>6. PICK more, longer : /\ more = Step(m, q, loop).text
                            /\ longer = more \o rest.text
    OBVIOUS
  <2>7. [rest EXCEPT !.text = longer] = [end |-> rest.end, text |-> longer]
    BY <2>5 DEF Strings
  <2>8. [rest EXCEPT !.text = more \o @] = [rest EXCEPT !.text = longer]
    BY <2>6, Zenon
  <2>9. \A f : Body(f, q) = [f[n] EXCEPT !.text = more \o @]
    BY <1>2, <2>1, <2>6, Zenon
  <2>10. g[q] = [end |-> rest.end, text |-> longer]
    <3>1. g[q] = Longer(m, q, loop, g[Step(m, q, loop).next])
      BY <1>2, <2>3 DEF IsWalk
    <3> QED
      BY <2>1, <2>4, <2>6, <3>1 DEF Longer
  <2>11. ASSUME NEW f, f[n] = g[n] PROVE Body(f, q) = g[q]
    <3>1. Body(f, q) = [f[n] EXCEPT !.text = more \o @]
      BY <2>9, Zenon
    <3> HIDE DEF Body
    <3> QED
      BY <2>4, <2>7, <2>8, <2>10, <2>11, <3>1, Zenon
  <2> HIDE DEF Body, D
  <2> QED
    BY <2>1, <2>3, <2>11
<1>3. ASSUME NEW q \in D
      PROVE  At(m, q) \in {Quote, NUL} => e[q] = [end |-> q, text |-> <<>>]
  BY <1>1 DEF IsWalk
<1>4. e = rhs(e)
  <2>1. ASSUME NEW q \in D PROVE e[q] = Body(e, q)
    <3>1. CASE At(m, q) \in {Quote, NUL}
      BY <1>3, <3>1
    <3>2. CASE At(m, q) \notin {Quote, NUL}
      <4>1. PICK n \in q + 1..N + 5 :
              /\ n \in D
              /\ \A f : f[n] = g[n] => Body(f, q) = g[q]
        <5> HIDE DEF Body, D
        <5> QED
          BY <1>2, <3>2
      <4>2. e[n] = g[n] /\ e[q] = g[q]
        BY <1>1, <4>1
      <4> HIDE DEF e, Body
      <4> QED
        BY <4>1, <4>2
    <3> QED
      BY <3>1, <3>2
  <2> HIDE DEF Body
  <2> QED
    BY <2>1
<1>5. from = rhs(from)
  <2> HIDE DEF rhs
  <2> QED
    BY <1>4
<1>6. Walk(m, p, loop) = from[p]
  BY DEF Walk
<1> HIDE DEF from
<1> DEFINE T == {n \in Nat : \A q \in D : q <= N + 5 /\ N + 5 < q + n
                               => from[q] = g[q]}
<1>7. 0 \in T
  BY <1>1
<1>8. ASSUME NEW k \in Nat, k \in T PROVE k + 1 \in T
  <2>1. SUFFICES ASSUME NEW q \in D, q <= N + 5, N + 5 < q + (k + 1)
                 PROVE  from[q] = g[q]
    OBVIOUS
  <2>2. from[q] = Body(from, q)
    <3> HIDE DEF Body
    <3> QED
      BY <1>5
  <2>3. CASE At(m, q) \in {Quote, NUL}
    <3>1. q \in 1..N + 5
      BY <1>1, <2>1
    <3> QED
      BY <2>2, <2>3, <3>1 DEF IsWalk
  <2>4. CASE At(m, q) \notin {Quote, NUL}
    <3>1. PICK n \in q + 1..N + 5 :
            /\ n \in D
            /\ \A f : f[n] = g[n] => Body(f, q) = g[q]
      <4> HIDE DEF Body, D
      <4> QED
        BY <1>2, <2>4
    <3>2. n <= N + 5 /\ N + 5 < n + k
      BY <1>1, <2>1, <3>1
    <3>3. from[n] = g[n]
      BY <1>8, <3>1, <3>2
    <3> HIDE DEF Body
    <3> QED
      BY <2>2, <3>1, <3>3
  <2> QED
    BY <2>3, <2>4
<1>9. Nat \subseteq T
  <2> HIDE DEF T
  <2> QED
    BY <1>7, <1>8, SetInduction
<1>10. p \in D /\ p <= N + 5 /\ N + 5 < p + (N + 6)
  BY <1>1
<1>11. N + 6 \in T
  <2> HIDE DEF T
  <2> QED
    BY <1>1, <1>9
<1>12. from[p] = g[p]
  BY <1>10, <1>11
<1> QED
  BY <1>6, <1>12

(* The string from p: it ends here, or it goes on behind p.                *)
LEMMA WalkIs ==
  ASSUME NEW m, IsText(m), NEW loop \in Loops, NEW p \in 1..Len(m) + 5
  PROVE  /\ Walk(m, p, loop) \in Strings(m)
         /\ At(m, p) \in {Quote, NUL} =>
              Walk(m, p, loop) = [end |-> p, text |-> <<>>]
         /\ At(m, p) \notin {Quote, NUL} =>
              /\ p <= Len(m) /\ Step(m, p, loop).next \in p + 1..Len(m) + 5
              /\ Walk(m, p, loop)
                   = Longer(m, p, loop, Walk(m, Step(m, p, loop).next, loop))
<1>1. PICK g : IsWalk(m, loop, g)
  BY WalkExists
<1>2. \A q \in 1..Len(m) + 5 : Walk(m, q, loop) = g[q]
  BY <1>1, WalkIsWalk
<1>3. At(m, p) \notin {Quote, NUL} =>
        p <= Len(m) /\ Step(m, p, loop).next \in p + 1..Len(m) + 5
  <2>1. p \in Nat \ {0}
    OBVIOUS
  <2> QED
    BY <2>1, StepIs
<1>4. Step(m, p, loop).next \in p + 1..Len(m) + 5 =>
        Step(m, p, loop).next \in 1..Len(m) + 5
  OBVIOUS
<1> QED
  BY <1>1, <1>2, <1>3, <1>4 DEF IsWalk

(* A step adds its symbols to what is walked behind it.                    *)
LEMMA LongerBy ==
  ASSUME NEW m, NEW loop, NEW q, NEW rest \in Strings(m),
         Step(m, q, loop).text \in Seq(Symbol(m))
  PROVE  /\ Longer(m, q, loop, rest).end = rest.end
         /\ Len(Longer(m, q, loop, rest).text)
              = Len(Step(m, q, loop).text) + Len(rest.text)
         /\ Len(rest.text) \in Nat /\ Len(Step(m, q, loop).text) \in Nat
<1>1. rest.text \in Seq(Symbol(m))
  BY DEF Strings
<1>2. PICK more, text : /\ more = Step(m, q, loop).text
                        /\ text = more \o rest.text
  OBVIOUS
<1>3. Len(text) = Len(more) + Len(rest.text) /\ Len(more) \in Nat
      /\ Len(rest.text) \in Nat
  BY <1>1, <1>2, ConcatProperties
<1>4. Longer(m, q, loop, rest) = [end |-> rest.end, text |-> text]
  BY <1>2 DEF Longer
<1> QED
  BY <1>2, <1>3, <1>4

(* where the count goes on behind position q                               *)
Behind(m, q) == IF At(m, q) = Backslash THEN q + 2 ELSE q + 1

(* The count from p: it ends here, or it goes on behind p.                 *)
LEMMA CountedIs ==
  ASSUME NEW m, IsText(m), NEW p \in 1..Len(m) + 2
  PROVE  /\ Counted(m, p) \in Strings(m) /\ Len(Counted(m, p).text) \in Nat
         /\ At(m, p) \in {Quote, NUL} =>
              Counted(m, p) = [end |-> p, text |-> <<>>]
         /\ At(m, p) \notin {Quote, NUL} =>
              /\ p <= Len(m) /\ Behind(m, p) \in p + 1..Len(m) + 2
              /\ Counted(m, p).end = Counted(m, Behind(m, p)).end
              /\ Len(Counted(m, p).text) = Len(Counted(m, Behind(m, p)).text) + 1
<1>1. "count" \in Loops /\ p \in 1..Len(m) + 5 /\ p \in Nat \ {0}
      /\ Len(m) \in Nat
  <2>1. Len(m) \in Nat
    BY LenIs
  <2> QED
    BY <2>1 DEF Loops
<1>2. /\ Counted(m, p) \in Strings(m)
      /\ At(m, p) \in {Quote, NUL} => Counted(m, p) = [end |-> p, text |-> <<>>]
  BY <1>1, WalkIs DEF Counted
<1>3. Len(Counted(m, p).text) \in Nat
  <2>1. Counted(m, p).text \in Seq(Symbol(m))
    BY <1>2 DEF Strings
  <2> QED
    BY <2>1
<1>4. ASSUME At(m, p) \notin {Quote, NUL}
      PROVE  /\ p <= Len(m) /\ Behind(m, p) \in p + 1..Len(m) + 2
             /\ Counted(m, p).end = Counted(m, Behind(m, p)).end
             /\ Len(Counted(m, p).text) = Len(Counted(m, Behind(m, p)).text) + 1
  <2>1. /\ p \in 1..Len(m) /\ Step(m, p, "count").next = Behind(m, p)
        /\ Step(m, p, "count").text \in Seq(Symbol(m))
        /\ Len(Step(m, p, "count").text) = 1
    BY <1>1, <1>4, StepIs DEF Behind
  <2>2. PICK n \in 1..Len(m) + 2 : n = Behind(m, p) /\ n \in p + 1..Len(m) + 2
    BY <1>1, <2>1 DEF Behind
  <2>3. PICK rest : rest = Counted(m, n)
    OBVIOUS
  <2>4. rest \in Strings(m)
    <3>1. n \in 1..Len(m) + 5
      BY <1>1, <2>2
    <3> QED
      BY <1>1, <2>3, <3>1, WalkIs DEF Counted
  <2>5. Counted(m, p) = Longer(m, p, "count", rest)
    BY <1>1, <1>4, <2>1, <2>2, <2>3, WalkIs DEF Counted
  <2>6. /\ Counted(m, p).end = rest.end
        /\ Len(Counted(m, p).text) = 1 + Len(rest.text)
        /\ Len(rest.text) \in Nat
    <3>1. PICK more \in Strings(m) : more = rest
      BY <2>4
    <3>2. Step(m, p, "count").text \in Seq(Symbol(m))
      BY <2>1
    <3>3. /\ Longer(m, p, "count", more).end = more.end
          /\ Len(Longer(m, p, "count", more).text)
               = Len(Step(m, p, "count").text) + Len(more.text)
          /\ Len(more.text) \in Nat /\ Len(Step(m, p, "count").text) \in Nat
      BY <3>2, LongerBy, Zenon
    <3> QED
      BY <2>1, <2>5, <3>1, <3>3
  <2> QED
    BY <2>1, <2>2, <2>3, <2>6
<1> QED
  BY <1>2, <1>3, <1>4

(* An escaped character with its four digits is counted as five symbols.   *)
LEMMA DigitsAreCounted ==
  ASSUME NEW m, IsText(m), NEW q \in Nat \ {0},
         At(m, q) = Backslash, At(m, q + 1) = Unicode
  PROVE  /\ q + 5 <= Len(m)
         /\ Counted(m, q).end = Counted(m, q + 6).end
         /\ Len(Counted(m, q).text) = Len(Counted(m, q + 6).text) + 5
         /\ Len(Counted(m, q + 6).text) \in Nat
<1>1. Len(m) \in Nat /\ Unicode # NUL /\ Backslash # NUL
  BY LenIs DEF Unicode, NUL, Backslash
<1>2. q + 1 <= Len(m)
  <2>1. q + 1 \in Nat \ {0}
    OBVIOUS
  <2> QED
    BY <1>1, <2>1, InText
<1>3. q + 5 <= Len(m) /\ \A k \in q + 2..q + 5 : m[k] \in HexDigits
  <2>1. PICK i \in 2..Len(m) : i = q + 1
    BY <1>1, <1>2
  <2>2. m[i - 1] = Backslash /\ m[i] = Unicode
    <3>1. q \in Nat \ {0} /\ q + 1 \in Nat \ {0} /\ q <= Len(m) /\ i - 1 = q
      BY <1>1, <1>2, <2>1
    <3> QED
      BY <1>2, <2>1, <3>1, AtIs
  <2>3. i + 4 <= Len(m) /\ \A k \in i + 1..i + 4 : m[k] \in HexDigits
    BY <2>1, <2>2 DEF IsText, WellEscaped
  <2>4. i + 4 = q + 5 /\ i + 1 = q + 2
    BY <2>1
  <2> QED
    BY <2>3, <2>4
<1>4. \A k \in q + 2..q + 5 : At(m, k) \notin {Quote, NUL, Backslash}
  <2>1. HexDigits \cap {Quote, NUL, Backslash} = {}
    BY DEF HexDigits, Quote, NUL, Backslash
  <2>2. \A k \in q + 2..q + 5 : k \in Nat \ {0} /\ k <= Len(m)
    BY <1>1, <1>3
  <2>3. \A k \in q + 2..q + 5 : At(m, k) = m[k]
    BY <2>2, AtIs
  <2> QED
    BY <1>3, <2>1, <2>3
<1>5. /\ Counted(m, q).end = Counted(m, q + 2).end
      /\ Len(Counted(m, q).text) = Len(Counted(m, q + 2).text) + 1
  <2>1. q \in 1..Len(m) + 2 /\ At(m, q) \notin {Quote, NUL}
    <3>1. Quote # Backslash
      BY SymbolsDiffer
    <3> QED
      BY <1>1, <1>2, <3>1
  <2> QED
    BY <2>1, CountedIs DEF Behind
<1>6. \A k \in q + 2..q + 5 :
        /\ Counted(m, k).end = Counted(m, k + 1).end
        /\ Len(Counted(m, k).text) = Len(Counted(m, k + 1).text) + 1
  <2>1. \A k \in q + 2..q + 5 : k \in 1..Len(m) + 2
    BY <1>1, <1>3
  <2> QED
    BY <1>4, <2>1, CountedIs DEF Behind
<1>7. Len(Counted(m, q + 6).text) \in Nat
  <2>1. q + 6 \in 1..Len(m) + 2
    BY <1>1, <1>3
  <2> QED
    BY <2>1, CountedIs
<1>8. /\ (q + 2) + 1 = q + 3 /\ (q + 3) + 1 = q + 4 /\ (q + 4) + 1 = q + 5
      /\ (q + 5) + 1 = q + 6
      /\ q + 2 \in q + 2..q + 5 /\ q + 3 \in q + 2..q + 5
      /\ q + 4 \in q + 2..q + 5 /\ q + 5 \in q + 2..q + 5
  OBVIOUS
<1>9. /\ Counted(m, q + 2).end = Counted(m, q + 3).end
      /\ Counted(m, q + 3).end = Counted(m, q + 4).end
      /\ Counted(m, q + 4).end = Counted(m, q + 5).end
      /\ Counted(m, q + 5).end = Counted(m, q + 6).end
  BY <1>6, <1>8
<1>10. /\ Len(Counted(m, q + 2).text) = Len(Counted(m, q + 3).text) + 1
       /\ Len(Counted(m, q + 3).text) = Len(Counted(m, q + 4).text) + 1
       /\ Len(Counted(m, q + 4).text) = Len(Counted(m, q + 5).text) + 1
       /\ Len(Counted(m, q + 5).text) = Len(Counted(m, q + 6).text) + 1
  BY <1>6, <1>8
<1>11. Counted(m, q).end = Counted(m, q + 6).end
  BY <1>5, <1>9, Zenon
<1>12. Len(Counted(m, q).text) = Len(Counted(m, q + 6).text) + 5
  <2>1. PICK a \in Nat : a = Len(Counted(m, q + 6).text)
    BY <1>7
  <2>2. Len(Counted(m, q + 5).text) = a + 1
    BY <1>10, <2>1
  <2>3. Len(Counted(m, q + 4).text) = a + 2
    BY <1>10, <2>2
  <2>4. Len(Counted(m, q + 3).text) = a + 3
    BY <1>10, <2>3
  <2>5. Len(Counted(m, q + 2).text) = a + 4
    BY <1>10, <2>4
  <2> QED
    BY <1>5, <2>1, <2>5
<1> QED
  BY <1>3, <1>7, <1>11, <1>12

(* The copy ends where the count does, and has no more symbols.            *)
LEMMA CopyIsCounted ==
  ASSUME NEW m, IsText(m), NEW p \in 1..Len(m) + 2
  PROVE  /\ Copied(m, p).end = Counted(m, p).end
         /\ Len(Copied(m, p).text) <= Len(Counted(m, p).text)
<1>1. Len(m) \in Nat /\ "copy" \in Loops /\ "count" \in Loops
  BY LenIs DEF Loops
<1> DEFINE N == Len(m)
           Good(q) == /\ Copied(m, q).end = Counted(m, q).end
                      /\ Len(Copied(m, q).text) <= Len(Counted(m, q).text)
           T == {n \in Nat : \A q \in 1..N + 2 : N + 2 < q + n => Good(q)}
<1>2. 0 \in T
  BY <1>1
<1>3. ASSUME NEW k \in Nat, k \in T PROVE k + 1 \in T
  <2>1. SUFFICES ASSUME NEW q \in 1..N + 2, N + 2 < q + (k + 1) PROVE Good(q)
    OBVIOUS
  <2>2. q \in Nat \ {0} /\ q \in 1..N + 5
    BY <1>1
  <2>3. CASE At(m, q) \in {Quote, NUL}
    <3>1. /\ Copied(m, q) = [end |-> q, text |-> <<>>]
          /\ Counted(m, q) = [end |-> q, text |-> <<>>]
      BY <1>1, <2>2, <2>3, WalkIs DEF Copied, Counted
    <3> QED
      BY <3>1
  <2>4. CASE At(m, q) \notin {Quote, NUL}
    <3>1. PICK n, text : /\ n = Step(m, q, "copy").next
                         /\ text = Step(m, q, "copy").text
      OBVIOUS
    <3>2. /\ q <= N /\ n \in q + 1..N + 5 /\ text \in Seq(Symbol(m))
          /\ Copied(m, q) = Longer(m, q, "copy", Copied(m, n))
      BY <1>1, <2>2, <2>4, <3>1, StepIs, WalkIs DEF Copied
    <3>3. Copied(m, n) \in Strings(m)
      <4>1. n \in 1..N + 5
        BY <1>1, <2>2, <3>2
      <4> QED
        BY <1>1, <4>1, WalkIs DEF Copied
    <3>4. /\ Copied(m, q).end = Copied(m, n).end
          /\ Len(Copied(m, q).text) = Len(text) + Len(Copied(m, n).text)
          /\ Len(text) \in Nat /\ Len(Copied(m, n).text) \in Nat
      <4>1. PICK rest \in Strings(m) : rest = Copied(m, n)
        BY <3>3
      <4>2. Step(m, q, "copy").text \in Seq(Symbol(m))
        BY <3>1, <3>2
      <4>3. /\ Longer(m, q, "copy", rest).end = rest.end
            /\ Len(Longer(m, q, "copy", rest).text)
                 = Len(Step(m, q, "copy").text) + Len(rest.text)
            /\ Len(rest.text) \in Nat /\ Len(Step(m, q, "copy").text) \in Nat
        BY <4>2, LongerBy, Zenon
      <4> QED
        BY <3>1, <3>2, <4>1, <4>3
    <3>5. ASSUME n <= N + 2 PROVE Good(n)
      <4>1. n \in 1..N + 2 /\ N + 2 < n + k
        BY <1>1, <2>1, <2>2, <3>2, <3>5
      <4> QED
        BY <1>3, <4>1
    <3>6. PICK same : same = (At(m, q) # Backslash \/ At(m, q + 1) # Unicode)
      OBVIOUS
    <3>7. CASE same
      <4>1. n = Behind(m, q) /\ Len(text) = 1
        BY <1>1, <2>2, <2>4, <3>1, <3>6, <3>7, StepIs DEF Behind
      <4>2. /\ n <= N + 2 /\ Counted(m, q).end = Counted(m, n).end
            /\ Len(Counted(m, q).text) = Len(Counted(m, n).text) + 1
        BY <1>1, <2>4, <4>1, CountedIs
      <4>3. Len(Counted(m, n).text) \in Nat
        <5>1. n \in 1..N + 2
          BY <1>1, <2>2, <3>2, <4>2
        <5> QED
          BY <5>1, CountedIs
      <4> QED
        BY <3>4, <3>5, <4>1, <4>2, <4>3
    <3>8. CASE ~same
      <4>1. /\ q + 5 <= N
            /\ Counted(m, q).end = Counted(m, q + 6).end
            /\ Len(Counted(m, q).text) = Len(Counted(m, q + 6).text) + 5
            /\ Len(Counted(m, q + 6).text) \in Nat
        BY <2>2, <3>6, <3>8, DigitsAreCounted
      <4>2. Step(m, q, "copy") = Encoded(m, q + 1)
        BY <1>1, <2>2, <2>4, <3>6, <3>8, StepIs
      <4>3. /\ Len(text) <= 4
            /\ \/ n = q + 6
               \/ n = q + 12 /\ At(m, q + 6) = Backslash /\ At(m, q + 7) = Unicode
        <5>1. PICK r \in Nat : r = q + 1
          BY <2>2
        <5>2. PICK l \in 0..4 :
                /\ Encoded(m, r).text = [i \in 1..l |-> Byte]
                /\ \/ Encoded(m, r).next = r + 5
                   \/ /\ Encoded(m, r).next = r + 11
                      /\ At(m, r + 5) = Backslash /\ At(m, r + 6) = Unicode
          BY <5>1, EncodedIs
        <5>3. r + 5 = q + 6 /\ r + 6 = q + 7 /\ r + 11 = q + 12
          BY <2>2, <5>1
        <5>4. Len([i \in 1..l |-> Byte]) = l
          BY <5>2, BytesAre
        <5>5. text = [i \in 1..l |-> Byte] /\ n = Encoded(m, r).next
          BY <3>1, <4>2, <5>1, <5>2, Zenon
        <5>6. l <= 4
          BY <5>2
        <5> QED
          BY <5>2, <5>3, <5>4, <5>5, <5>6
      <4>4. CASE n = q + 6
        BY <1>1, <2>2, <3>4, <3>5, <4>1, <4>3, <4>4
      <4>5. CASE n = q + 12 /\ At(m, q + 6) = Backslash /\ At(m, q + 7) = Unicode
        <5>1. /\ q + 6 \in Nat \ {0} /\ (q + 6) + 1 = q + 7 /\ (q + 6) + 6 = q + 12
              /\ (q + 6) + 5 = q + 11
          BY <2>2
        <5>2. /\ q + 11 <= N
              /\ Counted(m, q + 6).end = Counted(m, q + 12).end
              /\ Len(Counted(m, q + 6).text) = Len(Counted(m, q + 12).text) + 5
              /\ Len(Counted(m, q + 12).text) \in Nat
          BY <4>5, <5>1, DigitsAreCounted
        <5>3. n <= N + 2 /\ Good(n)
          <6>1. n <= N + 2
            BY <1>1, <2>2, <4>5, <5>2
          <6> QED
            BY <3>5, <6>1
        <5>4. PICK a, b, c \in Nat : /\ a = Len(Counted(m, n).text)
                                     /\ b = Len(text)
                                     /\ c = Len(Copied(m, n).text)
          BY <3>4, <4>5, <5>2
        <5>5. c <= a /\ b <= 4
          BY <4>3, <5>3, <5>4
        <5>6. Len(Counted(m, q).text) = a + 10
          <6>1. Len(Counted(m, q + 6).text) = a + 5
            BY <4>5, <5>2, <5>4
          <6> QED
            BY <4>1, <5>4, <6>1
        <5>7. Len(Copied(m, q).text) = b + c
          BY <3>4, <5>4
        <5>8. Len(Copied(m, q).text) <= Len(Counted(m, q).text)
          BY <5>4, <5>5, <5>6, <5>7
        <5>9. Copied(m, q).end = Counted(m, q).end
          BY <3>4, <4>1, <4>5, <5>2, <5>3
        <5> QED
          BY <5>8, <5>9
      <4> QED
        BY <4>3, <4>4, <4>5
    <3> QED
      BY <3>6, <3>7, <3>8
  <2> QED
    BY <2>3, <2>4
<1>4. Nat \subseteq T
  <2> HIDE DEF T
  <2> QED
    BY <1>2, <1>3, SetInduction
<1>5. p \in 1..N + 2 /\ N + 2 < p + (N + 2) /\ N + 2 \in Nat
  BY <1>1
<1>6. N + 2 \in T
  <2> HIDE DEF T
  <2> QED
    BY <1>4, <1>5
<1> QED
  BY <1>5, <1>6

-----------------------------------------------------------------------------
(* The parser's function is a fixed point of its definition.               *)

Kinds == {"value", CloseArray, CloseObject}

Body(parse, m, what, p) ==
  IF what = "value" THEN parse_value(parse, m, p)
  ELSE Members(parse, m, p, what)

IsItem(item) ==
  item = [type |-> item.type, string |-> item.string,
          valuestring |-> item.valuestring, child |-> item.child]

(* a result at position p: none, or one that ends behind p                 *)
IsResult(m, r, p) ==
  /\ r = [end |-> r.end, item |-> r.item] /\ IsItem(r.item)
  /\ r.end \in Nat /\ r.item.type # "overrun"
  /\ r.end # 0 => p < r.end /\ r.end <= Len(m) + 2

IsParse(m, g) ==
  /\ g = [what \in Kinds |-> [p \in 1..(Len(m) + 4) |-> g[what][p]]]
  /\ \A what \in Kinds : \A p \in 1..(Len(m) + 4) : IsResult(m, g[what][p], p)

(* f is g for everything behind position p                                 *)
SameBehind(m, f, g, p) ==
  \A what \in Kinds : \A q \in p + 1..Len(m) + 4 : f[what][q] = g[what][q]

SameValue(f, g, p) == f["value"][p] = g["value"][p]

(* A result behind p is one at p.                                          *)
LEMMA ResultEarlier ==
  ASSUME NEW m, NEW p \in Nat, NEW q \in Nat, p <= q, NEW r, IsResult(m, r, q)
  PROVE  IsResult(m, r, p)
BY DEF IsResult

(* To fail is a result.                                                    *)
LEMMA FailedResult ==
  ASSUME NEW m, NEW p
  PROVE  IsResult(m, Failed, p)
BY DEF IsResult, IsItem, Failed, NoItem, New_Item

(* Its end is the null pointer.                                            *)
LEMMA FailedEnd == Failed.end = 0
BY DEF Failed

(* A field of the item is changed, nothing else.                           *)
LEMMA ItemChanged ==
  ASSUME NEW m, NEW p, NEW r, IsResult(m, r, p), NEW v
  PROVE  /\ v # "overrun" => IsResult(m, [r EXCEPT !.item.type = v], p)
         /\ [r EXCEPT !.item.type = v].end = r.end
         /\ [r EXCEPT !.item.type = v].item = [r.item EXCEPT !.type = v]
         /\ IsResult(m, [r EXCEPT !.item.string = v], p)
         /\ [r EXCEPT !.item.string = v].end = r.end
         /\ [r EXCEPT !.item.string = v].item = [r.item EXCEPT !.string = v]
         /\ IsResult(m, [r EXCEPT !.item.child = v], p)
         /\ [r EXCEPT !.item.child = v].end = r.end
         /\ [r EXCEPT !.item.child = v].item = [r.item EXCEPT !.child = v]
<1>1. PICK e, t, s, w, c :
        /\ r = [end |-> e, item |-> [type |-> t, string |-> s,
                                     valuestring |-> w, child |-> c]]
        /\ e \in Nat /\ (e # 0 => p < e /\ e <= Len(m) + 2)
        /\ t # "overrun"
  BY DEF IsResult, IsItem
<1>2. [r EXCEPT !.item.type = v]
        = [end |-> e, item |-> [type |-> v, string |-> s,
                                valuestring |-> w, child |-> c]]
  BY <1>1
<1>3. [r EXCEPT !.item.string = v]
        = [end |-> e, item |-> [type |-> t, string |-> v,
                                valuestring |-> w, child |-> c]]
  BY <1>1
<1>4. [r EXCEPT !.item.child = v]
        = [end |-> e, item |-> [type |-> t, string |-> s,
                                valuestring |-> w, child |-> v]]
  BY <1>1
<1>5. r.item = [type |-> t, string |-> s, valuestring |-> w, child |-> c]
  BY <1>1
<1>6. /\ [r.item EXCEPT !.type = v] = [type |-> v, string |-> s,
                                       valuestring |-> w, child |-> c]
      /\ [r.item EXCEPT !.string = v] = [type |-> t, string |-> v,
                                         valuestring |-> w, child |-> c]
      /\ [r.item EXCEPT !.child = v] = [type |-> t, string |-> s,
                                        valuestring |-> w, child |-> v]
  BY <1>5
<1>7. r.end = e
  BY <1>1
<1>8. /\ v # "overrun" => IsResult(m, [r EXCEPT !.item.type = v], p)
      /\ [r EXCEPT !.item.type = v].end = r.end
      /\ [r EXCEPT !.item.type = v].item = [r.item EXCEPT !.type = v]
  BY <1>1, <1>2, <1>6, <1>7 DEF IsResult, IsItem
<1>9. /\ IsResult(m, [r EXCEPT !.item.string = v], p)
      /\ [r EXCEPT !.item.string = v].end = r.end
      /\ [r EXCEPT !.item.string = v].item = [r.item EXCEPT !.string = v]
  BY <1>1, <1>3, <1>6, <1>7 DEF IsResult, IsItem
<1>10. /\ IsResult(m, [r EXCEPT !.item.child = v], p)
       /\ [r EXCEPT !.item.child = v].end = r.end
       /\ [r EXCEPT !.item.child = v].item = [r.item EXCEPT !.child = v]
  BY <1>1, <1>4, <1>6, <1>7 DEF IsResult, IsItem
<1> QED
  BY <1>8, <1>9, <1>10

(* A string ends at a quote or at a zero.                                  *)
LEMMA WalkBounds ==
  ASSUME NEW m, IsText(m), NEW p \in 1..Len(m) + 2
  PROVE  /\ Counted(m, p) \in Strings(m) /\ Counted(m, p).end \in Nat
         /\ p <= Counted(m, p).end /\ Counted(m, p).end <= Len(m) + 2
         /\ At(m, Counted(m, p).end) \in {Quote, NUL}
<1>1. Len(m) \in Nat
  BY LenIs
<1> DEFINE N == Len(m)
           Good(q) == LET s == Counted(m, q) IN
                        /\ q <= s.end /\ s.end <= N + 2
                        /\ At(m, s.end) \in {Quote, NUL}
           T == {n \in Nat : \A q \in 1..N + 2 : N + 2 < q + n => Good(q)}
<1>2. 0 \in T
  BY <1>1
<1>3. ASSUME NEW n \in Nat, n \in T PROVE n + 1 \in T
  <2>1. SUFFICES ASSUME NEW q \in 1..N + 2, N + 2 < q + (n + 1) PROVE Good(q)
    OBVIOUS
  <2>2. CASE At(m, q) \in {Quote, NUL}
    BY <1>1, <2>1, <2>2, CountedIs
  <2>3. CASE At(m, q) \notin {Quote, NUL}
    <3>1. /\ Behind(m, q) \in q + 1..N + 2
          /\ Counted(m, q).end = Counted(m, Behind(m, q)).end
      BY <2>1, <2>3, CountedIs
    <3>2. PICK b \in 1..N + 2 : b = Behind(m, q) /\ b > q
      BY <1>1, <2>1, <3>1
    <3>3. N + 2 < b + n
      BY <1>1, <2>1, <3>2
    <3>4. Good(b)
      BY <1>3, <3>2, <3>3
    <3>5. Counted(m, q).end = Counted(m, b).end
      BY <3>1, <3>2
    <3>6. Counted(m, b) \in Strings(m)
      BY <3>2, CountedIs
    <3> QED
      BY <1>1, <2>1, <3>2, <3>4, <3>5, <3>6 DEF Strings
  <2> QED
    BY <2>2, <2>3
<1>4. Nat \subseteq T
  <2> HIDE DEF T
  <2> QED
    BY <1>2, <1>3, SetInduction
<1>5. p \in 1..N + 2 /\ N + 2 < p + (N + 2) /\ N + 2 \in Nat
  BY <1>1
<1>6. Good(p)
  <2>1. N + 2 \in T
    BY <1>4, <1>5
  <2> HIDE DEF Good
  <2> QED
    BY <1>5, <2>1
<1>7. Counted(m, p) \in Strings(m)
  BY <1>5, CountedIs
<1> QED
  BY <1>6, <1>7 DEF Strings

(* What parse_string gives: the end of the count, one behind a quote.      *)
LEMMA StringIs ==
  ASSUME NEW m, IsText(m), NEW p \in 1..Len(m), At(m, p) = Quote
  PROVE  parse_string(m, p) =
           [end |-> IF At(m, Counted(m, p + 1).end) = Quote
                    THEN Counted(m, p + 1).end + 1
                    ELSE Counted(m, p + 1).end,
            item |-> [type |-> "string", string |-> <<>>,
                      valuestring |-> CString(Copied(m, p + 1).text, 1),
                      child |-> <<>>]]
<1>1. PICK v : v = CString(Copied(m, p + 1).text, 1)
  OBVIOUS
<1>2. [New_Item("string") EXCEPT !.valuestring = v]
        = [type |-> "string", string |-> <<>>, valuestring |-> v,
           child |-> <<>>]
  BY DEF New_Item
<1>3. [New_Item("string") EXCEPT
         !.valuestring = CString(Copied(m, p + 1).text, 1)]
        = [New_Item("string") EXCEPT !.valuestring = v]
  BY <1>1, Zenon
<1>4. /\ Copied(m, p + 1).end = Counted(m, p + 1).end
      /\ ~(Len(Copied(m, p + 1).text) > Len(Counted(m, p + 1).text))
  <2>1. p + 1 \in 1..Len(m) + 2 /\ "copy" \in Loops /\ p + 1 \in 1..Len(m) + 5
    BY LenIs DEF Loops
  <2>2. Len(Copied(m, p + 1).text) \in Nat
    <3>1. Copied(m, p + 1).text \in Seq(Symbol(m))
      BY <2>1, WalkIs DEF Copied, Strings
    <3> QED
      BY <3>1
  <2> QED
    BY <2>1, <2>2, CopyIsCounted, CountedIs
<1>5. parse_string(m, p) =
        [end |-> IF At(m, Copied(m, p + 1).end) = Quote
                 THEN Copied(m, p + 1).end + 1 ELSE Copied(m, p + 1).end,
         item |-> [New_Item("string") EXCEPT
                     !.valuestring = CString(Copied(m, p + 1).text, 1)]]
  BY <1>4, Zenon DEF parse_string, Copied, Counted
<1> QED
  BY <1>1, <1>2, <1>3, <1>4, <1>5, Zenon

(* That is a result.                                                       *)
LEMMA StringResult ==
  ASSUME NEW m, IsText(m), NEW p \in Nat \ {0}
  PROVE  IsResult(m, parse_string(m, p), p)
<1>1. CASE At(m, p) # Quote
  BY <1>1, FailedResult DEF parse_string
<1>2. CASE At(m, p) = Quote
  <2>1. p \in 1..Len(m) /\ Len(m) \in Nat
    <3>1. At(m, p) # NUL
      BY <1>2, SymbolsDiffer
    <3> QED
      BY <3>1, InText
  <2>2. PICK end : end = Counted(m, p + 1).end
    OBVIOUS
  <2>3. /\ end \in Nat /\ p + 1 <= end /\ end <= Len(m) + 2
        /\ At(m, end) = Quote => end <= Len(m)
    <3>1. p + 1 \in 1..Len(m) + 2
      BY <2>1
    <3>2. end \in Nat \ {0} /\ p + 1 <= end /\ end <= Len(m) + 2
      BY <2>1, <2>2, <3>1, WalkBounds
    <3>3. Quote # NUL
      BY SymbolsDiffer
    <3> QED
      BY <3>2, <3>3, InText
  <2>4. PICK e : e = IF At(m, end) = Quote THEN end + 1 ELSE end
    OBVIOUS
  <2>5. parse_string(m, p) =
          [end |-> e,
           item |-> [type |-> "string", string |-> <<>>,
                     valuestring |-> CString(Copied(m, p + 1).text, 1),
                     child |-> <<>>]]
    BY <1>2, <2>1, <2>2, <2>4, StringIs
  <2>6. e \in Nat /\ p < e /\ e <= Len(m) + 2
    BY <2>1, <2>3, <2>4
  <2> QED
    BY <2>5, <2>6 DEF IsResult, IsItem
<1> QED
  BY <1>1, <1>2

(* A pair at p looks at values behind p only.                              *)
LEMMA PairStep ==
  ASSUME NEW m, IsText(m), NEW f, NEW g, IsParse(m, g),
         NEW p \in 1..Len(m) + 4, SameBehind(m, f, g, p)
  PROVE  Pair(f, m, p) = Pair(g, m, p) /\ IsResult(m, Pair(g, m, p), p)
<1> DEFINE name == parse_string(m, p)
           colon == skip(m, name.end)
<1>1. Len(m) \in Nat /\ IsResult(m, name, p)
  BY LenIs, StringResult
<1>2. CASE name.end = 0 \/ At(m, colon) # Colon
  BY <1>1, <1>2, FailedResult DEF Pair, NamedValue
<1>3. CASE ~(name.end = 0 \/ At(m, colon) # Colon)
  <2>1. name.end \in Nat \ {0} /\ p < name.end /\ p \in Nat
    BY <1>1, <1>3 DEF IsResult
  <2>2. colon \in Nat \ {0} /\ name.end <= colon /\ At(m, colon) = Colon
    BY <1>3, <2>1, SkipIs
  <2>3. colon \in 1..Len(m)
    <3>1. At(m, colon) # NUL
      BY <2>2, SymbolsDiffer
    <3> HIDE DEF colon
    <3> QED
      BY <2>2, <3>1, InText
  <2>4. PICK q : q = skip(m, colon + 1)
    OBVIOUS
  <2>5. q \in p + 1..Len(m) + 4 /\ q \in 1..Len(m) + 4 /\ colon + 1 <= q
    <3>1. colon + 1 \in Nat \ {0} /\ colon + 1 <= Len(m) + 1
      BY <1>1, <2>3
    <3>2. q \in Nat \ {0} /\ colon + 1 <= q /\ q <= Len(m) + 1
      <4> HIDE DEF colon
      <4> QED
        BY <2>4, <3>1, SkipIs
    <3> HIDE DEF colon, name
    <3> QED
      BY <1>1, <2>1, <2>2, <3>1, <3>2
  <2>6. PICK v : v = name.item.valuestring
    OBVIOUS
  <2>7. /\ Pair(f, m, p) = [f["value"][q] EXCEPT !.item.string = v]
        /\ Pair(g, m, p) = [g["value"][q] EXCEPT !.item.string = v]
    BY <1>3, <2>4, <2>6, Zenon DEF Pair, NamedValue
  <2>8. "value" \in Kinds
    BY DEF Kinds
  <2>9. PICK r : r = g["value"][q]
    OBVIOUS
  <2>10. f["value"][q] = r /\ IsResult(m, r, q)
    BY <2>5, <2>8, <2>9 DEF SameBehind, IsParse
  <2>11. IsResult(m, [r EXCEPT !.item.string = v], q)
    BY <2>10, ItemChanged
  <2>12. ASSUME NEW s, IsResult(m, s, q) PROVE IsResult(m, s, p)
    BY <1>1, <2>1, <2>5, <2>12, ResultEarlier
  <2> QED
    BY <2>7, <2>9, <2>10, <2>11, <2>12, Zenon
<1> QED
  BY <1>2, <1>3

(* An array or object at p looks at the list behind p only.                *)
LEMMA ParseMembersStep ==
  ASSUME NEW m, IsText(m), NEW f, NEW g, IsParse(m, g),
         NEW p \in 1..Len(m), SameBehind(m, f, g, p),
         NEW type \in {"array", "object"}, NEW close \in {CloseArray, CloseObject}
  PROVE  /\ parse_members(f, m, p, type, close)
              = parse_members(g, m, p, type, close)
         /\ IsResult(m, parse_members(g, m, p, type, close), p)
<1>1. PICK q : q = skip(m, p + 1)
  OBVIOUS
<1>2. /\ Len(m) \in Nat
      /\ q \in p + 1..Len(m) + 4 /\ q \in 1..Len(m) + 4 /\ q <= Len(m) + 1
  <2>1. Len(m) \in Nat /\ p + 1 \in Nat \ {0} /\ p + 1 <= Len(m) + 1
    BY LenIs
  <2>2. q \in Nat \ {0} /\ p + 1 <= q /\ q <= Len(m) + 1
    BY <1>1, <2>1, SkipIs
  <2> QED
    BY <2>1, <2>2
<1>3. CASE At(m, q) = close
  <2>1. parse_members(g, m, p, type, close)
          = [end |-> q + 1, item |-> New_Item(type)]
    BY <1>1, <1>3 DEF parse_members
  <2>2. parse_members(f, m, p, type, close)
          = [end |-> q + 1, item |-> New_Item(type)]
    BY <1>1, <1>3 DEF parse_members
  <2>3. IsItem(New_Item(type)) /\ New_Item(type).type # "overrun"
    BY DEF New_Item, IsItem
  <2>4. IsResult(m, [end |-> q + 1, item |-> New_Item(type)], p)
    BY <1>2, <2>3 DEF IsResult
  <2> QED
    BY <2>1, <2>2, <2>4
<1>4. CASE At(m, q) # close
  <2>1. /\ parse_members(f, m, p, type, close)
             = IF f[close][q].end = 0 THEN f[close][q]
               ELSE [f[close][q] EXCEPT !.item.type = type]
        /\ parse_members(g, m, p, type, close)
             = IF g[close][q].end = 0 THEN g[close][q]
               ELSE [g[close][q] EXCEPT !.item.type = type]
    BY <1>1, <1>4, Zenon DEF parse_members
  <2>2. PICK r : r = g[close][q]
    OBVIOUS
  <2>3. close \in Kinds
    BY DEF Kinds
  <2>4. f[close][q] = r /\ IsResult(m, r, q)
    BY <1>2, <2>2, <2>3 DEF SameBehind, IsParse
  <2>5. IsResult(m, [r EXCEPT !.item.type = type], q)
    BY <2>4, ItemChanged
  <2>6. ASSUME NEW s, IsResult(m, s, q) PROVE IsResult(m, s, p)
    BY <1>2, <2>6, ResultEarlier
  <2> QED
    BY <2>1, <2>2, <2>4, <2>5, <2>6, Zenon
<1> QED
  BY <1>3, <1>4

(* So does a value.                                                        *)
LEMMA ValueStep ==
  ASSUME NEW m, IsText(m), NEW f, NEW g, IsParse(m, g),
         NEW p \in 1..Len(m) + 4, SameBehind(m, f, g, p)
  PROVE  /\ parse_value(f, m, p) = parse_value(g, m, p)
         /\ IsResult(m, parse_value(g, m, p), p)
<1>1. Len(m) \in Nat /\ p \in Nat \ {0}
  BY LenIs
<1>2. CASE At(m, p) = Quote
  <2>1. parse_value(f, m, p) = parse_string(m, p)
    BY <1>2, SymbolsDiffer DEF parse_value
  <2>2. parse_value(g, m, p) = parse_string(m, p)
    BY <1>2, SymbolsDiffer DEF parse_value
  <2> QED
    BY <1>1, <2>1, <2>2, StringResult
<1>3. CASE At(m, p) \in Scalars
  <2>1. p \in 1..Len(m)
    <3>1. At(m, p) # NUL
      BY <1>3, SymbolsDiffer
    <3> QED
      BY <1>1, <3>1, InText
  <2>2. /\ parse_value(f, m, p) = [end |-> p + 1, item |-> New_Item("literal")]
        /\ parse_value(g, m, p) = [end |-> p + 1, item |-> New_Item("literal")]
    BY <1>3, SymbolsDiffer DEF parse_value
  <2>3. IsItem(New_Item("literal")) /\ New_Item("literal").type # "overrun"
    BY DEF New_Item, IsItem
  <2>4. IsResult(m, [end |-> p + 1, item |-> New_Item("literal")], p)
    BY <1>1, <2>1, <2>3 DEF IsResult
  <2> QED
    BY <2>2, <2>4
<1>4. CASE At(m, p) \in {OpenArray, OpenObject}
  <2>1. p \in 1..Len(m)
    <3>1. At(m, p) # NUL
      BY <1>4, SymbolsDiffer
    <3> QED
      BY <1>1, <3>1, InText
  <2>2. PICK type \in {"array", "object"}, close \in {CloseArray, CloseObject} :
          /\ parse_value(f, m, p) = parse_members(f, m, p, type, close)
          /\ parse_value(g, m, p) = parse_members(g, m, p, type, close)
    <3>1. CASE At(m, p) = OpenArray
      <4>1. \A h : parse_value(h, m, p)
                     = parse_members(h, m, p, "array", CloseArray)
        BY <3>1, SymbolsDiffer DEF parse_value, parse_array
      <4> QED
        BY <4>1
    <3>2. CASE At(m, p) = OpenObject
      <4>1. \A h : parse_value(h, m, p)
                     = parse_members(h, m, p, "object", CloseObject)
        BY <3>2, SymbolsDiffer DEF parse_value, parse_object
      <4> QED
        BY <4>1
    <3> QED
      BY <1>4, <3>1, <3>2
  <2> QED
    BY <2>1, <2>2, ParseMembersStep
<1>5. CASE At(m, p) \notin Scalars \cup {Quote, OpenArray, OpenObject}
  BY <1>5, FailedResult DEF parse_value
<1> QED
  BY <1>2, <1>3, <1>4, <1>5

(* Members from p look at a value there, or behind p, and at the list      *)
(* behind p.                                                               *)
LEMMA MembersStep ==
  ASSUME NEW m, IsText(m), NEW f, NEW g, IsParse(m, g),
         NEW p \in 1..Len(m) + 4, SameBehind(m, f, g, p),
         SameValue(f, g, p), NEW close \in {CloseArray, CloseObject}
  PROVE  /\ Members(f, m, p, close) = Members(g, m, p, close)
         /\ IsResult(m, Members(g, m, p, close), p)
<1>1. PICK q : q = skip(m, p)
  OBVIOUS
<1>2. /\ Len(m) \in Nat /\ p \in Nat \ {0}
      /\ q \in p..Len(m) + 4 /\ q \in 1..Len(m) + 4
  <2>1. Len(m) \in Nat /\ p \in Nat \ {0}
    BY LenIs
  <2>2. q \in Nat \ {0} /\ p <= q
    BY <1>1, <2>1, SkipIs
  <2>3. q <= Len(m) + 1 \/ q = p
    BY <1>1, <2>1, SkipIs
  <2> QED
    BY <2>1, <2>2, <2>3
<1>3. PICK first : first = Member(g, m, q, close)
  OBVIOUS
<1>4. Member(f, m, q, close) = first /\ IsResult(m, first, q)
  <2>1. SameBehind(m, f, g, q)
    <3>1. \A k \in q + 1..Len(m) + 4 : k \in p + 1..Len(m) + 4
      BY <1>2
    <3> QED
      BY <3>1 DEF SameBehind
  <2>2. CASE close = CloseObject
    <3>1. Pair(f, m, q) = Pair(g, m, q) /\ IsResult(m, Pair(g, m, q), q)
      BY <1>2, <2>1, PairStep
    <3> QED
      BY <1>3, <2>2, <3>1 DEF Member
  <2>3. CASE close # CloseObject
    <3>1. "value" \in Kinds
      BY DEF Kinds
    <3>2. f["value"][q] = g["value"][q]
      <4>1. q = p \/ q \in p + 1..Len(m) + 4
        BY <1>2
      <4> QED
        BY <3>1, <4>1 DEF SameBehind, SameValue
    <3>3. IsResult(m, g["value"][q], q)
      BY <1>2, <3>1 DEF IsParse
    <3> QED
      BY <1>3, <2>3, <3>2, <3>3 DEF Member
  <2> QED
    BY <2>2, <2>3
<1>5. PICK next : next = skip(m, first.end)
  OBVIOUS
<1>6. CASE first.end = 0
  <2>1. Members(f, m, p, close) = first /\ Members(g, m, p, close) = first
    BY <1>1, <1>3, <1>4, <1>6, Zenon DEF Members, Continued
  <2>2. IsResult(m, first, p)
    BY <1>2, <1>4, ResultEarlier
  <2> QED
    BY <2>1, <2>2
<1>7. CASE first.end # 0
  <2>1. first.end \in Nat \ {0} /\ p < first.end
    BY <1>2, <1>4, <1>7 DEF IsResult
  <2>2. next \in Nat \ {0} /\ first.end <= next
    BY <1>5, <2>1, SkipIs
  <2>3. close # NUL /\ Comma # NUL
    BY SymbolsDiffer
  <2>4. CASE At(m, next) = close
    <3>1. next \in 1..Len(m)
      BY <2>2, <2>3, <2>4, InText
    <3>2. PICK c : c = <<first.item>>
      OBVIOUS
    <3>3. [New_Item("list") EXCEPT !.child = c]
            = [type |-> "list", string |-> <<>>, valuestring |-> <<>>,
               child |-> c]
      BY DEF New_Item
    <3>4. PICK list : list = [New_Item("list") EXCEPT !.child = c]
      OBVIOUS
    <3>5. IsItem(list) /\ list.type # "overrun"
      BY <3>3, <3>4 DEF IsItem
    <3>6. /\ Members(f, m, p, close) = [end |-> next + 1, item |-> list]
          /\ Members(g, m, p, close) = [end |-> next + 1, item |-> list]
      <4>1. list = [New_Item("list") EXCEPT !.child = <<first.item>>]
        BY <3>2, <3>4, Zenon
      <4> QED
        BY <1>1, <1>3, <1>4, <1>5, <1>7, <2>4, <4>1 DEF Members, Continued
    <3>7. IsResult(m, [end |-> next + 1, item |-> list], p)
      BY <1>2, <2>1, <2>2, <3>1, <3>5 DEF IsResult
    <3> QED
      BY <3>6, <3>7
  <2>5. CASE At(m, next) # close /\ At(m, next) # Comma
    BY <1>1, <1>3, <1>4, <1>5, <1>7, <2>5, FailedResult DEF Members, Continued
  <2>6. CASE At(m, next) # close /\ At(m, next) = Comma
    <3>1. next \in 1..Len(m)
      BY <2>2, <2>3, <2>6, InText
    <3>2. PICK k : k = next + 1
      OBVIOUS
    <3>3. k \in p + 1..Len(m) + 4 /\ k \in 1..Len(m) + 4
      BY <1>2, <2>1, <2>2, <3>1, <3>2
    <3>4. PICK r : r = g[close][k]
      OBVIOUS
    <3>5. close \in Kinds
      BY DEF Kinds
    <3>6. f[close][k] = r /\ IsResult(m, r, k)
      BY <3>3, <3>4, <3>5 DEF SameBehind, IsParse
    <3>7. PICK c : c = <<first.item>> \o r.item.child
      OBVIOUS
    <3>8. /\ Members(f, m, p, close)
               = [f[close][k] EXCEPT !.item.child = <<first.item>> \o @]
          /\ Members(g, m, p, close)
               = [g[close][k] EXCEPT !.item.child = <<first.item>> \o @]
      BY <1>1, <1>3, <1>4, <1>5, <1>7, <2>6, <3>2, Zenon DEF Members, Continued
    <3>9. [r EXCEPT !.item.child = <<first.item>> \o @]
            = [r EXCEPT !.item.child = c]
      BY <3>7, Zenon
    <3>10. IsResult(m, [r EXCEPT !.item.child = c], k)
      BY <3>6, ItemChanged
    <3>11. ASSUME NEW s, IsResult(m, s, k) PROVE IsResult(m, s, p)
      BY <1>2, <3>3, <3>11, ResultEarlier
    <3> QED
      BY <3>4, <3>6, <3>8, <3>9, <3>10, <3>11, Zenon
  <2> QED
    BY <2>4, <2>5, <2>6
<1> QED
  BY <1>6, <1>7

(* One step of the parser looks only at what is behind p.                  *)
LEMMA BodyStep ==
  ASSUME NEW m, IsText(m), NEW f, NEW g, IsParse(m, g),
         NEW what \in Kinds, NEW p \in 1..Len(m) + 4, SameBehind(m, f, g, p),
         what = "value" \/ SameValue(f, g, p)
  PROVE  /\ Body(f, m, what, p) = Body(g, m, what, p)
         /\ IsResult(m, Body(g, m, what, p), p)
<1>1. CASE what = "value"
  BY <1>1, ValueStep DEF Body
<1>2. CASE what # "value"
  <2>1. what \in {CloseArray, CloseObject}
    BY <1>2 DEF Kinds
  <2>2. /\ Body(f, m, what, p) = Members(f, m, p, what)
        /\ Body(g, m, what, p) = Members(g, m, p, what)
    BY <1>2 DEF Body
  <2>3. SameValue(f, g, p)
    BY <1>2
  <2> QED
    BY <2>1, <2>2, <2>3, MembersStep
<1> QED
  BY <1>1, <1>2

(* what is looked at comes earlier in this order                           *)
Order(m, what, p) == 2 * (Len(m) + 4 - p) + IF what = "value" THEN 0 ELSE 1

(* The order is one: what is looked at has a smaller number.               *)
LEMMA OrderIs ==
  ASSUME NEW m, IsText(m), NEW what \in Kinds, NEW p \in 1..Len(m) + 4
  PROVE  /\ Order(m, what, p) \in Nat /\ Order(m, what, p) < 2 * Len(m) + 9
         /\ \A other \in Kinds : \A q \in p + 1..Len(m) + 4 :
              Order(m, other, q) < Order(m, what, p)
         /\ what # "value" => Order(m, "value", p) < Order(m, what, p)
<1>1. Len(m) \in Nat
  BY LenIs
<1>2. PICK d \in {0, 1} : /\ Order(m, what, p) = 2 * (Len(m) + 4 - p) + d
                          /\ what # "value" => d = 1
  BY DEF Order
<1>3. ASSUME NEW other \in Kinds, NEW q \in p + 1..Len(m) + 4
      PROVE  Order(m, other, q) < Order(m, what, p)
  <2>1. PICK e \in {0, 1} : Order(m, other, q) = 2 * (Len(m) + 4 - q) + e
    BY DEF Order
  <2> QED
    BY <1>1, <1>2, <2>1
<1>4. Order(m, "value", p) = 2 * (Len(m) + 4 - p)
  BY <1>1 DEF Order
<1>5. what # "value" => Order(m, "value", p) < Order(m, what, p)
  BY <1>1, <1>2, <1>4
<1>6. Order(m, what, p) \in Nat /\ Order(m, what, p) < 2 * Len(m) + 9
  BY <1>1, <1>2
<1> QED
  BY <1>3, <1>5, <1>6

(* There is a function that is its own next step.                          *)
LEMMA ParserExists ==
  ASSUME NEW m, IsText(m)
  PROVE  \E g : /\ IsParse(m, g)
                /\ \A what \in Kinds : \A p \in 1..Len(m) + 4 :
                     g[what][p] = Body(g, m, what, p)
<1> DEFINE P == 1..Len(m) + 4
           Right(g, n) ==
             /\ IsParse(m, g)
             /\ \A what \in Kinds : \A p \in P :
                  Order(m, what, p) < n => g[what][p] = Body(g, m, what, p)
           T == {n \in Nat : \E g : Right(g, n)}
<1>1. Len(m) \in Nat
  BY LenIs
<1>2. 0 \in T
  <2> DEFINE g == [what \in Kinds |-> [p \in P |-> Failed]]
  <2>1. \A what \in Kinds : \A p \in P : g[what][p] = Failed
    OBVIOUS
  <2>2. IsParse(m, g)
    <3> HIDE DEF g
    <3>1. g = [what \in Kinds |-> [p \in P |-> g[what][p]]]
      BY DEF g
    <3> QED
      BY <2>1, <3>1, FailedResult DEF IsParse
  <2>3. \A what \in Kinds : \A p \in P : ~(Order(m, what, p) < 0)
    BY OrderIs
  <2>4. Right(g, 0)
    <3> HIDE DEF g
    <3> QED
      BY <2>2, <2>3
  <2> HIDE DEF Right
  <2> QED
    BY <2>4
<1>3. ASSUME NEW n \in Nat, n \in T PROVE n + 1 \in T
  <2>1. PICK g : Right(g, n)
    BY <1>3
  <2>2. PICK h : h = [what \in Kinds |-> [p \in P |-> Body(g, m, what, p)]]
    OBVIOUS
  <2>3. \A what \in Kinds : \A p \in P : h[what][p] = Body(g, m, what, p)
    BY <2>2, Zenon
  <2>4. \A what \in Kinds : \A p \in P : IsResult(m, Body(g, m, what, p), p)
    <3>1. \A p \in P : SameBehind(m, g, g, p) /\ SameValue(g, g, p)
      BY DEF SameBehind, SameValue
    <3>2. IsParse(m, g)
      BY <2>1
    <3> HIDE DEF Right, T
    <3> QED
      BY <3>1, <3>2, BodyStep
  <2>5. IsParse(m, h)
    <3>1. h = [what \in Kinds |-> [p \in P |-> h[what][p]]]
      BY <2>2, <2>3, Zenon
    <3> QED
      BY <2>3, <2>4, <3>1 DEF IsParse
  <2>6. ASSUME NEW what \in Kinds, NEW p \in P, Order(m, what, p) < n + 1
        PROVE  h[what][p] = Body(h, m, what, p)
    <3>1. ASSUME NEW other \in Kinds, NEW q \in P,
                 Order(m, other, q) < Order(m, what, p)
          PROVE  h[other][q] = g[other][q]
      <4>1. Order(m, other, q) < n
        BY <2>6, <3>1, OrderIs
      <4> QED
        BY <2>1, <2>3, <4>1
    <3>2. SameBehind(m, h, g, p)
      <4>1. \A q \in p + 1..Len(m) + 4 : q \in P
        BY <1>1
      <4> QED
        BY <3>1, <4>1, OrderIs DEF SameBehind
    <3>3. what = "value" \/ SameValue(h, g, p)
      <4>1. "value" \in Kinds
        BY DEF Kinds
      <4> QED
        BY <3>1, <4>1, OrderIs DEF SameValue
    <3>4. Body(h, m, what, p) = Body(g, m, what, p)
      <4>1. IsParse(m, g)
        BY <2>1
      <4> HIDE DEF Right, T
      <4> QED
        BY <3>2, <3>3, <4>1, BodyStep
    <3> QED
      BY <2>3, <3>4
  <2>7. Right(h, n + 1)
    BY <2>5, <2>6
  <2> HIDE DEF Right
  <2> QED
    BY <2>7
<1>4. Nat \subseteq T
  <2> HIDE DEF T
  <2> QED
    BY <1>2, <1>3, SetInduction
<1>5. PICK g : Right(g, 2 * Len(m) + 9)
  <2>1. 2 * Len(m) + 9 \in T
    <3> HIDE DEF T
    <3> QED
      BY <1>1, <1>4
  <2> HIDE DEF Right
  <2> QED
    BY <2>1
<1>6. \A what \in Kinds : \A p \in P : Order(m, what, p) < 2 * Len(m) + 9
  BY OrderIs
<1> QED
  BY <1>5, <1>6

(* The parser's function is that fixed point.                              *)
LEMMA ParserIs ==
  ASSUME NEW m, IsText(m)
  PROVE  /\ IsParse(m, Parser(m))
         /\ \A p \in 1..Len(m) + 4 :
              /\ Parser(m)["value"][p] = parse_value(Parser(m), m, p)
              /\ \A close \in {CloseArray, CloseObject} :
                   Parser(m)[close][p] = Members(Parser(m), m, p, close)
<1> DEFINE P == 1..Len(m) + 4
           rhs(f) == [what \in Kinds |-> [p \in P |-> Body(f, m, what, p)]]
           c == CHOOSE f : f = rhs(f)
<1>1. PICK g : /\ IsParse(m, g)
               /\ \A what \in Kinds : \A p \in P :
                    g[what][p] = Body(g, m, what, p)
  BY ParserExists
<1>2. g = rhs(g)
  <2>1. g = [what \in Kinds |-> [p \in P |-> g[what][p]]]
    BY <1>1 DEF IsParse
  <2>2. \A what \in Kinds : [p \in P |-> g[what][p]]
                              = [p \in P |-> Body(g, m, what, p)]
    BY <1>1, Zenon
  <2> QED
    BY <2>1, <2>2, Zenon
<1>3. c = rhs(c)
  <2> HIDE DEF rhs
  <2> QED
    BY <1>2
<1>4. Parser(m) = c
  BY Zenon DEF Parser, Body, Kinds
<1> HIDE DEF c
<1>5. /\ \A what \in Kinds : \A p \in P : c[what][p] = Body(c, m, what, p)
      /\ c = [what \in Kinds |-> [p \in P |-> c[what][p]]]
  <2>1. PICK r : r = rhs(c)
    OBVIOUS
  <2>2. c = r
    BY <1>3, <2>1
  <2>3. \A what \in Kinds : \A p \in P : r[what][p] = Body(c, m, what, p)
    BY <2>1, Zenon
  <2>4. r = [what \in Kinds |-> [p \in P |-> r[what][p]]]
    BY <2>1, <2>3, Zenon
  <2> QED
    BY <2>2, <2>3, <2>4
<1> DEFINE T == {n \in Nat : \A what \in Kinds : \A p \in P :
                   Order(m, what, p) < n => c[what][p] = g[what][p]}
<1>6. 0 \in T
  BY OrderIs
<1>7. ASSUME NEW n \in Nat, n \in T PROVE n + 1 \in T
  <2>1. SUFFICES ASSUME NEW what \in Kinds, NEW p \in P,
                        Order(m, what, p) < n + 1
                 PROVE  c[what][p] = g[what][p]
    OBVIOUS
  <2>2. ASSUME NEW other \in Kinds, NEW q \in P,
               Order(m, other, q) < Order(m, what, p)
        PROVE  c[other][q] = g[other][q]
    BY <1>7, <2>1, <2>2, OrderIs
  <2>3. SameBehind(m, c, g, p)
    <3>1. \A q \in p + 1..Len(m) + 4 : q \in P
      BY LenIs
    <3> QED
      BY <2>2, <3>1, OrderIs DEF SameBehind
  <2>4. what = "value" \/ SameValue(c, g, p)
    <3>1. "value" \in Kinds
      BY DEF Kinds
    <3> QED
      BY <2>2, <3>1, OrderIs DEF SameValue
  <2>5. Body(c, m, what, p) = Body(g, m, what, p)
    <3> HIDE DEF T
    <3> QED
      BY <1>1, <2>3, <2>4, BodyStep
  <2> QED
    BY <1>1, <1>5, <2>5
<1>8. Nat \subseteq T
  <2> HIDE DEF T
  <2> QED
    BY <1>6, <1>7, SetInduction
<1>9. \A what \in Kinds : \A p \in P : c[what][p] = g[what][p]
  <2>1. 2 * Len(m) + 9 \in T
    <3> HIDE DEF T
    <3> QED
      BY <1>8, LenIs
  <2> QED
    BY <2>1, OrderIs
<1>10. IsParse(m, c)
  BY <1>1, <1>5, <1>9 DEF IsParse
<1>11. {CloseArray, CloseObject} \subseteq Kinds /\ "value" \in Kinds
       /\ "value" \notin {CloseArray, CloseObject}
  BY Zenon DEF Kinds, CloseArray, CloseObject
<1> QED
  BY <1>4, <1>5, <1>10, <1>11 DEF Body

-----------------------------------------------------------------------------
(* Strings in the grammar: the first quote that is not escaped ends them.  *)

(* Which symbols of a text are escaped is defined, from the left.          *)
LEMMA EscapesExist ==
  ASSUME NEW s, Len(s) \in Nat, DOMAIN s = 1..Len(s)
  PROVE  \E esc :
           /\ \A i \in 1..Len(s) :
                esc[i] <=> i > 1 /\ s[i - 1] = Backslash /\ ~esc[i - 1]
           /\ \A i : i \in OpenQuotes(s) <=>
                       i \in 1..Len(s) /\ s[i] = Quote /\ ~esc[i]
<1> DEFINE N == Len(s)
           rhs(f) == [i \in 0..N |->
                        i > 1 /\ s[i - 1] = Backslash /\ ~f[i - 1]]
           c == CHOOSE f : f = rhs(f)
           step == [i \in 1..N |-> [v \in BOOLEAN |->
                      i > 1 /\ s[i - 1] = Backslash /\ ~v]]
<1>1. step \in [1..N -> [BOOLEAN -> BOOLEAN]]
  OBVIOUS
<1>2. PICK g \in [0..N -> BOOLEAN] : Unfolds(g, N, FALSE, step)
  <2> HIDE DEF step
  <2> QED
    BY <1>1, Recursion
<1>3. g = rhs(g)
  <2>1. ASSUME NEW i \in 0..N
        PROVE  g[i] = (i > 1 /\ s[i - 1] = Backslash /\ ~g[i - 1])
    <3>1. CASE i = 0
      <4>1. g[i] = FALSE /\ ~(i > 1)
        BY <1>2, <3>1 DEF Unfolds
      <4> QED
        BY <4>1
    <3>2. CASE i # 0
      <4>1. i \in 1..N /\ g[i - 1] \in BOOLEAN
        BY <2>1, <3>2
      <4>2. g[i] = step[i][g[i - 1]]
        BY <1>2, <4>1 DEF Unfolds
      <4> QED
        BY <4>1, <4>2
    <3> QED
      BY <3>1, <3>2
  <2> QED
    BY <1>2, <2>1
<1>4. c = rhs(c)
  <2> HIDE DEF rhs
  <2> QED
    BY <1>3
<1>5. OpenQuotes(s) = {i \in DOMAIN s : s[i] = Quote /\ ~c[i]}
  BY Zenon DEF OpenQuotes
<1> HIDE DEF c
<1>6. ASSUME NEW i \in 1..N
      PROVE  c[i] <=> i > 1 /\ s[i - 1] = Backslash /\ ~c[i - 1]
  <2>1. PICK r : r = rhs(c)
    OBVIOUS
  <2>2. r[i] <=> i > 1 /\ s[i - 1] = Backslash /\ ~c[i - 1]
    <3>1. i \in 0..N
      OBVIOUS
    <3> QED
      BY <2>1, <3>1, Zenon
  <2> QED
    BY <1>4, <2>1, <2>2, Zenon
<1>7. \A i : i \in OpenQuotes(s) <=> i \in 1..N /\ s[i] = Quote /\ ~c[i]
  BY <1>5, Zenon
<1> QED
  BY <1>6, <1>7, Zenon

(* a part of a text, and the symbols in it                                 *)
LEMMA PartIs ==
  ASSUME NEW m, IsText(m), NEW p \in 1..Len(m) + 1, NEW b \in p - 1..Len(m)
  PROVE  /\ Len(SubSeq(m, p, b)) = b - p + 1
         /\ DOMAIN SubSeq(m, p, b) = 1..b - p + 1
         /\ \A i \in 1..b - p + 1 : SubSeq(m, p, b)[i] = At(m, p + i - 1)
<1>1. Len(m) \in Nat /\ m \in Seq(Chars(m))
  BY LenIs DEF IsText
<1>2. /\ Len(SubSeq(m, p, b)) = IF p <= b THEN b - p + 1 ELSE 0
      /\ \A i \in 1..b - p + 1 : SubSeq(m, p, b)[i] = m[p + i - 1]
      /\ DOMAIN SubSeq(m, p, b) = 1..Len(SubSeq(m, p, b))
  BY <1>1
<1>3. Len(SubSeq(m, p, b)) = b - p + 1
  BY <1>1, <1>2
<1>4. \A i \in 1..b - p + 1 : p + i - 1 \in Nat /\ p + i - 1 <= Len(m)
  BY <1>1
<1> QED
  BY <1>2, <1>3, <1>4 DEF At

(* The walk of parse_string ends at the first open quote, if there is one. *)
LEMMA WalkEnds ==
  ASSUME NEW m, IsText(m), NEW p \in 1..Len(m), NEW b \in p..Len(m),
         At(m, p) = Quote
  PROVE  LET open == {i + p - 1 : i \in OpenQuotes(SubSeq(m, p, b))}
             e == Counted(m, p + 1).end
         IN /\ e \in Nat /\ e > p /\ open \subseteq p..b /\ p \in open
            /\ \A r \in p + 1..e - 1 : r \notin open
            /\ e <= b => e \in open
<1> DEFINE t == SubSeq(m, p, b)
           n == b - p + 1
           Open(r) == r - p + 1 \in OpenQuotes(t)
           End(q) == Counted(m, q).end
           W(q) == /\ End(q) \in Nat /\ End(q) >= q
                   /\ \A r \in q..End(q) - 1 : ~Open(r)
                   /\ End(q) <= b => Open(End(q))
<1>1. Len(m) \in Nat
  BY LenIs
<1>2. /\ Len(t) = n /\ DOMAIN t = 1..n
      /\ \A i \in 1..n : t[i] = At(m, p + i - 1)
  BY <1>1, PartIs
<1> HIDE DEF t
<1>3. PICK esc :
        /\ \A i \in 1..n :
             esc[i] <=> i > 1 /\ t[i - 1] = Backslash /\ ~esc[i - 1]
        /\ \A i : i \in OpenQuotes(t) <=> i \in 1..n /\ t[i] = Quote /\ ~esc[i]
  <2>1. Len(t) \in Nat /\ DOMAIN t = 1..Len(t)
    BY <1>1, <1>2
  <2>2. PICK esc :
          /\ \A i \in 1..Len(t) :
               esc[i] <=> i > 1 /\ t[i - 1] = Backslash /\ ~esc[i - 1]
          /\ \A i : i \in OpenQuotes(t) <=>
                      i \in 1..Len(t) /\ t[i] = Quote /\ ~esc[i]
    BY <2>1, EscapesExist
  <2> QED
    BY <1>2, <2>2
<1>4. \A r \in Int : Open(r) <=> r \in p..b /\ At(m, r) = Quote /\ ~esc[r - p + 1]
  <2>1. \A r \in Int : /\ r - p + 1 \in 1..n <=> r \in p..b
                       /\ p + (r - p + 1) - 1 = r
    BY <1>1
  <2> QED
    BY <1>2, <1>3, <2>1
<1>5. \A r \in p + 1..b :
        esc[r - p + 1] <=> At(m, r - 1) = Backslash /\ ~esc[r - p]
  <2>1. \A r \in p + 1..b : /\ r - p + 1 \in 1..n /\ r - p + 1 > 1
                            /\ r - p \in 1..n /\ (r - p + 1) - 1 = r - p
                            /\ p + (r - p) - 1 = r - 1
    BY <1>1
  <2> QED
    BY <1>2, <1>3, <2>1
<1>6. ~esc[1]
  BY <1>1, <1>3
<1> DEFINE T == {k \in Nat : \A q \in p + 1..b + 2 :
                   b + 2 < q + k /\ (q <= b => ~esc[q - p + 1]) => W(q)}
<1>7. 0 \in T
  BY <1>1
<1>8. ASSUME NEW k \in Nat, k \in T PROVE k + 1 \in T
  <2>1. SUFFICES ASSUME NEW q \in p + 1..b + 2, b + 2 < q + (k + 1),
                        q <= b => ~esc[q - p + 1]
                 PROVE  W(q)
    OBVIOUS
  <2>2. q \in 1..Len(m) + 2 /\ q \in Nat \ {0}
    BY <1>1
  <2>3. CASE At(m, q) \in {Quote, NUL}
    <3>1. End(q) = q
      BY <2>2, <2>3, CountedIs
    <3>2. q <= b => At(m, q) = Quote /\ Open(q)
      <4>1. q <= b => q <= Len(m) /\ q \in Int /\ q \in p..b
        BY <1>1
      <4>2. q <= b => At(m, q) # NUL
        BY <2>2, <4>1, AtIs
      <4> HIDE DEF Open
      <4> QED
        BY <1>4, <2>1, <2>3, <4>1, <4>2
    <3> HIDE DEF Open, End
    <3> QED
      BY <2>2, <3>1, <3>2
  <2>4. CASE At(m, q) \notin {Quote, NUL}
    <3>1. PICK a \in q + 1..Len(m) + 2 :
            a = Behind(m, q) /\ Counted(m, q).end = Counted(m, a).end
      BY <2>2, <2>4, CountedIs
    <3>2. End(q) = End(a)
      BY <3>1
    <3>3. ~Open(q)
      BY <1>4, <2>2, <2>4
    <3>4. CASE a > b + 2
      <4>1. q > b
        BY <1>1, <2>2, <3>1, <3>4 DEF Behind
      <4>2. \A r \in Int : r > b => ~Open(r)
        <5> HIDE DEF Open
        <5> QED
          BY <1>1, <1>4
      <4>3. End(q) \in Nat /\ q <= End(q)
        BY <2>2, WalkBounds
      <4> HIDE DEF Open, End
      <4> QED
        BY <1>1, <2>2, <4>1, <4>2, <4>3
    <3>5. CASE a <= b + 2 /\ At(m, q) # Backslash
      <4>1. a = q + 1 /\ a \in p + 1..b + 2 /\ b + 2 < a + k
        BY <1>1, <2>1, <3>1, <3>5 DEF Behind
      <4>2. a <= b => ~esc[a - p + 1]
        <5>1. a <= b => a \in p + 1..b /\ a - 1 = q
          BY <1>1, <4>1
        <5> QED
          BY <1>5, <3>5, <5>1
      <4>3. W(a)
        BY <1>8, <4>1, <4>2
      <4> HIDE DEF Open, End
      <4> QED
        BY <1>1, <2>2, <3>2, <3>3, <4>1, <4>3
    <3>6. CASE a <= b + 2 /\ At(m, q) = Backslash
      <4>1. a = q + 2 /\ a \in p + 1..b + 2 /\ b + 2 < a + k /\ q <= b
        BY <1>1, <2>1, <3>1, <3>6 DEF Behind
      <4>2. q + 1 <= b => esc[q + 1 - p + 1]
        <5>1. SUFFICES ASSUME q + 1 <= b PROVE esc[q + 1 - p + 1]
          OBVIOUS
        <5>2. PICK r \in p + 1..b : r = q + 1 /\ r - 1 = q /\ r - p = q - p + 1
          BY <1>1, <2>2, <5>1
        <5>3. ~esc[r - p]
          BY <2>1, <4>1, <5>2
        <5>4. esc[r - p + 1]
          BY <1>5, <3>6, <5>2, <5>3
        <5> QED
          BY <5>2, <5>4
      <4>3. ~Open(q + 1)
        <5>1. q + 1 \in Int /\ (q + 1 \in p..b => q + 1 <= b)
          BY <1>1, <2>2
        <5> HIDE DEF Open
        <5> QED
          BY <1>4, <4>2, <5>1
      <4>4. a <= b => ~esc[a - p + 1]
        <5>1. a <= b => a \in p + 1..b /\ a - p = q + 1 - p + 1 /\ q + 1 <= b
          BY <1>1, <2>2, <4>1
        <5> QED
          BY <1>5, <4>2, <5>1
      <4>5. W(a)
        BY <1>8, <4>1, <4>4
      <4>6. \A r \in q..End(a) - 1 : r = q \/ r = q + 1 \/ r \in a..End(a) - 1
        <5> HIDE DEF End, Open
        <5> QED
          BY <1>1, <2>2, <4>1, <4>5
      <4> HIDE DEF Open, End
      <4> QED
        BY <1>1, <2>2, <3>2, <3>3, <4>1, <4>3, <4>5, <4>6
    <3> QED
      BY <1>1, <3>1, <3>4, <3>5, <3>6
  <2> QED
    BY <2>3, <2>4
<1>9. Nat \subseteq T
  <2> HIDE DEF T
  <2> QED
    BY <1>7, <1>8, SetInduction
<1>10. W(p + 1)
  <2>1. b + 2 \in T
    <3> HIDE DEF T
    <3> QED
      BY <1>1, <1>9
  <2>2. p + 1 \in p + 1..b + 2 /\ b + 2 < (p + 1) + (b + 2)
    BY <1>1
  <2>3. p + 1 <= b => ~esc[(p + 1) - p + 1]
    <3>1. p + 1 <= b => /\ p + 1 \in p + 1..b /\ (p + 1) - 1 = p
      BY <1>1
    <3> QED
      BY <1>5, <3>1, SymbolsDiffer
  <2> HIDE DEF W
  <2> QED
    BY <2>1, <2>2, <2>3
<1> DEFINE open == {i + p - 1 : i \in OpenQuotes(t)}
<1>11. OpenQuotes(t) \subseteq 1..n
  BY <1>3
<1>12. \A r \in Int : r \in open <=> Open(r)
  <2>1. \A i \in 1..n : i \in Int /\ (i + p - 1) - p + 1 = i
    BY <1>1
  <2>2. \A r \in Int : (r - p + 1) + p - 1 = r
    OBVIOUS
  <2> QED
    BY <1>11, <2>1, <2>2
<1>13. open \subseteq p..b
  BY <1>1, <1>11
<1>14. p \in open
  <2>1. p \in Int /\ p \in p..b /\ p - p + 1 = 1
    BY <1>1
  <2> HIDE DEF open, Open
  <2> QED
    BY <1>4, <1>6, <1>12, <2>1
<1> HIDE DEF open, Open
<1> QED
  BY <1>1, <1>10, <1>12, <1>13, <1>14 DEF t, open

(* The end of the string at p, read in the grammar.                        *)
LEMMA StringIff ==
  ASSUME NEW m, IsText(m), NEW p \in 1..Len(m), NEW b \in p..Len(m)
  PROVE  IsString(SubSeq(m, p, b)) <=>
           At(m, p) = Quote /\ Counted(m, p + 1).end = b
<1>1. PICK t, n : /\ t = SubSeq(m, p, b) /\ n = b - p + 1 /\ Len(t) = n
                  /\ \A i \in 1..n : t[i] = At(m, p + i - 1)
  <2>1. Len(m) \in Nat /\ b \in p - 1..Len(m) /\ p \in 1..Len(m) + 1
    BY LenIs
  <2>2. /\ Len(SubSeq(m, p, b)) = b - p + 1
        /\ \A i \in 1..b - p + 1 : SubSeq(m, p, b)[i] = At(m, p + i - 1)
    BY <2>1, PartIs
  <2>3. PICK t, n : t = SubSeq(m, p, b) /\ n = b - p + 1
    OBVIOUS
  <2> QED
    BY <2>2, <2>3
<1>2. Len(m) \in Nat /\ n \in Nat /\ 1 \in 1..n /\ n \in 1..n
  BY <1>1, LenIs
<1>3. t[1] = At(m, p) /\ t[n] = At(m, b)
  <2>1. p + 1 - 1 = p /\ p + n - 1 = b
    BY <1>1, <1>2
  <2> QED
    BY <1>1, <1>2, <2>1
<1>4. IsString(t) <=> /\ n > 1 /\ At(m, p) = Quote /\ At(m, b) = Quote
                      /\ OpenQuotes(t) = {1, n}
  BY <1>1, <1>3, Zenon DEF IsString
<1>5. SUFFICES ASSUME At(m, p) = Quote
               PROVE  IsString(t) <=> Counted(m, p + 1).end = b
  BY <1>1, <1>4
<1>6. PICK e, open : /\ e = Counted(m, p + 1).end
                     /\ open = {i + p - 1 : i \in OpenQuotes(t)}
  OBVIOUS
<1>7. /\ e \in Nat /\ e > p /\ open \subseteq p..b /\ p \in open
      /\ \A r \in p + 1..e - 1 : r \notin open
      /\ e <= b => e \in open
  BY <1>1, <1>2, <1>5, <1>6, WalkEnds
<1>8. \A i \in OpenQuotes(t) : i \in 1..n
  <2>1. Len(t) \in Nat /\ DOMAIN t = 1..n
    BY <1>1, <1>2, PartIs
  <2> QED
    BY <2>1, Zenon DEF OpenQuotes
<1>9. CASE e = b
  <2>1. open = {p, b}
    <3>1. \A r \in p..b : r = p \/ r = b \/ r \in p + 1..e - 1
      BY <1>2, <1>9
    <3>2. b \in open
      BY <1>2, <1>7, <1>9
    <3> QED
      BY <1>7, <3>1, <3>2
  <2>2. \A i \in 1..n : i \in OpenQuotes(t) <=> i + p - 1 \in open
    <3>1. \A i, j \in 1..n : i + p - 1 = j + p - 1 => i = j
      BY <1>2
    <3> QED
      BY <1>6, <1>7, <1>8, <3>1
  <2>3. OpenQuotes(t) = {1, n}
    <3>1. \A i \in 1..n : i + p - 1 \in {p, b} <=> i \in {1, n}
      BY <1>1, <1>2
    <3> QED
      BY <1>2, <1>8, <2>1, <2>2, <3>1
  <2>4. n > 1
    BY <1>1, <1>2, <1>6, <1>7, <1>9
  <2>5. At(m, b) = Quote
    <3>1. n \in OpenQuotes(t)
      BY <2>3
    <3>2. t[n] = Quote
      BY <3>1, Zenon DEF OpenQuotes
    <3> QED
      BY <1>3, <3>2
  <2> QED
    BY <1>4, <1>5, <1>6, <1>7, <1>9, <2>3, <2>4, <2>5
<1>10. CASE e # b
  <2>1. SUFFICES ASSUME n > 1, OpenQuotes(t) = {1, n} PROVE FALSE
    BY <1>4, <1>6, <1>7, <1>10
  <2>2. open = {p, b}
    <3>1. 1 + p - 1 = p /\ n + p - 1 = b
      BY <1>1, <1>2
    <3> QED
      BY <1>6, <1>7, <2>1, <3>1
  <2>3. e < b \/ b \in p + 1..e - 1
    BY <1>1, <1>2, <1>6, <1>7, <1>10, <2>1
  <2>4. CASE e < b
    <3>1. e \in open /\ e # p /\ e # b
      BY <1>2, <1>7, <2>4
    <3> QED
      BY <2>2, <3>1
  <2>5. CASE b \in p + 1..e - 1
    <3>1. b \notin open
      BY <1>7, <2>5
    <3> QED
      BY <2>2, <3>1
  <2> QED
    BY <2>3, <2>4, <2>5
<1> QED
  BY <1>9, <1>10

(* A string that is not closed reaches to the end of the text.             *)
LEMMA UnclosedIff ==
  ASSUME NEW m, IsText(m), NEW p \in 1..Len(m)
  PROVE  IsUnclosed(SubSeq(m, p, Len(m))) <=>
           At(m, p) = Quote /\ Counted(m, p + 1).end > Len(m)
<1> DEFINE b == Len(m)
<1>1. PICK t, n : /\ t = SubSeq(m, p, b) /\ n = b - p + 1 /\ Len(t) = n
                  /\ \A i \in 1..n : t[i] = At(m, p + i - 1)
  <2>1. Len(m) \in Nat /\ b \in p - 1..Len(m) /\ p \in 1..Len(m) + 1
    BY LenIs
  <2>2. /\ Len(SubSeq(m, p, b)) = b - p + 1
        /\ \A i \in 1..b - p + 1 : SubSeq(m, p, b)[i] = At(m, p + i - 1)
    <3> HIDE DEF b
    <3> QED
      BY <2>1, PartIs
  <2>3. PICK t, n : t = SubSeq(m, p, b) /\ n = b - p + 1
    OBVIOUS
  <2> QED
    BY <2>2, <2>3
<1>2. b \in Nat /\ n \in Nat /\ 1 \in 1..n /\ b \in p..b
  BY <1>1, LenIs
<1>3. t[1] = At(m, p) /\ t # <<>>
  <2>1. p + 1 - 1 = p
    BY <1>2
  <2>2. t[1] = At(m, p)
    BY <1>1, <1>2, <2>1
  <2>3. n # 0
    BY <1>1, <1>2
  <2>4. t = <<>> => Len(t) = 0
    BY EmptySeq
  <2> QED
    BY <1>1, <2>2, <2>3, <2>4
<1>4. IsUnclosed(t) <=> At(m, p) = Quote /\ OpenQuotes(t) = {1}
  BY <1>3, Zenon DEF IsUnclosed
<1>5. SUFFICES ASSUME At(m, p) = Quote
               PROVE  IsUnclosed(t) <=> Counted(m, p + 1).end > b
  BY <1>1, <1>4
<1>6. PICK e, open : /\ e = Counted(m, p + 1).end
                     /\ open = {i + p - 1 : i \in OpenQuotes(t)}
  OBVIOUS
<1>7. /\ e \in Nat /\ e > p /\ open \subseteq p..b /\ p \in open
      /\ \A r \in p + 1..e - 1 : r \notin open
      /\ e <= b => e \in open
  <2>1. b = Len(m)
    OBVIOUS
  <2> HIDE DEF b
  <2> QED
    BY <1>1, <1>2, <1>5, <1>6, <2>1, WalkEnds, ZenonT(60)
<1>8. \A i \in OpenQuotes(t) : i \in 1..n
  <2>1. Len(t) \in Nat /\ DOMAIN t = 1..n
    BY <1>1, <1>2, PartIs
  <2> QED
    BY <2>1, Zenon DEF OpenQuotes
<1>9. CASE e > b
  <2>1. \A i \in OpenQuotes(t) : i + p - 1 = p
    <3>1. \A r \in p..b : r = p \/ r \in p + 1..e - 1
      BY <1>2, <1>7, <1>9
    <3>2. \A r \in open : r = p
      BY <1>7, <3>1
    <3> QED
      BY <1>6, <3>2
  <2>2. \A i \in OpenQuotes(t) : i = 1
    BY <1>2, <1>8, <2>1
  <2>3. OpenQuotes(t) # {}
    BY <1>6, <1>7
  <2> QED
    BY <1>4, <1>5, <1>6, <1>7, <1>9, <2>2, <2>3
<1>10. CASE ~(e > b)
  <2>1. SUFFICES ASSUME OpenQuotes(t) = {1} PROVE FALSE
    BY <1>4, <1>6, <1>7, <1>10
  <2>2. open = {p}
    <3>1. 1 + p - 1 = p
      BY <1>2
    <3> QED
      BY <1>6, <1>7, <2>1, <3>1
  <2>3. e \in open /\ e # p
    BY <1>2, <1>7, <1>10
  <2> QED
    BY <2>2, <2>3
<1> QED
  BY <1>9, <1>10

-----------------------------------------------------------------------------
(* The grammar's function is a fixed point of its definition.              *)

Parts == {"value", "pair", "values", "pairs"}

Rule(is, s, what, i, j) ==
  i <= j /\
    CASE what = "value" -> IsValue(is, s, i, j)
      [] what = "pair" -> IsPair(is, s, i, j)
      [] what = "values" -> IsList(is, s, what, i, j, "value")
      [] what = "pairs" -> IsList(is, s, what, i, j, "pair")

(* f is g for everything shorter within i..j, and for nothing at all       *)
SameInside(s, f, g, i, j) ==
  \A what \in Parts : \A a \in i..Len(s) + 1 : \A b \in 0..j :
    a # i \/ b # j => f[what][a][b] = g[what][a][b]

SamePart(f, g, what, i, j) == f[what][i][j] = g[what][i][j]

(* Whether a part is a value depends on shorter parts only,                *)
LEMMA IsValueStep ==
  ASSUME NEW s, Len(s) \in Nat, NEW f, NEW g, NEW i \in 1..Len(s) + 1,
         NEW j \in 0..Len(s), i <= j, SameInside(s, f, g, i, j)
  PROVE  IsValue(f, s, i, j) <=> IsValue(g, s, i, j)
<1>1. f["value"][i + 1][j] = g["value"][i + 1][j]
  <2>1. i + 1 \in i..Len(s) + 1 /\ j \in 0..j /\ i + 1 # i /\ "value" \in Parts
    BY DEF Parts
  <2> QED
    BY <2>1 DEF SameInside
<1>2. f["value"][i][j - 1] = g["value"][i][j - 1]
  <2>1. i \in i..Len(s) + 1 /\ j - 1 \in 0..j /\ j - 1 # j /\ "value" \in Parts
    BY DEF Parts
  <2> QED
    BY <2>1 DEF SameInside
<1>3. ASSUME NEW open, NEW close, NEW list \in Parts
      PROVE  Bracketed(f, s, i, j, open, close, list)
               <=> Bracketed(g, s, i, j, open, close, list)
  <2>1. CASE i < j
    <3>1. /\ i + 1 \in i..Len(s) + 1 /\ j - 1 \in 0..j /\ j - 1 # j
      BY <2>1
    <3>2. f[list][i + 1][j - 1] = g[list][i + 1][j - 1]
      BY <3>1 DEF SameInside
    <3> QED
      BY <3>2, Zenon DEF Bracketed
  <2>2. CASE ~(i < j)
    BY <2>2, Zenon DEF Bracketed
  <2> QED
    BY <2>1, <2>2
<1>4. /\ Bracketed(f, s, i, j, OpenArray, CloseArray, "values")
           <=> Bracketed(g, s, i, j, OpenArray, CloseArray, "values")
      /\ Bracketed(f, s, i, j, OpenObject, CloseObject, "pairs")
           <=> Bracketed(g, s, i, j, OpenObject, CloseObject, "pairs")
  BY <1>3 DEF Parts
<1> QED
  BY <1>1, <1>2, <1>4, Zenon DEF IsValue

(* whether it is a pair,                                                   *)
LEMMA IsPairStep ==
  ASSUME NEW s, Len(s) \in Nat, NEW f, NEW g, NEW i \in 1..Len(s) + 1,
         NEW j \in 0..Len(s), i <= j, SameInside(s, f, g, i, j)
  PROVE  IsPair(f, s, i, j) <=> IsPair(g, s, i, j)
<1>1. ASSUME NEW k \in i..j
      PROVE  f["value"][k + 1][j] = g["value"][k + 1][j]
  <2>1. k + 1 \in i..Len(s) + 1 /\ j \in 0..j /\ k + 1 # i /\ "value" \in Parts
    BY DEF Parts
  <2> QED
    BY <2>1 DEF SameInside
<1> QED
  BY <1>1, Zenon DEF IsPair

(* whether it is a list,                                                   *)
LEMMA IsListStep ==
  ASSUME NEW s, Len(s) \in Nat, NEW f, NEW g, NEW i \in 1..Len(s) + 1,
         NEW j \in 0..Len(s), i <= j, SameInside(s, f, g, i, j),
         NEW what \in Parts, NEW one \in Parts, SamePart(f, g, one, i, j)
  PROVE  IsList(f, s, what, i, j, one) <=> IsList(g, s, what, i, j, one)
<1>1. ASSUME NEW k \in i..j
      PROVE  /\ f[one][i][k - 1] = g[one][i][k - 1]
             /\ f[what][k + 1][j] = g[what][k + 1][j]
  <2>1. k + 1 \in i..Len(s) + 1 /\ j \in 0..j /\ k + 1 # i
    OBVIOUS
  <2>2. i \in i..Len(s) + 1 /\ k - 1 \in 0..j /\ k - 1 # j
    OBVIOUS
  <2> QED
    BY <2>1, <2>2 DEF SameInside
<1> QED
  BY <1>1, Zenon DEF IsList, SamePart

OneOf(what) == IF what = "values" THEN "value" ELSE "pair"

SameOne(f, g, what, i, j) ==
  what \in {"value", "pair"} \/ SamePart(f, g, OneOf(what), i, j)

(* and so every rule of the grammar.                                       *)
LEMMA RuleStep ==
  ASSUME NEW s, Len(s) \in Nat, NEW f, NEW g, NEW what \in Parts,
         NEW i \in 1..Len(s) + 1, NEW j \in 0..Len(s), SameInside(s, f, g, i, j),
         SameOne(f, g, what, i, j)
  PROVE  Rule(f, s, what, i, j) = Rule(g, s, what, i, j)
<1>1. CASE ~(i <= j)
  BY <1>1 DEF Rule
<1>2. CASE i <= j
  <2>1. CASE what = "value"
    <3>1. IsValue(f, s, i, j) <=> IsValue(g, s, i, j)
      BY <1>2, IsValueStep
    <3>2. \A h : Rule(h, s, what, i, j) <=> IsValue(h, s, i, j)
      BY <1>2, <2>1 DEF Rule
    <3> QED
      BY <3>1, <3>2 DEF Rule
  <2>2. CASE what = "pair"
    <3>1. IsPair(f, s, i, j) <=> IsPair(g, s, i, j)
      BY <1>2, IsPairStep
    <3>2. \A h : Rule(h, s, what, i, j) <=> IsPair(h, s, i, j)
      BY <1>2, <2>2 DEF Rule
    <3> QED
      BY <3>1, <3>2 DEF Rule
  <2>3. CASE what \in {"values", "pairs"}
    <3>1. OneOf(what) \in Parts
      BY DEF OneOf, Parts
    <3>2. SamePart(f, g, OneOf(what), i, j)
      BY <2>3 DEF SameOne
    <3>3. IsList(f, s, what, i, j, OneOf(what))
            <=> IsList(g, s, what, i, j, OneOf(what))
      BY <1>2, <3>1, <3>2, IsListStep
    <3>4. \A h : Rule(h, s, what, i, j) <=> IsList(h, s, what, i, j, OneOf(what))
      BY <1>2, <2>3 DEF Rule, OneOf
    <3> QED
      BY <3>3, <3>4 DEF Rule
  <2> QED
    BY <2>1, <2>2, <2>3 DEF Parts
<1> QED
  BY <1>1, <1>2

(* what is looked at comes earlier in this order                           *)
Extent(what, i, j) ==
  IF i <= j THEN 2 * (j - i) + (IF what \in {"value", "pair"} THEN 1 ELSE 2)
  ELSE 0

(* The order is one: what is looked at has a smaller number.               *)
LEMMA SizeIs ==
  ASSUME NEW n \in Nat, NEW what \in Parts, NEW i \in 1..n + 1, NEW j \in 0..n
  PROVE  /\ Extent(what, i, j) \in Nat /\ Extent(what, i, j) < 2 * n + 3
         /\ i <= j =>
              /\ \A other \in Parts : \A a \in i..n + 1 : \A b \in 0..j :
                   a # i \/ b # j => Extent(other, a, b) < Extent(what, i, j)
              /\ what \notin {"value", "pair"} =>
                   Extent(OneOf(what), i, j) < Extent(what, i, j)
<1>1. PICK d \in {1, 2} :
        /\ i <= j => Extent(what, i, j) = 2 * (j - i) + d
        /\ what \notin {"value", "pair"} => d = 2
  BY DEF Extent
<1>2. ~(i <= j) => Extent(what, i, j) = 0
  BY DEF Extent
<1>3. ASSUME i <= j, NEW other \in Parts, NEW a \in i..n + 1, NEW b \in 0..j,
             a # i \/ b # j
      PROVE  Extent(other, a, b) < Extent(what, i, j)
  <2>1. PICK e \in {1, 2} : a <= b => Extent(other, a, b) = 2 * (b - a) + e
    BY DEF Extent
  <2>2. ~(a <= b) => Extent(other, a, b) = 0
    BY DEF Extent
  <2> QED
    BY <1>1, <1>3, <2>1, <2>2
<1>4. i <= j => Extent(OneOf(what), i, j) = 2 * (j - i) + 1
  BY DEF Extent, OneOf
<1>5. /\ Extent(what, i, j) \in Nat /\ Extent(what, i, j) < 2 * n + 3
  BY <1>1, <1>2
<1>6. i <= j /\ what \notin {"value", "pair"} =>
        Extent(OneOf(what), i, j) < Extent(what, i, j)
  BY <1>1, <1>4
<1> QED
  BY <1>3, <1>5, <1>6

IsGrammar(s, g) ==
  /\ g = [what \in Parts |-> [i \in 1..(Len(s) + 1) |-> [j \in 0..Len(s) |->
            g[what][i][j]]]]

(* There is a function that obeys the rules.                               *)
LEMMA GrammarExists ==
  ASSUME NEW s, Len(s) \in Nat
  PROVE  \E g : g = [what \in Parts |->
                       [i \in 1..(Len(s) + 1) |-> [j \in 0..Len(s) |->
                          Rule(g, s, what, i, j)]]]
<1> DEFINE N == Len(s)
           rhs(f) == [what \in Parts |-> [i \in 1..(N + 1) |-> [j \in 0..N |->
                        Rule(f, s, what, i, j)]]]
           Right(g, n) ==
             /\ IsGrammar(s, g)
             /\ \A what \in Parts : \A i \in 1..(N + 1) : \A j \in 0..N :
                  Extent(what, i, j) < n =>
                    g[what][i][j] = Rule(g, s, what, i, j)
           T == {n \in Nat : \E g : Right(g, n)}
<1>0. \A f : \A what \in Parts : \A i \in 1..(N + 1) : \A j \in 0..N :
        rhs(f)[what][i][j] = Rule(f, s, what, i, j)
  BY Zenon
<1>1. 0 \in T
  <2>1. PICK g : g = [what \in Parts |-> [i \in 1..(N + 1) |-> [j \in 0..N |->
                        TRUE]]]
    OBVIOUS
  <2>2. \A what \in Parts : \A i \in 1..(N + 1) : \A j \in 0..N :
          g[what][i][j] = TRUE
    BY <2>1, Zenon
  <2>3. IsGrammar(s, g)
    BY <2>1, <2>2, Zenon DEF IsGrammar
  <2>4. \A what \in Parts : \A i \in 1..(N + 1) : \A j \in 0..N :
          ~(Extent(what, i, j) < 0)
    BY SizeIs
  <2>5. Right(g, 0)
    BY <2>3, <2>4
  <2> HIDE DEF Right
  <2> QED
    BY <2>5
<1>2. ASSUME NEW n \in Nat, n \in T PROVE n + 1 \in T
  <2>1. PICK g : Right(g, n)
    BY <1>2
  <2>2. PICK h : h = rhs(g)
    OBVIOUS
  <2>3. \A what \in Parts : \A i \in 1..(N + 1) : \A j \in 0..N :
          h[what][i][j] = Rule(g, s, what, i, j)
    BY <2>2, <1>0, Zenon
  <2>4. IsGrammar(s, h)
    BY <2>2, <2>3, Zenon DEF IsGrammar
  <2>5. ASSUME NEW what \in Parts, NEW i \in 1..(N + 1), NEW j \in 0..N,
               Extent(what, i, j) < n + 1
        PROVE  h[what][i][j] = Rule(h, s, what, i, j)
    <3>1. ASSUME NEW other \in Parts, NEW a \in 1..(N + 1), NEW b \in 0..N,
                 Extent(other, a, b) < Extent(what, i, j)
          PROVE  h[other][a][b] = g[other][a][b]
      <4>1. Extent(other, a, b) < n
        <5>1. Extent(other, a, b) \in Nat /\ Extent(what, i, j) \in Nat
          BY SizeIs
        <5> QED
          BY <2>5, <3>1, <5>1
      <4> HIDE DEF rhs
      <4> QED
        BY <2>1, <2>3, <4>1
    <3>2. CASE ~(i <= j)
      <4>1. Rule(g, s, what, i, j) = Rule(h, s, what, i, j)
        BY <3>2 DEF Rule
      <4> QED
        BY <2>3, <4>1, Zenon
    <3>3. CASE i <= j
      <4>1. SameInside(s, h, g, i, j)
        <5>1. ASSUME NEW other \in Parts, NEW a \in i..N + 1, NEW b \in 0..j,
                     a # i \/ b # j
              PROVE  h[other][a][b] = g[other][a][b]
          <6>1. a \in 1..N + 1 /\ b \in 0..N
            OBVIOUS
          <6>2. Extent(other, a, b) < Extent(what, i, j)
            BY <3>3, <5>1, SizeIs
          <6> QED
            BY <3>1, <6>1, <6>2
        <5> QED
          BY <5>1, Zenon DEF SameInside
      <4>2. SameOne(h, g, what, i, j)
        <5>1. OneOf(what) \in Parts
          BY DEF OneOf, Parts
        <5> QED
          BY <3>1, <3>3, <5>1, SizeIs DEF SamePart, SameOne
      <4>3. Rule(h, s, what, i, j) = Rule(g, s, what, i, j)
        <5> HIDE DEF Right, T, rhs
        <5> QED
          BY <4>1, <4>2, RuleStep
      <4> QED
        BY <2>3, <4>3, Zenon
    <3> QED
      BY <3>2, <3>3
  <2>6. Right(h, n + 1)
    BY <2>4, <2>5
  <2> HIDE DEF Right
  <2> QED
    BY <2>6
<1>3. Nat \subseteq T
  <2> HIDE DEF T
  <2> QED
    BY <1>1, <1>2, SetInduction
<1>4. PICK g : Right(g, 2 * N + 3)
  <2>1. 2 * N + 3 \in T
    <3> HIDE DEF T
    <3> QED
      BY <1>3
  <2> HIDE DEF Right
  <2> QED
    BY <2>1
<1>5. \A what \in Parts : \A i \in 1..(N + 1) : \A j \in 0..N :
        Extent(what, i, j) < 2 * N + 3
  BY SizeIs
<1>6. \A what \in Parts : \A i \in 1..(N + 1) : \A j \in 0..N :
        g[what][i][j] = Rule(g, s, what, i, j)
  BY <1>4, <1>5
<1>7. g = rhs(g)
  <2>1. g = [what \in Parts |-> [i \in 1..(N + 1) |-> [j \in 0..N |->
               g[what][i][j]]]]
    BY <1>4 DEF IsGrammar
  <2>2. \A what \in Parts : \A i \in 1..(N + 1) :
          [j \in 0..N |-> g[what][i][j]] = [j \in 0..N |-> Rule(g, s, what, i, j)]
    BY <1>6, Zenon
  <2>3. \A what \in Parts :
          [i \in 1..(N + 1) |-> [j \in 0..N |-> g[what][i][j]]]
            = [i \in 1..(N + 1) |-> [j \in 0..N |-> Rule(g, s, what, i, j)]]
    BY <2>2, Zenon
  <2> QED
    BY <2>1, <2>3, Zenon
<1> QED
  BY <1>7

(* The grammar, rule by rule.                                              *)
LEMMA GrammarIs ==
  ASSUME NEW s, Len(s) \in Nat, NEW i \in 1..Len(s) + 1, NEW j \in 0..Len(s)
  PROVE  /\ Grammar(s)["value"][i][j] <=> i <= j /\ IsValue(Grammar(s), s, i, j)
         /\ Grammar(s)["pair"][i][j] <=> i <= j /\ IsPair(Grammar(s), s, i, j)
         /\ Grammar(s)["values"][i][j] <=>
              i <= j /\ IsList(Grammar(s), s, "values", i, j, "value")
         /\ Grammar(s)["pairs"][i][j] <=>
              i <= j /\ IsList(Grammar(s), s, "pairs", i, j, "pair")
<1> DEFINE N == Len(s)
           rhs(f) == [what \in Parts |-> [k \in 1..(N + 1) |-> [l \in 0..N |->
                        Rule(f, s, what, k, l)]]]
           c == CHOOSE f : f = rhs(f)
<1>1. c = rhs(c)
  <2>1. \E g : g = rhs(g)
    BY GrammarExists
  <2> HIDE DEF rhs
  <2> QED
    BY <2>1
<1>2. Grammar(s) = c
  BY Zenon DEF Grammar, Rule, Parts
<1> HIDE DEF c
<1>3. \A what \in Parts : c[what][i][j] = Rule(c, s, what, i, j)
  <2>1. PICK r : r = rhs(c)
    OBVIOUS
  <2>2. \A what \in Parts : r[what][i][j] = Rule(c, s, what, i, j)
    BY <2>1, Zenon
  <2>3. c = r
    BY <1>1, <2>1
  <2> QED
    BY <2>2, <2>3
<1>4. /\ Rule(c, s, "value", i, j) <=> i <= j /\ IsValue(c, s, i, j)
      /\ Rule(c, s, "pair", i, j) <=> i <= j /\ IsPair(c, s, i, j)
      /\ Rule(c, s, "values", i, j) <=>
           i <= j /\ IsList(c, s, "values", i, j, "value")
      /\ Rule(c, s, "pairs", i, j) <=>
           i <= j /\ IsList(c, s, "pairs", i, j, "pair")
  BY DEF Rule
<1>5. \A what \in Parts : c[what][i][j] <=> Rule(c, s, what, i, j)
  BY <1>3
<1>6. {"value", "pair", "values", "pairs"} \subseteq Parts
  BY DEF Parts
<1> QED
  BY <1>2, <1>4, <1>5, <1>6

-----------------------------------------------------------------------------
(* What the parser finds, by cases.                                        *)

Closes == {CloseArray, CloseObject}
Opens(close) == IF close = CloseArray THEN OpenArray ELSE OpenObject
TypeOf(close) == IF close = CloseArray THEN "array" ELSE "object"

Val(m, p) == Parser(m)["value"][p]
Lst(m, close, p) == Parser(m)[close][p]
PairAt(m, p) == Pair(Parser(m), m, p)
One(m, close, p) == Member(Parser(m), m, p, close)

(* Every position has a result, or none.                                   *)
LEMMA Results ==
  ASSUME NEW m, IsText(m), NEW p \in 1..Len(m) + 4
  PROVE  /\ IsResult(m, Val(m, p), p)
         /\ \A close \in Closes : IsResult(m, Lst(m, close, p), p)
         /\ IsResult(m, PairAt(m, p), p)
<1>1. "value" \in Kinds /\ Closes \subseteq Kinds
  BY DEF Kinds, Closes
<1>2. IsParse(m, Parser(m))
  BY ParserIs
<1>3. SameBehind(m, Parser(m), Parser(m), p)
  BY DEF SameBehind
<1>4. IsResult(m, PairAt(m, p), p)
  BY <1>2, <1>3, PairStep DEF PairAt
<1> QED
  BY <1>1, <1>2, <1>4 DEF IsParse, Val, Lst

(* a literal                                                               *)
LEMMA LiteralIs ==
  ASSUME NEW m, IsText(m), NEW p \in 1..Len(m) + 4, At(m, p) \in Scalars
  PROVE  Val(m, p) = [end |-> p + 1, item |-> New_Item("literal")]
<1>1. Val(m, p) = parse_value(Parser(m), m, p)
  BY ParserIs DEF Val
<1> QED
  BY <1>1, SymbolsDiffer DEF parse_value

(* a string                                                                *)
LEMMA QuoteIs ==
  ASSUME NEW m, IsText(m), NEW p \in 1..Len(m) + 4, At(m, p) = Quote
  PROVE  Val(m, p) = parse_string(m, p)
<1>1. Val(m, p) = parse_value(Parser(m), m, p)
  BY ParserIs DEF Val
<1> QED
  BY <1>1, SymbolsDiffer DEF parse_value

(* nothing that begins a value                                             *)
LEMMA OtherIs ==
  ASSUME NEW m, IsText(m), NEW p \in 1..Len(m) + 4,
         At(m, p) \notin Scalars \cup {Quote, OpenArray, OpenObject}
  PROVE  Val(m, p) = Failed
<1>1. Val(m, p) = parse_value(Parser(m), m, p)
  BY ParserIs DEF Val
<1> QED
  BY <1>1 DEF parse_value

(* an array or an object, whose first member begins at q                   *)
BracketSays(m, p, close, q) ==
  /\ q \in Nat /\ p < q /\ q <= Len(m) + 1
  /\ At(m, q) = close =>
       Val(m, p) = [end |-> q + 1, item |-> New_Item(TypeOf(close))]
  /\ At(m, q) # close =>
       /\ Val(m, p).end = Lst(m, close, q).end
       /\ Lst(m, close, q).end # 0 =>
            Val(m, p).item = [Lst(m, close, q).item EXCEPT !.type = TypeOf(close)]

(* The parser at a bracket.                                                *)
LEMMA BracketIs ==
  ASSUME NEW m, IsText(m), NEW p \in 1..Len(m), NEW close \in Closes,
         At(m, p) = Opens(close)
  PROVE  BracketSays(m, p, close, skip(m, p + 1))
<1>1. Val(m, p) = parse_value(Parser(m), m, p)
  <2>1. p \in 1..Len(m) + 4
    BY LenIs
  <2> QED
    BY <2>1, ParserIs DEF Val
<1>2. PICK q : q = skip(m, p + 1)
  OBVIOUS
<1>3. q \in Nat /\ p < q /\ q <= Len(m) + 1
  <2>1. p + 1 \in Nat \ {0} /\ p + 1 <= Len(m) + 1
    BY LenIs
  <2>2. q \in Nat \ {0} /\ p + 1 <= q /\ q <= Len(m) + 1
    BY <1>2, <2>1, SkipIs
  <2> QED
    BY <2>1, <2>2
<1>4. parse_value(Parser(m), m, p)
        = parse_members(Parser(m), m, p, TypeOf(close), close)
  <2>1. CASE close = CloseArray
    BY <2>1, SymbolsDiffer DEF parse_value, parse_array, TypeOf, Opens
  <2>2. CASE close = CloseObject
    BY <2>2, SymbolsDiffer DEF parse_value, parse_object, TypeOf, Opens
  <2> QED
    BY <2>1, <2>2 DEF Closes
<1>5. CASE At(m, q) = close
  BY <1>1, <1>2, <1>3, <1>4, <1>5 DEF parse_members, BracketSays
<1>6. CASE At(m, q) # close
  <2>1. PICK r : r = Lst(m, close, q)
    OBVIOUS
  <2>2. IsResult(m, r, q)
    <3>1. q \in 1..Len(m) + 4
      BY <1>3, LenIs
    <3> QED
      BY <2>1, <3>1, Results
  <2>3. Val(m, p) = IF r.end = 0 THEN r
                    ELSE [r EXCEPT !.item.type = TypeOf(close)]
    BY <1>1, <1>2, <1>4, <1>6, <2>1, Zenon DEF parse_members, Lst
  <2>4. /\ [r EXCEPT !.item.type = TypeOf(close)].end = r.end
        /\ [r EXCEPT !.item.type = TypeOf(close)].item
             = [r.item EXCEPT !.type = TypeOf(close)]
    BY <2>2, ItemChanged
  <2> QED
    BY <1>2, <1>3, <1>6, <2>1, <2>3, <2>4 DEF BracketSays
<1> QED
  BY <1>5, <1>6

(* one member: a value, or a pair in an object                             *)
LEMMA OneIs ==
  ASSUME NEW m
  PROVE  /\ \A p : One(m, CloseArray, p) = Val(m, p)
         /\ \A p : One(m, CloseObject, p) = PairAt(m, p)
BY SymbolsDiffer DEF One, Member, Val, PairAt

(* It has a result, or none.                                               *)
LEMMA OneResult ==
  ASSUME NEW m, IsText(m), NEW p \in 1..Len(m) + 4, NEW close \in Closes
  PROVE  IsResult(m, One(m, close, p), p)
BY Results, OneIs DEF Closes

(* a list by its first member and what follows, a comma or the bracket     *)
ListSays(m, close, p, first, next, rest) ==
  /\ first.end = 0 => Lst(m, close, p).end = 0
  /\ first.end # 0 =>
       /\ At(m, next) = close =>
            /\ Lst(m, close, p).end = next + 1
            /\ Lst(m, close, p).item =
                 [type |-> "list", string |-> <<>>,
                  valuestring |-> <<>>, child |-> <<first.item>>]
       /\ At(m, next) \notin {close, Comma} => Lst(m, close, p) = Failed
       /\ At(m, next) # close /\ At(m, next) = Comma =>
            /\ Lst(m, close, p).end = rest.end
            /\ Lst(m, close, p).item =
                 [rest.item EXCEPT !.child = <<first.item>> \o rest.item.child]

(* The parser at a list.                                                   *)
LEMMA ListIs ==
  ASSUME NEW m, IsText(m), NEW p \in 1..Len(m) + 4, NEW close \in Closes,
         NEW first, first = One(m, close, skip(m, p)),
         NEW next, next = skip(m, first.end)
  PROVE  ListSays(m, close, p, first, next, Lst(m, close, next + 1))
<1>1. first = One(m, close, skip(m, p)) /\ next = skip(m, first.end)
  OBVIOUS
<1>2. Lst(m, close, p) = Members(Parser(m), m, p, close)
  BY ParserIs DEF Lst, Closes
<1>3. CASE first.end = 0
  BY <1>1, <1>2, <1>3 DEF Members, Continued, One, ListSays
<1>4. CASE first.end # 0 /\ At(m, next) = close
  <2>1. PICK c : c = <<first.item>>
    OBVIOUS
  <2>2. [New_Item("list") EXCEPT !.child = c]
          = [type |-> "list", string |-> <<>>, valuestring |-> <<>>,
             child |-> c]
    BY DEF New_Item
  <2>3. [New_Item("list") EXCEPT !.child = <<first.item>>]
          = [New_Item("list") EXCEPT !.child = c]
    BY <2>1, Zenon
  <2>4. Members(Parser(m), m, p, close)
          = [end |-> next + 1,
             item |-> [New_Item("list") EXCEPT !.child = <<first.item>>]]
    BY <1>1, <1>4 DEF Members, Continued, One
  <2> QED
    BY <1>1, <1>2, <1>4, <2>1, <2>2, <2>3, <2>4 DEF ListSays
<1>5. CASE first.end # 0 /\ At(m, next) \notin {close, Comma}
  BY <1>1, <1>2, <1>5 DEF Members, Continued, One, ListSays
<1>6. CASE first.end # 0 /\ At(m, next) # close /\ At(m, next) = Comma
  <2>1. PICK r : r = Lst(m, close, next + 1)
    OBVIOUS
  <2>2. IsResult(m, r, next + 1)
    <3>1. PICK q : q = skip(m, p)
      OBVIOUS
    <3>2. Len(m) \in Nat /\ p \in Nat \ {0}
      BY LenIs
    <3>3. q \in Nat \ {0} /\ p <= q /\ (q <= Len(m) + 1 \/ q = p)
      BY <3>1, <3>2, SkipIs
    <3>4. q \in 1..Len(m) + 4
      BY <3>2, <3>3
    <3>5. IsResult(m, first, q)
      BY <1>1, <3>1, <3>4, OneResult
    <3>6. first.end \in Nat \ {0}
      BY <1>6, <3>5 DEF IsResult
    <3>7. next \in Nat \ {0}
      BY <1>1, <3>6, SkipIs
    <3>8. At(m, next) # NUL
      BY <1>6, SymbolsDiffer
    <3>9. next \in 1..Len(m)
      BY <3>7, <3>8, InText
    <3>10. next + 1 \in 1..Len(m) + 4
      BY <3>2, <3>9
    <3> QED
      BY <2>1, <3>10, Results
  <2>3. Members(Parser(m), m, p, close)
          = [r EXCEPT !.item.child = <<first.item>> \o @]
    BY <1>1, <1>6, <2>1, Zenon DEF Members, Continued, One, Lst
  <2>4. PICK c : c = <<first.item>> \o r.item.child
    OBVIOUS
  <2>5. [r EXCEPT !.item.child = <<first.item>> \o @]
          = [r EXCEPT !.item.child = c]
    BY <2>4, Zenon
  <2>6. /\ [r EXCEPT !.item.child = c].end = r.end
        /\ [r EXCEPT !.item.child = c].item = [r.item EXCEPT !.child = c]
    BY <2>2, ItemChanged
  <2>7. [r.item EXCEPT !.child = c]
          = [r.item EXCEPT !.child = <<first.item>> \o r.item.child]
    BY <2>4, Zenon
  <2> QED
    BY <1>1, <1>2, <1>6, <2>1, <2>3, <2>5, <2>6, <2>7 DEF ListSays
<1> QED
  BY <1>3, <1>4, <1>5, <1>6

(* a pair: a string, a colon and a value                                   *)
PairSays(m, p, name, colon, value) ==
  /\ name.end = 0 \/ At(m, colon) # Colon => PairAt(m, p).end = 0
  /\ name.end # 0 /\ At(m, colon) = Colon =>
       /\ PairAt(m, p).end = value.end
       /\ PairAt(m, p).item =
            [value.item EXCEPT !.string = name.item.valuestring]

(* The parser at a pair.                                                   *)
LEMMA PairIs ==
  ASSUME NEW m, IsText(m), NEW p \in 1..Len(m) + 4,
         NEW name, name = parse_string(m, p),
         NEW colon, colon = skip(m, name.end)
  PROVE  PairSays(m, p, name, colon, Val(m, skip(m, colon + 1)))
<1>1. name = parse_string(m, p) /\ colon = skip(m, name.end)
  OBVIOUS
<1>2. CASE name.end = 0 \/ At(m, colon) # Colon
  <2>1. PairAt(m, p) = IF name.end = 0 THEN name ELSE Failed
    BY <1>1, <1>2, Zenon DEF PairAt, Pair, NamedValue
  <2>2. PairAt(m, p).end = 0
    BY <2>1, FailedEnd
  <2>3. ~(name.end # 0 /\ At(m, colon) = Colon)
    BY <1>2, Zenon
  <2> QED
    BY <2>2, <2>3, Zenon DEF PairSays
<1>3. CASE name.end # 0 /\ At(m, colon) = Colon
  <2>1. Len(m) \in Nat /\ p \in Nat \ {0}
    BY LenIs
  <2>2. name.end \in Nat \ {0}
    BY <1>1, <1>3, <2>1, StringResult DEF IsResult
  <2>3. colon \in Nat \ {0}
    BY <1>1, <2>2, SkipIs
  <2>4. colon \in 1..Len(m)
    BY <1>3, <2>3, InText, SymbolsDiffer
  <2>5. PICK q : q = skip(m, colon + 1)
    OBVIOUS
  <2>6. q \in 1..Len(m) + 4
    <3>1. colon + 1 \in Nat \ {0} /\ colon + 1 <= Len(m) + 1
      BY <2>1, <2>4
    <3>2. q \in Nat \ {0} /\ q <= Len(m) + 1
      BY <2>5, <3>1, SkipIs
    <3> QED
      BY <2>1, <3>2
  <2>7. PICK r : r = Val(m, q)
    OBVIOUS
  <2>8. IsResult(m, r, q)
    BY <2>6, <2>7, Results
  <2>9. PairAt(m, p) = [r EXCEPT !.item.string = name.item.valuestring]
    BY <1>1, <1>3, <2>5, <2>7, Zenon DEF PairAt, Pair, NamedValue, Val
  <2>10. /\ [r EXCEPT !.item.string = name.item.valuestring].end = r.end
         /\ [r EXCEPT !.item.string = name.item.valuestring].item
              = [r.item EXCEPT !.string = name.item.valuestring]
    BY <2>8, ItemChanged
  <2> QED
    BY <1>3, <2>5, <2>7, <2>9, <2>10 DEF PairSays
<1> QED
  BY <1>2, <1>3

(* Blanks before a list change nothing.                                    *)
LEMMA ListSkip ==
  ASSUME NEW m, IsText(m), NEW p \in 1..Len(m) + 1, NEW close \in Closes
  PROVE  /\ skip(m, p) \in 1..Len(m) + 1
         /\ Lst(m, close, skip(m, p)) = Lst(m, close, p)
<1>1. Len(m) \in Nat /\ p \in Nat \ {0} /\ p \in 1..Len(m) + 4
  BY LenIs
<1>2. PICK q : q = skip(m, p)
  OBVIOUS
<1>3. q \in Nat \ {0} /\ p <= q /\ q <= Len(m) + 1
  BY <1>1, <1>2, SkipIs
<1>4. q \in 1..Len(m) + 1 /\ q \in 1..Len(m) + 4
  BY <1>1, <1>3
<1>5. skip(m, q) = skip(m, p)
  BY <1>1, <1>2, SkipTwice
<1>6. /\ Lst(m, close, q) = Members(Parser(m), m, q, close)
      /\ Lst(m, close, p) = Members(Parser(m), m, p, close)
  BY <1>1, <1>4, ParserIs DEF Lst, Closes
<1>7. Members(Parser(m), m, q, close) = Members(Parser(m), m, p, close)
  BY <1>5, Zenon DEF Members, Continued
<1> QED
  BY <1>2, <1>4, <1>6, <1>7

-----------------------------------------------------------------------------
(* What is a value, by the grammar: blanks around a core.                  *)

G(m, what, i, j) == Grammar(m)[what][i][j]
ListOf(close) == IF close = CloseArray THEN "values" ELSE "pairs"
MemberOf(close) == IF close = CloseArray THEN "value" ELSE "pair"

AllBlank(m, i, j) == \A k \in i..j : At(m, k) = Blank

IsCore(m, a, b) ==
  \/ a = b /\ At(m, a) \in Scalars
  \/ IsString(SubSeq(m, a, b))
  \/ \E close \in Closes :
       /\ a < b /\ At(m, a) = Opens(close) /\ At(m, b) = close
       /\ AllBlank(m, a + 1, b - 1) \/ G(m, ListOf(close), a + 1, b - 1)

(* blanks, by the symbol at each position                                  *)
LEMMA BlanksAre ==
  ASSUME NEW m, IsText(m), NEW i \in Nat \ {0}, NEW j \in Int, j <= Len(m)
  PROVE  Blanks(m, i, j) <=> AllBlank(m, i, j)
BY LenIs DEF Blanks, AllBlank, At

(* A value begins or ends with a blank, or is a core.                      *)
LEMMA ValueRule ==
  ASSUME NEW m, IsText(m), NEW i \in 1..Len(m), NEW j \in i..Len(m)
  PROVE  /\ At(m, i) = Blank =>
              (G(m, "value", i, j) <=> G(m, "value", i + 1, j))
         /\ At(m, i) # Blank /\ At(m, j) = Blank =>
              (G(m, "value", i, j) <=> G(m, "value", i, j - 1))
         /\ At(m, i) # Blank /\ At(m, j) # Blank =>
              (G(m, "value", i, j) <=> IsCore(m, i, j))
<1>1. Len(m) \in Nat /\ i \in 1..Len(m) + 1 /\ j \in 0..Len(m) /\ i <= j
  BY LenIs
<1>2. G(m, "value", i, j) <=> IsValue(Grammar(m), m, i, j)
  BY <1>1, GrammarIs DEF G
<1>3. At(m, i) = m[i] /\ At(m, j) = m[j]
  BY <1>1 DEF At
<1>4. \A close \in Closes : i < j =>
        (Blanks(m, i + 1, j - 1) <=> AllBlank(m, i + 1, j - 1))
  <2>1. i + 1 \in Nat \ {0} /\ j - 1 \in Int /\ j - 1 <= Len(m)
    BY <1>1
  <2> QED
    BY <2>1, BlanksAre
<1>5. \A close \in Closes :
        Bracketed(Grammar(m), m, i, j, Opens(close), close, ListOf(close)) <=>
          /\ i < j /\ At(m, i) = Opens(close) /\ At(m, j) = close
          /\ \/ AllBlank(m, i + 1, j - 1)
             \/ G(m, ListOf(close), i + 1, j - 1)
  BY <1>3, <1>4, Zenon DEF Bracketed, G
<1>6. IsCore(m, i, j) <=>
        \/ i = j /\ m[i] \in Scalars
        \/ IsString(SubSeq(m, i, j))
        \/ \E close \in Closes :
             Bracketed(Grammar(m), m, i, j, Opens(close), close, ListOf(close))
  BY <1>3, <1>5, Zenon DEF IsCore
<1>7. /\ Opens(CloseArray) = OpenArray /\ Opens(CloseObject) = OpenObject
      /\ ListOf(CloseArray) = "values" /\ ListOf(CloseObject) = "pairs"
  BY SymbolsDiffer DEF Opens, ListOf
<1>8. (\E close \in Closes :
         Bracketed(Grammar(m), m, i, j, Opens(close), close, ListOf(close))) <=>
        \/ Bracketed(Grammar(m), m, i, j, OpenArray, CloseArray, "values")
        \/ Bracketed(Grammar(m), m, i, j, OpenObject, CloseObject, "pairs")
  BY <1>7 DEF Closes
<1>9. CASE At(m, i) = Blank
  BY <1>2, <1>3, <1>9, Zenon DEF IsValue, G
<1>10. CASE At(m, i) # Blank /\ At(m, j) = Blank
  BY <1>2, <1>3, <1>10, Zenon DEF IsValue, G
<1>11. CASE At(m, i) # Blank /\ At(m, j) # Blank
  BY <1>2, <1>3, <1>6, <1>8, <1>11, Zenon DEF IsValue
<1> QED
  BY <1>9, <1>10, <1>11

(* A part that is a value lies within the text.                            *)
LEMMA PartWithin ==
  ASSUME NEW m, IsText(m), NEW i \in 1..Len(m) + 1, NEW j \in 0..Len(m),
         NEW what \in Parts, G(m, what, i, j)
  PROVE  i \in 1..Len(m) /\ j \in i..Len(m)
<1>1. i <= j
  BY LenIs, GrammarIs DEF G, Parts
<1> QED
  BY <1>1, LenIs

(* A value is a core with blanks around it.                                *)
LEMMA Trim ==
  ASSUME NEW m, IsText(m), NEW i \in 1..Len(m), NEW j \in i..Len(m)
  PROVE  G(m, "value", i, j) <=>
           \E a \in i..j : \E b \in a..j :
             /\ AllBlank(m, i, a - 1) /\ AllBlank(m, b + 1, j)
             /\ At(m, a) # Blank /\ At(m, b) # Blank /\ IsCore(m, a, b)
<1> DEFINE Around(x, y, a, b) ==
             /\ AllBlank(m, x, a - 1) /\ AllBlank(m, b + 1, y)
             /\ At(m, a) # Blank /\ At(m, b) # Blank /\ IsCore(m, a, b)
           Right(x, y) ==
             G(m, "value", x, y) <=>
               \E a \in x..y : \E b \in a..y : Around(x, y, a, b)
           T == {n \in Nat : \A x \in 1..Len(m) : \A y \in x..Len(m) :
                               y - x < n => Right(x, y)}
<1>1. Len(m) \in Nat
  BY LenIs
<1>2. 0 \in T
  BY <1>1
<1>3. ASSUME NEW n \in Nat, n \in T PROVE n + 1 \in T
  <2>1. SUFFICES ASSUME NEW x \in 1..Len(m), NEW y \in x..Len(m),
                        y - x < n + 1
                 PROVE  Right(x, y)
    OBVIOUS
  <2>2. CASE At(m, x) = Blank
    <3>1. G(m, "value", x, y) <=> G(m, "value", x + 1, y)
      BY <2>2, ValueRule
    <3>2. \A a \in x..y : \A b \in a..y : At(m, a) # Blank => a \in x + 1..y
      BY <1>1, <2>2
    <3>3. \A a \in x + 1..y : AllBlank(m, x, a - 1) <=> AllBlank(m, x + 1, a - 1)
      <4>1. \A a \in x + 1..y : \A k \in x..a - 1 : k = x \/ k \in x + 1..a - 1
        BY <1>1
      <4>2. \A a \in x + 1..y : \A k \in x + 1..a - 1 : k \in x..a - 1
        BY <1>1
      <4> QED
        BY <2>2, <4>1, <4>2 DEF AllBlank
    <3>4. \A a \in x + 1..y : a \in x..y
      BY <1>1
    <3>5. (\E a \in x..y : \E b \in a..y : Around(x, y, a, b))
            <=> \E a \in x + 1..y : \E b \in a..y : Around(x + 1, y, a, b)
      BY <3>2, <3>3, <3>4
    <3>6. CASE x = y
      <4>1. ~(x + 1 <= y) /\ x + 1 \in 1..Len(m) + 1 /\ y \in 0..Len(m)
        BY <1>1, <3>6
      <4>2. ~G(m, "value", x + 1, y)
        BY <1>1, <4>1, GrammarIs DEF G
      <4>3. x + 1..y = {}
        BY <1>1, <4>1
      <4> HIDE DEF Around
      <4> QED
        BY <3>1, <3>5, <4>2, <4>3
    <3>7. CASE x # y
      <4>1. x + 1 \in 1..Len(m) /\ y \in x + 1..Len(m) /\ y - (x + 1) < n
        BY <1>1, <2>1, <3>7
      <4>2. Right(x + 1, y)
        <5> HIDE DEF Right
        <5> QED
          BY <1>3, <4>1
      <4> HIDE DEF Around
      <4> QED
        BY <3>1, <3>5, <4>2
    <3> QED
      BY <3>6, <3>7
  <2>3. CASE At(m, x) # Blank /\ At(m, y) = Blank
    <3>1. G(m, "value", x, y) <=> G(m, "value", x, y - 1)
      BY <2>3, ValueRule
    <3>2. x # y
      BY <2>3
    <3>3. x \in 1..Len(m) /\ y - 1 \in x..Len(m) /\ (y - 1) - x < n
      BY <1>1, <2>1, <3>2
    <3>4. Right(x, y - 1)
      <4> HIDE DEF Right
      <4> QED
        BY <1>3, <3>3
    <3>5. \A a \in x..y : \A b \in a..y : At(m, b) # Blank =>
            a \in x..y - 1 /\ b \in a..y - 1
      BY <1>1, <2>3
    <3>6. \A a \in x..y - 1 : \A b \in a..y - 1 : a \in x..y /\ b \in a..y
      BY <1>1
    <3>7. \A b \in x..y - 1 : AllBlank(m, b + 1, y) <=> AllBlank(m, b + 1, y - 1)
      <4>1. \A b \in x..y - 1 : \A k \in b + 1..y : k = y \/ k \in b + 1..y - 1
        BY <1>1
      <4>2. \A b \in x..y - 1 : \A k \in b + 1..y - 1 : k \in b + 1..y
        BY <1>1
      <4> QED
        BY <2>3, <4>1, <4>2 DEF AllBlank
    <3>8. \A a \in x..y - 1 : \A b \in a..y - 1 : b \in x..y - 1
      BY <1>1
    <3>9. (\E a \in x..y : \E b \in a..y : Around(x, y, a, b))
            <=> \E a \in x..y - 1 : \E b \in a..y - 1 : Around(x, y - 1, a, b)
      BY <3>5, <3>6, <3>7, <3>8
    <3> HIDE DEF Around
    <3> QED
      BY <3>1, <3>4, <3>9
  <2>4. CASE At(m, x) # Blank /\ At(m, y) # Blank
    <3>1. G(m, "value", x, y) <=> IsCore(m, x, y)
      BY <2>4, ValueRule
    <3>2. x \in x..y /\ y \in x..y /\ AllBlank(m, x, x - 1) /\ AllBlank(m, y + 1, y)
      BY <1>1 DEF AllBlank
    <3>3. IsCore(m, x, y) => Around(x, y, x, y)
      BY <2>4, <3>2
    <3>4. \A a \in x..y : \A b \in a..y : Around(x, y, a, b) => a = x /\ b = y
      <4>1. ASSUME NEW a \in x..y, NEW b \in a..y, Around(x, y, a, b)
            PROVE  a = x /\ b = y
        <5>1. a # x => x \in x..a - 1
          BY <1>1
        <5>2. b # y => y \in b + 1..y
          BY <1>1
        <5> QED
          BY <2>4, <4>1, <5>1, <5>2 DEF AllBlank
      <4> QED
        BY <4>1
    <3>5. Around(x, y, x, y) => IsCore(m, x, y)
      OBVIOUS
    <3> HIDE DEF Around
    <3> QED
      BY <3>1, <3>2, <3>3, <3>4, <3>5
  <2> QED
    BY <2>2, <2>3, <2>4
<1>4. Nat \subseteq T
  <2> HIDE DEF T
  <2> QED
    BY <1>2, <1>3, SetInduction
<1>5. Right(i, j)
  <2>1. j - i < Len(m)
    BY <1>1
  <2>2. Len(m) \in T
    <3> HIDE DEF T
    <3> QED
      BY <1>1, <1>4
  <2> HIDE DEF Right
  <2> QED
    BY <2>1, <2>2
<1> QED
  BY <1>5

(* A value stays one when blanks are put around it.                        *)
LEMMA Widen ==
  ASSUME NEW m, IsText(m), NEW i \in 1..Len(m), NEW j \in i..Len(m),
         NEW p \in i..j, NEW q \in p..j, G(m, "value", p, q),
         AllBlank(m, i, p - 1), AllBlank(m, q + 1, j)
  PROVE  G(m, "value", i, j)
<1>1. Len(m) \in Nat /\ p \in 1..Len(m) /\ q \in p..Len(m)
  BY LenIs
<1>2. PICK a \in p..q, b \in p..q :
        /\ b \in a..q /\ AllBlank(m, p, a - 1) /\ AllBlank(m, b + 1, q)
        /\ At(m, a) # Blank /\ At(m, b) # Blank /\ IsCore(m, a, b)
  <2>1. \A a \in p..q : \A b \in a..q : b \in p..q
    BY <1>1
  <2> QED
    BY <1>1, <2>1, Trim
<1>3. a \in i..j /\ b \in a..j
  BY <1>1, <1>2
<1>4. AllBlank(m, i, a - 1)
  <2>1. \A k \in i..a - 1 : k \in i..p - 1 \/ k \in p..a - 1
    BY <1>1
  <2> QED
    BY <1>2, <2>1 DEF AllBlank
<1>5. AllBlank(m, b + 1, j)
  <2>1. \A k \in b + 1..j : k \in b + 1..q \/ k \in q + 1..j
    BY <1>1
  <2> QED
    BY <1>2, <2>1 DEF AllBlank
<1> QED
  BY <1>2, <1>3, <1>4, <1>5, Trim

(* A pair: a string, a colon and a value, with blanks around the string.   *)
IsPairAt(m, i, j, k, a, b) ==
  /\ k \in i..j /\ At(m, k) = Colon /\ a \in i..k /\ b \in i..k - 1
  /\ AllBlank(m, i, a - 1) /\ AllBlank(m, b + 1, k - 1)
  /\ IsString(SubSeq(m, a, b)) /\ G(m, "value", k + 1, j)

(* A pair, by where its name and its colon are.                            *)
LEMMA PairRule ==
  ASSUME NEW m, IsText(m), NEW i \in 1..Len(m), NEW j \in i..Len(m)
  PROVE  G(m, "pair", i, j) <=> \E k, a, b : IsPairAt(m, i, j, k, a, b)
<1>1. Len(m) \in Nat /\ i \in 1..Len(m) + 1 /\ j \in 0..Len(m) /\ i <= j
  BY LenIs
<1>2. G(m, "pair", i, j) <=> IsPair(Grammar(m), m, i, j)
  BY <1>1, GrammarIs DEF G
<1>3. \A k \in i..j : At(m, k) = m[k]
  BY <1>1 DEF At
<1>4. ASSUME NEW k \in i..j, NEW a \in i..k, NEW b \in i..k - 1
      PROVE  /\ Blanks(m, i, a - 1) <=> AllBlank(m, i, a - 1)
             /\ Blanks(m, b + 1, k - 1) <=> AllBlank(m, b + 1, k - 1)
  <2>1. /\ i \in Nat \ {0} /\ a - 1 \in Int /\ a - 1 <= Len(m)
        /\ b + 1 \in Nat \ {0} /\ k - 1 \in Int /\ k - 1 <= Len(m)
    BY <1>1
  <2> QED
    BY <2>1, BlanksAre
<1>5. IsPair(Grammar(m), m, i, j) <=>
        \E k \in i..j : \E a \in i..k : \E b \in i..k - 1 :
          /\ At(m, k) = Colon
          /\ AllBlank(m, i, a - 1) /\ AllBlank(m, b + 1, k - 1)
          /\ IsString(SubSeq(m, a, b)) /\ G(m, "value", k + 1, j)
  BY <1>3, <1>4, Zenon DEF IsPair, G
<1> QED
  BY <1>2, <1>5, Zenon DEF IsPairAt

(* A list: one member, or one up to a comma and a list behind it.          *)
LEMMA ListRule ==
  ASSUME NEW m, IsText(m), NEW i \in 1..Len(m), NEW j \in i..Len(m),
         NEW close \in Closes
  PROVE  G(m, ListOf(close), i, j) <=>
           \/ G(m, MemberOf(close), i, j)
           \/ \E k \in i..j : /\ At(m, k) = Comma
                              /\ G(m, MemberOf(close), i, k - 1)
                              /\ G(m, ListOf(close), k + 1, j)
<1>1. Len(m) \in Nat /\ i \in 1..Len(m) + 1 /\ j \in 0..Len(m) /\ i <= j
  BY LenIs
<1>2. \A k \in i..j : At(m, k) = m[k]
  BY <1>1 DEF At
<1>3. /\ G(m, "values", i, j)
           <=> IsList(Grammar(m), m, "values", i, j, "value")
      /\ G(m, "pairs", i, j) <=> IsList(Grammar(m), m, "pairs", i, j, "pair")
  BY <1>1, GrammarIs DEF G
<1>4. G(m, ListOf(close), i, j)
        <=> IsList(Grammar(m), m, ListOf(close), i, j, MemberOf(close))
  BY <1>3 DEF ListOf, MemberOf
<1> QED
  BY <1>2, <1>4, Zenon DEF IsList, G

(* A member, too, stays one when blanks are put before it, and a value or  *)
(* pair when they are put behind.                                          *)
LEMMA MemberWiden ==
  ASSUME NEW m, IsText(m), NEW i \in 1..Len(m), NEW j \in i..Len(m),
         NEW p \in i..j, NEW q \in p..j, NEW close \in Closes,
         G(m, MemberOf(close), p, q),
         AllBlank(m, i, p - 1), AllBlank(m, q + 1, j)
  PROVE  G(m, MemberOf(close), i, j)
<1>1. Len(m) \in Nat /\ p \in 1..Len(m) /\ q \in p..Len(m)
  BY LenIs
<1>2. CASE MemberOf(close) = "value"
  BY <1>2, Widen
<1>3. CASE MemberOf(close) = "pair"
  <2>1. PICK k, a, b : IsPairAt(m, p, q, k, a, b)
    BY <1>1, <1>3, PairRule
  <2>2. k \in p..q /\ a \in p..k /\ b \in p..k - 1 /\ G(m, "value", k + 1, q)
    BY <2>1 DEF IsPairAt
  <2>3. k \in i..j /\ a \in i..k /\ b \in i..k - 1
    BY <1>1, <2>2
  <2>4. AllBlank(m, i, a - 1)
    <3>1. \A l \in i..a - 1 : l \in i..p - 1 \/ l \in p..a - 1
      BY <1>1, <2>2
    <3> QED
      BY <2>1, <3>1 DEF AllBlank, IsPairAt
  <2>5. k + 1 \in 1..Len(m) /\ q \in k + 1..Len(m)
    <3>1. k + 1 \in 1..Len(m) + 1 /\ q \in 0..Len(m)
      BY <1>1, <2>2
    <3> QED
      BY <2>2, <3>1, PartWithin DEF Parts
  <2>6. G(m, "value", k + 1, j)
    <3>1. j \in k + 1..Len(m) /\ k + 1 \in k + 1..j /\ q \in k + 1..j
      BY <1>1, <2>5
    <3>2. AllBlank(m, k + 1, (k + 1) - 1)
      BY <2>5 DEF AllBlank
    <3> QED
      BY <2>2, <2>5, <3>1, <3>2, Widen
  <2>7. IsPairAt(m, i, j, k, a, b)
    BY <2>1, <2>3, <2>4, <2>6 DEF IsPairAt
  <2> QED
    BY <1>3, <2>7, PairRule
<1> QED
  BY <1>2, <1>3 DEF MemberOf

(* So does a list.                                                         *)
LEMMA ListWiden ==
  ASSUME NEW m, IsText(m), NEW i \in 1..Len(m), NEW j \in i..Len(m),
         NEW p \in i..j, NEW close \in Closes, G(m, ListOf(close), p, j),
         AllBlank(m, i, p - 1)
  PROVE  G(m, ListOf(close), i, j)
<1>1. Len(m) \in Nat /\ p \in 1..Len(m) /\ j \in p..Len(m)
  BY LenIs
<1>2. CASE G(m, MemberOf(close), p, j)
  <2>1. j \in p..j /\ AllBlank(m, j + 1, j)
    BY <1>1 DEF AllBlank
  <2>2. G(m, MemberOf(close), i, j)
    BY <1>2, <2>1, MemberWiden
  <2> QED
    BY <2>2, ListRule
<1>3. CASE \E k \in p..j : /\ At(m, k) = Comma
                           /\ G(m, MemberOf(close), p, k - 1)
                           /\ G(m, ListOf(close), k + 1, j)
  <2>1. PICK k \in p..j : /\ At(m, k) = Comma
                          /\ G(m, MemberOf(close), p, k - 1)
                          /\ G(m, ListOf(close), k + 1, j)
    BY <1>3
  <2>2. p \in 1..Len(m) /\ k - 1 \in p..Len(m)
    <3>1. p \in 1..Len(m) + 1 /\ k - 1 \in 0..Len(m)
      BY <1>1
    <3>2. MemberOf(close) \in Parts
      BY DEF MemberOf, Parts
    <3> QED
      BY <2>1, <3>1, <3>2, PartWithin
  <2>3. k - 1 \in i..Len(m) /\ p \in i..k - 1 /\ k - 1 \in p..k - 1 /\ k \in i..j
    BY <1>1, <2>2
  <2>4. AllBlank(m, (k - 1) + 1, k - 1)
    BY <2>2 DEF AllBlank
  <2>5. G(m, MemberOf(close), i, k - 1)
    BY <2>1, <2>3, <2>4, MemberWiden
  <2> QED
    BY <2>1, <2>3, <2>5, ListRule
<1> QED
  BY <1>1, <1>2, <1>3, ListRule

-----------------------------------------------------------------------------
(* What the parser takes is in the grammar.                                *)

(* a string that is never closed takes everything                          *)
Endless(m, p) == At(m, p) = Quote /\ Counted(m, p + 1).end > Len(m)

SoundValue(m, p) ==
  LET e == Val(m, p).end IN
    e # 0 => \/ e \in p + 1..Len(m) + 1 /\ G(m, "value", p, e - 1)
             \/ e > Len(m) /\ Endless(m, p)

SoundPair(m, p) ==
  LET e == PairAt(m, p).end IN
    e # 0 /\ e <= Len(m) => e > p /\ G(m, "pair", p, e - 1)

SoundList(m, close, p) ==
  LET e == Lst(m, close, p).end IN
    e # 0 => /\ e \in p + 2..Len(m) + 1 /\ At(m, e - 1) = close
             /\ G(m, ListOf(close), p, e - 2)

(* a string by itself                                                      *)
LEMMA StringSound ==
  ASSUME NEW m, IsText(m), NEW p \in Nat \ {0}, parse_string(m, p).end # 0
  PROVE  LET e == parse_string(m, p).end IN
           /\ p \in 1..Len(m) /\ At(m, p) = Quote /\ e \in Nat
           /\ \/ e \in p + 2..Len(m) + 1 /\ IsString(SubSeq(m, p, e - 1))
              \/ e > Len(m) /\ Endless(m, p)
<1>1. At(m, p) = Quote
  BY DEF parse_string, Failed
<1>2. p \in 1..Len(m) /\ Len(m) \in Nat
  BY <1>1, InText, SymbolsDiffer
<1>3. PICK end : end = Counted(m, p + 1).end
  OBVIOUS
<1>4. /\ end \in Nat /\ p + 1 <= end /\ At(m, end) \in {Quote, NUL}
  <2>1. p + 1 \in 1..Len(m) + 2
    BY <1>2
  <2> QED
    BY <1>3, <2>1, WalkBounds
<1>5. parse_string(m, p).end = IF At(m, end) = Quote THEN end + 1 ELSE end
  BY <1>1, <1>2, <1>3, StringIs
<1>6. end \in Nat \ {0}
  BY <1>2, <1>4
<1>7. CASE At(m, end) = Quote
  <2>1. end <= Len(m)
    BY <1>6, <1>7, InText, SymbolsDiffer
  <2>2. end \in p..Len(m) /\ end + 1 \in p + 2..Len(m) + 1 /\ (end + 1) - 1 = end
    BY <1>2, <1>4, <2>1
  <2>3. IsString(SubSeq(m, p, end))
    BY <1>1, <1>2, <1>3, <2>2, StringIff
  <2> QED
    BY <1>1, <1>2, <1>4, <1>5, <1>7, <2>2, <2>3
<1>8. CASE At(m, end) # Quote
  <2>1. At(m, end) = NUL
    BY <1>4, <1>8
  <2>2. end > Len(m)
    BY <1>6, <2>1, AtIs
  <2> QED
    BY <1>1, <1>2, <1>3, <1>4, <1>5, <1>8, <2>2 DEF Endless
<1> QED
  BY <1>7, <1>8

(* a pair                                                                  *)
LEMMA PairSound ==
  ASSUME NEW m, IsText(m), NEW p \in 1..Len(m) + 4,
         \A q \in p + 1..Len(m) + 4 : SoundValue(m, q)
  PROVE  SoundPair(m, p)
<1>1. PICK name, colon, q, e :
        /\ name = parse_string(m, p) /\ colon = skip(m, name.end)
        /\ q = skip(m, colon + 1) /\ e = PairAt(m, p).end
  OBVIOUS
<1>2. SUFFICES ASSUME e # 0, e <= Len(m) PROVE e > p /\ G(m, "pair", p, e - 1)
  BY <1>1 DEF SoundPair
<1>3. Len(m) \in Nat /\ p \in Nat \ {0}
  BY LenIs
<1>4. name.end # 0 /\ At(m, colon) = Colon /\ e = Val(m, q).end
  <2>1. PairSays(m, p, name, colon, Val(m, q))
    BY <1>1, PairIs
  <2> QED
    BY <1>1, <1>2, <2>1, FailedEnd DEF PairSays
<1>5. PICK b : b = name.end - 1
  OBVIOUS
<1>6. /\ p \in 1..Len(m) /\ name.end \in Nat \ {0} /\ name.end > p
      /\ name.end \in p + 2..Len(m) + 1 /\ IsString(SubSeq(m, p, b))
  <2>1. /\ p \in 1..Len(m) /\ name.end \in Nat
        /\ \/ name.end \in p + 2..Len(m) + 1 /\ IsString(SubSeq(m, p, b))
           \/ name.end > Len(m) /\ Endless(m, p)
    BY <1>1, <1>3, <1>4, <1>5, StringSound
  <2>2. ASSUME name.end > Len(m) PROVE FALSE
    <3>1. name.end \in Nat \ {0}
      BY <1>4, <2>1
    <3>2. colon = name.end
      BY <1>1, <2>2, <3>1, SkipIs
    <3>3. At(m, colon) = NUL
      BY <2>2, <3>1, <3>2, AtIs
    <3> QED
      BY <1>4, <3>3, SymbolsDiffer
  <2> QED
    BY <1>3, <1>4, <2>1, <2>2
<1>7. Skips(m, name.end, colon) /\ colon \in Nat \ {0}
  BY <1>1, <1>6, SkipIs
<1>8. colon \in 1..Len(m) /\ name.end <= colon /\ AllBlank(m, b + 1, colon - 1)
  <2>1. colon \in 1..Len(m)
    BY <1>4, <1>7, InText, SymbolsDiffer
  <2>2. b + 1 = name.end
    BY <1>5, <1>6
  <2> QED
    BY <1>7, <2>1, <2>2 DEF Skips, AllBlank
<1>9. /\ q \in Nat \ {0} /\ colon + 1 <= q /\ q <= Len(m) + 1
      /\ AllBlank(m, colon + 1, q - 1)
  <2>1. colon + 1 \in Nat \ {0} /\ colon + 1 <= Len(m) + 1
    BY <1>3, <1>8
  <2> QED
    BY <1>1, <2>1, SkipIs DEF Skips, AllBlank
<1>10. q \in p + 1..Len(m) + 4
  BY <1>3, <1>6, <1>8, <1>9
<1>11. e \in q + 1..Len(m) + 1 /\ G(m, "value", q, e - 1)
  <2>1. SoundValue(m, q)
    BY <1>10
  <2>2. ~(e > Len(m))
    <3>1. e \in Nat
      BY <1>4, <1>10, Results DEF IsResult
    <3> QED
      BY <1>2, <1>3, <3>1
  <2> QED
    BY <1>2, <1>4, <2>1, <2>2 DEF SoundValue
<1>12. G(m, "value", colon + 1, e - 1)
  <2>1. /\ colon + 1 \in 1..Len(m) /\ e - 1 \in colon + 1..Len(m)
        /\ q \in colon + 1..e - 1 /\ e - 1 \in q..e - 1
    BY <1>3, <1>8, <1>9, <1>11
  <2>2. AllBlank(m, (e - 1) + 1, e - 1)
    BY <1>11 DEF AllBlank
  <2> QED
    BY <1>9, <1>11, <2>1, <2>2, Widen
<1>13. IsPairAt(m, p, e - 1, colon, p, b)
  <2>1. colon \in p..e - 1 /\ p \in p..colon /\ b \in p..colon - 1
    BY <1>3, <1>5, <1>6, <1>8, <1>9, <1>11, SMTT(60)
  <2>2. AllBlank(m, p, p - 1)
    BY <1>3 DEF AllBlank
  <2> QED
    BY <1>4, <1>6, <1>8, <1>12, <2>1, <2>2 DEF IsPairAt
<1>14. p \in 1..Len(m) /\ e - 1 \in p..Len(m) /\ e > p
  BY <1>3, <1>6, <1>8, <1>9, <1>11
<1> QED
  BY <1>13, <1>14, PairRule

(* a list                                                                  *)
LEMMA ListSound ==
  ASSUME NEW m, IsText(m), NEW p \in 1..Len(m) + 4, NEW close \in Closes,
         \A q \in p..Len(m) + 4 : SoundValue(m, q) /\ SoundPair(m, q),
         \A q \in p + 1..Len(m) + 4 : SoundList(m, close, q)
  PROVE  SoundList(m, close, p)
<1>1. PICK q, first, next, e :
        /\ q = skip(m, p) /\ first = One(m, close, q)
        /\ next = skip(m, first.end) /\ e = Lst(m, close, p).end
  OBVIOUS
<1>2. SUFFICES ASSUME e # 0
               PROVE  /\ e \in p + 2..Len(m) + 1 /\ At(m, e - 1) = close
                      /\ G(m, ListOf(close), p, e - 2)
  BY <1>1 DEF SoundList
<1>3. Len(m) \in Nat /\ p \in Nat \ {0}
  BY LenIs
<1>4. /\ first.end # 0
      /\ \/ At(m, next) = close /\ e = next + 1
         \/ /\ At(m, next) = Comma /\ At(m, next) # close
            /\ e = Lst(m, close, next + 1).end
  <2>1. ListSays(m, close, p, first, next, Lst(m, close, next + 1))
    BY <1>1, ListIs
  <2> QED
    BY <1>1, <1>2, <2>1, FailedEnd DEF ListSays
<1>5. /\ q \in Nat \ {0} /\ p <= q /\ AllBlank(m, p, q - 1)
      /\ q <= Len(m) + 1 \/ q = p
  BY <1>1, <1>3, SkipIs DEF Skips, AllBlank
<1>6. q \in p..Len(m) + 4 /\ q \in 1..Len(m) + 4
  BY <1>3, <1>5
<1>7. first.end \in Nat \ {0} /\ first.end > q
  <2>1. IsResult(m, first, q)
    BY <1>1, <1>6, OneResult
  <2> QED
    BY <1>4, <2>1 DEF IsResult
<1>8. /\ next \in Nat \ {0} /\ first.end <= next
      /\ AllBlank(m, first.end, next - 1)
  BY <1>1, <1>7, SkipIs DEF Skips, AllBlank
<1>9. next \in 1..Len(m)
  <2>1. At(m, next) # NUL
    BY <1>4, SymbolsDiffer DEF Closes
  <2> QED
    BY <1>8, <2>1, InText
<1>10. G(m, MemberOf(close), q, first.end - 1)
  <2>1. first.end <= Len(m)
    BY <1>3, <1>7, <1>8, <1>9
  <2>2. CASE close = CloseArray
    <3>1. first = Val(m, q) /\ MemberOf(close) = "value"
      BY <1>1, <2>2, OneIs DEF MemberOf
    <3>2. SoundValue(m, q)
      BY <1>6
    <3>3. ~(first.end > Len(m))
      BY <1>3, <1>7, <2>1
    <3> QED
      BY <1>4, <3>1, <3>2, <3>3 DEF SoundValue
  <2>3. CASE close = CloseObject
    <3>1. first = PairAt(m, q) /\ MemberOf(close) = "pair"
      BY <1>1, <2>3, OneIs, SymbolsDiffer DEF MemberOf
    <3>2. SoundPair(m, q)
      BY <1>6
    <3> QED
      BY <1>4, <2>1, <3>1, <3>2 DEF SoundPair
  <2> QED
    BY <2>2, <2>3 DEF Closes
<1>11. G(m, MemberOf(close), p, next - 1)
  <2>1. /\ p \in 1..Len(m) /\ next - 1 \in p..Len(m) /\ q \in p..next - 1
        /\ first.end - 1 \in q..next - 1 /\ (first.end - 1) + 1 = first.end
    BY <1>3, <1>5, <1>7, <1>8, <1>9
  <2> QED
    BY <1>5, <1>8, <1>10, <2>1, MemberWiden
<1>12. CASE At(m, next) = close /\ e = next + 1
  <2>1. /\ e \in p + 2..Len(m) + 1 /\ e - 1 = next /\ e - 2 = next - 1
        /\ p \in 1..Len(m) /\ next - 1 \in p..Len(m)
    BY <1>3, <1>5, <1>7, <1>8, <1>9, <1>12
  <2>2. G(m, ListOf(close), p, next - 1)
    BY <1>11, <2>1, ListRule
  <2> QED
    BY <1>12, <2>1, <2>2
<1>13. CASE At(m, next) = Comma /\ e = Lst(m, close, next + 1).end
  <2>1. next + 1 \in p + 1..Len(m) + 4
    BY <1>3, <1>5, <1>7, <1>8, <1>9
  <2>2. /\ e \in next + 1 + 2..Len(m) + 1 /\ At(m, e - 1) = close
        /\ G(m, ListOf(close), next + 1, e - 2)
    BY <1>2, <1>13, <2>1 DEF SoundList
  <2>3. /\ e \in p + 2..Len(m) + 1
        /\ p \in 1..Len(m) /\ e - 2 \in p..Len(m) /\ next \in p..e - 2
    BY <1>3, <1>5, <1>7, <1>8, <1>9, <2>2
  <2>4. G(m, ListOf(close), p, e - 2)
    BY <1>11, <1>13, <2>2, <2>3, ListRule
  <2> QED
    BY <2>2, <2>3, <2>4
<1> QED
  BY <1>4, <1>12, <1>13

(* A core is a value.                                                      *)
LEMMA CoreIsValue ==
  ASSUME NEW m, IsText(m), NEW a \in 1..Len(m), NEW b \in a..Len(m),
         At(m, a) # Blank, At(m, b) # Blank, IsCore(m, a, b)
  PROVE  G(m, "value", a, b)
<1>1. Len(m) \in Nat
  BY LenIs
<1> QED
  BY <1>1, ValueRule

(* a value                                                                 *)
LEMMA ValueSound ==
  ASSUME NEW m, IsText(m), NEW p \in 1..Len(m) + 4,
         \A close \in Closes : \A q \in p + 1..Len(m) + 4 :
           SoundList(m, close, q)
  PROVE  SoundValue(m, p)
<1>1. PICK e : e = Val(m, p).end
  OBVIOUS
<1>2. SUFFICES ASSUME e # 0
               PROVE  \/ e \in p + 1..Len(m) + 1 /\ G(m, "value", p, e - 1)
                      \/ e > Len(m) /\ Endless(m, p)
  BY <1>1 DEF SoundValue
<1>3. Len(m) \in Nat /\ p \in Nat \ {0}
  BY LenIs
<1>4. At(m, p) \in Scalars \cup {Quote, OpenArray, OpenObject}
  BY <1>1, <1>2, OtherIs DEF Failed
<1>5. p \in 1..Len(m)
  <2>1. At(m, p) # NUL
    BY <1>4, SymbolsDiffer
  <2> QED
    BY <1>3, <2>1, InText
<1>6. At(m, p) # Blank
  BY <1>4, SymbolsDiffer
<1>7. CASE At(m, p) \in Scalars
  <2>1. e = p + 1
    BY <1>1, <1>7, LiteralIs
  <2>2. e \in p + 1..Len(m) + 1 /\ e - 1 = p /\ p \in p..Len(m)
    BY <1>3, <1>5, <2>1
  <2>3. IsCore(m, p, p)
    BY <1>7 DEF IsCore
  <2> QED
    BY <1>5, <1>6, <2>2, <2>3, CoreIsValue
<1>8. CASE At(m, p) = Quote
  <2>1. e = parse_string(m, p).end
    BY <1>1, <1>8, QuoteIs
  <2>2. CASE e \in p + 2..Len(m) + 1 /\ IsString(SubSeq(m, p, e - 1))
    <3>1. e \in p + 1..Len(m) + 1 /\ e - 1 \in p..Len(m) /\ (e - 1) + 1 = e
      BY <1>3, <1>5, <2>2
    <3>2. IsCore(m, p, e - 1)
      BY <2>2 DEF IsCore
    <3>3. At(m, e - 1) # Blank
      <4>1. Counted(m, p + 1).end = e - 1
        BY <1>5, <2>2, <3>1, StringIff
      <4>2. p + 1 \in 1..Len(m) + 2
        BY <1>3, <1>5
      <4> QED
        BY <4>1, <4>2, WalkBounds, SymbolsDiffer
    <3> QED
      BY <1>5, <1>6, <3>1, <3>2, <3>3, CoreIsValue
  <2>3. CASE e > Len(m) /\ Endless(m, p)
    BY <2>3
  <2> QED
    BY <1>2, <1>3, <2>1, <2>2, <2>3, StringSound
<1>9. CASE At(m, p) \in {OpenArray, OpenObject}
  <2>1. PICK close \in Closes : At(m, p) = Opens(close)
    BY <1>9, SymbolsDiffer DEF Closes, Opens
  <2>2. close # Blank
    BY SymbolsDiffer DEF Closes
  <2>3. PICK q : q = skip(m, p + 1)
    OBVIOUS
  <2>4. /\ q \in Nat /\ p < q /\ q <= Len(m) + 1
        /\ At(m, q) = close => e = q + 1
        /\ At(m, q) # close => e = Lst(m, close, q).end
    <3>1. BracketSays(m, p, close, q)
      BY <1>5, <2>1, <2>3, BracketIs
    <3> QED
      BY <1>1, <3>1 DEF BracketSays
  <2>5. AllBlank(m, p + 1, q - 1)
    <3>1. p + 1 \in Nat \ {0}
      BY <1>3
    <3> QED
      BY <2>3, <3>1, SkipIs DEF Skips, AllBlank
  <2>6. CASE At(m, q) = close
    <3>1. e = q + 1
      BY <2>4, <2>6
    <3>2. q \in 1..Len(m)
      <4>1. close # NUL
        BY SymbolsDiffer DEF Closes
      <4>2. q \in Nat \ {0}
        BY <1>3, <2>4
      <4> QED
        BY <2>6, <4>1, <4>2, InText
    <3>3. e \in p + 1..Len(m) + 1 /\ e - 1 = q /\ q \in p..Len(m) /\ p < q
      BY <1>3, <1>5, <2>4, <3>1, <3>2
    <3>4. IsCore(m, p, q)
      BY <2>1, <2>5, <2>6, <3>3 DEF IsCore
    <3> QED
      BY <1>5, <1>6, <2>2, <2>6, <3>3, <3>4, CoreIsValue
  <2>7. CASE At(m, q) # close
    <3>1. q \in p + 1..Len(m) + 4
      BY <1>3, <2>4
    <3>2. /\ e \in q + 2..Len(m) + 1 /\ At(m, e - 1) = close
          /\ G(m, ListOf(close), q, e - 2)
      BY <1>2, <2>4, <2>7, <3>1 DEF SoundList
    <3>3. /\ p + 1 \in 1..Len(m) /\ e - 2 \in p + 1..Len(m)
          /\ q \in p + 1..e - 2 /\ e - 1 \in p..Len(m) /\ p < e - 1
          /\ (e - 1) - 1 = e - 2 /\ e \in p + 1..Len(m) + 1
          /\ (p + 1) - 1 = p
      BY <1>3, <1>5, <3>1, <3>2
    <3>4. G(m, ListOf(close), p + 1, e - 2)
      BY <2>5, <3>2, <3>3, ListWiden
    <3>5. IsCore(m, p, e - 1)
      BY <2>1, <3>2, <3>3, <3>4 DEF IsCore
    <3> QED
      BY <1>5, <1>6, <2>2, <3>2, <3>3, <3>5, CoreIsValue
  <2> QED
    BY <2>6, <2>7
<1> QED
  BY <1>4, <1>7, <1>8, <1>9

(* All of them, by induction from the end of the text.                     *)
LEMMA Sound ==
  ASSUME NEW m, IsText(m), NEW p \in 1..Len(m) + 4
  PROVE  SoundValue(m, p) /\ \A close \in Closes : SoundList(m, close, p)
<1> DEFINE N == Len(m) + 4
           Right(q) == /\ SoundValue(m, q) /\ SoundPair(m, q)
                       /\ \A close \in Closes : SoundList(m, close, q)
           T == {n \in Nat : \A q \in 1..N : N < q + n => Right(q)}
<1>1. N \in Nat
  BY LenIs
<1> HIDE DEF N
<1>2. 0 \in T
  BY <1>1
<1>3. ASSUME NEW n \in Nat, n \in T PROVE n + 1 \in T
  <2>1. SUFFICES ASSUME NEW q \in 1..N, N < q + (n + 1) PROVE Right(q)
    OBVIOUS
  <2>2. \A r \in q + 1..N : Right(r)
    <3>1. \A r \in q + 1..N : r \in 1..N /\ N < r + n
      BY <1>1, <2>1
    <3> HIDE DEF Right
    <3> QED
      BY <1>3, <3>1
  <2>3. SoundValue(m, q)
    BY <2>2, ValueSound DEF N
  <2>4. SoundPair(m, q)
    BY <2>2, PairSound DEF N
  <2>5. \A r \in q..N : SoundValue(m, r) /\ SoundPair(m, r)
    <3>1. \A r \in q..N : r = q \/ r \in q + 1..N
      BY <1>1
    <3> QED
      BY <2>2, <2>3, <2>4, <3>1
  <2>6. \A close \in Closes : SoundList(m, close, q)
    BY <2>2, <2>5, ListSound DEF N
  <2> QED
    BY <2>3, <2>4, <2>6
<1>4. Nat \subseteq T
  <2> HIDE DEF T
  <2> QED
    BY <1>2, <1>3, SetInduction
<1>5. Right(p)
  <2>1. p \in 1..N
    BY DEF N
  <2>2. N \in T /\ N < p + N
    BY <1>1, <1>4, <2>1
  <2> HIDE DEF Right
  <2> QED
    BY <2>1, <2>2
<1> QED
  BY <1>5

-----------------------------------------------------------------------------
(* What is in the grammar the parser takes.                                *)

(* the parser takes the part that is a value, up to blanks                 *)
TakesValue(m, i, j) ==
  LET q == skip(m, i)
      e == Val(m, q).end
  IN q \in i..j /\ e \in q + 1..j + 1 /\ AllBlank(m, e, j)

TakesPair(m, i, j) ==
  LET q == skip(m, i)
      e == PairAt(m, q).end
  IN q \in i..j /\ e \in q + 1..j + 1 /\ AllBlank(m, e, j)

TakesList(m, close, i, j) ==
  At(m, skip(m, i)) # close /\ Lst(m, close, i).end = j + 2

Complete(m, i, j) ==
  /\ G(m, "value", i, j) => TakesValue(m, i, j)
  /\ G(m, "pair", i, j) => TakesPair(m, i, j)
  /\ \A close \in Closes :
       G(m, ListOf(close), i, j) /\ At(m, j + 1) = close
         => TakesList(m, close, i, j)

(* a value                                                                 *)
LEMMA ValueComplete ==
  ASSUME NEW m, IsText(m), NEW i \in 1..Len(m), NEW j \in i..Len(m),
         G(m, "value", i, j),
         \A x \in i + 1..j - 1 : \A y \in x..j - 1 : Complete(m, x, y)
  PROVE  TakesValue(m, i, j)
<1>1. Len(m) \in Nat
  BY LenIs
<1>2. PICK a \in i..j, b \in i..j :
        /\ b \in a..j /\ AllBlank(m, i, a - 1) /\ AllBlank(m, b + 1, j)
        /\ At(m, a) # Blank /\ At(m, b) # Blank /\ IsCore(m, a, b)
  <2>1. \A a \in i..j : \A b \in a..j : b \in i..j
    BY <1>1
  <2> QED
    BY <2>1, Trim
<1>3. skip(m, i) = a
  <2>1. i \in Nat \ {0} /\ a \in Nat /\ i <= a
    BY <1>1
  <2>2. Skips(m, i, a)
    BY <1>2, <2>1 DEF Skips, AllBlank
  <2> QED
    BY <2>1, <2>2, SkipUnique
<1>4. SUFFICES ASSUME TRUE PROVE Val(m, a).end = b + 1
  <2>1. b + 1 \in a + 1..j + 1
    BY <1>1, <1>2
  <2> QED
    BY <1>2, <1>3, <2>1 DEF TakesValue
<1>5. /\ a \in 1..Len(m) /\ a \in 1..Len(m) + 4 /\ b \in a..Len(m)
      /\ b \in 1..Len(m)
  BY <1>1, <1>2
<1>6. CASE a = b /\ At(m, a) \in Scalars
  BY <1>5, <1>6, LiteralIs
<1>7. CASE IsString(SubSeq(m, a, b))
  <2>1. At(m, a) = Quote /\ Counted(m, a + 1).end = b
    BY <1>5, <1>7, StringIff
  <2>2. a + 1 \in 1..Len(m) + 2
    BY <1>1, <1>5
  <2>3. At(m, b) = Quote
    <3>1. At(m, b) \in {Quote, NUL}
      BY <2>1, <2>2, WalkBounds
    <3>2. At(m, b) # NUL
      <4>1. b \in Nat \ {0} /\ b <= Len(m)
        BY <1>5
      <4> QED
        BY <1>1, <4>1, AtIs
    <3> QED
      BY <3>1, <3>2
  <2>4. parse_string(m, a).end = b + 1
    BY <2>1, <2>3, StringIs
  <2> QED
    BY <1>5, <2>1, <2>4, QuoteIs
<1>8. CASE \E close \in Closes :
             /\ a < b /\ At(m, a) = Opens(close) /\ At(m, b) = close
             /\ AllBlank(m, a + 1, b - 1) \/ G(m, ListOf(close), a + 1, b - 1)
  <2>1. PICK close \in Closes :
          /\ a < b /\ At(m, a) = Opens(close) /\ At(m, b) = close
          /\ AllBlank(m, a + 1, b - 1) \/ G(m, ListOf(close), a + 1, b - 1)
    BY <1>8
  <2>2. PICK q : q = skip(m, a + 1)
    OBVIOUS
  <2>3. BracketSays(m, a, close, q)
    BY <1>5, <2>1, <2>2, BracketIs
  <2>4. CASE AllBlank(m, a + 1, b - 1)
    <3>1. a + 1 \in Nat \ {0} /\ b \in Nat /\ a + 1 <= b
      BY <1>5, <2>1
    <3>2. Skips(m, a + 1, b)
      BY <1>2, <2>4, <3>1 DEF Skips, AllBlank
    <3>3. q = b
      BY <2>2, <3>1, <3>2, SkipUnique
    <3> QED
      BY <2>1, <2>3, <3>3 DEF BracketSays
  <2>5. CASE G(m, ListOf(close), a + 1, b - 1)
    <3>1. a + 1 \in 1..Len(m) + 1 /\ b - 1 \in 0..Len(m)
      BY <1>1, <1>5
    <3>2. ListOf(close) \in Parts
      BY DEF ListOf, Parts
    <3>3. b - 1 \in a + 1..Len(m)
      BY <2>5, <3>1, <3>2, PartWithin
    <3>4. a + 1 \in i + 1..j - 1 /\ b - 1 \in a + 1..j - 1 /\ (b - 1) + 1 = b
      BY <1>1, <1>2, <3>3
    <3>5. Complete(m, a + 1, b - 1)
      BY <3>4
    <3>6. TakesList(m, close, a + 1, b - 1)
      BY <2>1, <2>5, <3>4, <3>5 DEF Complete
    <3>7. Lst(m, close, q) = Lst(m, close, a + 1)
      <4> QED
        BY <2>2, <3>1, ListSkip
    <3>8. Lst(m, close, a + 1).end = b + 1
      <4>1. (b - 1) + 2 = b + 1
        BY <1>5
      <4> QED
        BY <3>6, <4>1 DEF TakesList
    <3> QED
      BY <2>2, <2>3, <3>6, <3>7, <3>8 DEF BracketSays, TakesList
  <2> QED
    BY <2>1, <2>4, <2>5
<1> QED
  BY <1>2, <1>6, <1>7, <1>8 DEF IsCore

(* a pair                                                                  *)
LEMMA PairComplete ==
  ASSUME NEW m, IsText(m), NEW i \in 1..Len(m), NEW j \in i..Len(m),
         G(m, "pair", i, j),
         \A x \in i + 1..j : \A y \in x..j : Complete(m, x, y)
  PROVE  TakesPair(m, i, j)
<1>1. Len(m) \in Nat
  BY LenIs
<1>2. PICK k, a, b : IsPairAt(m, i, j, k, a, b)
  BY PairRule
<1>3. /\ k \in i..j /\ At(m, k) = Colon /\ a \in i..k /\ b \in i..k - 1
      /\ AllBlank(m, i, a - 1) /\ AllBlank(m, b + 1, k - 1)
      /\ IsString(SubSeq(m, a, b)) /\ G(m, "value", k + 1, j)
  BY <1>2 DEF IsPairAt
<1>4. a <= b /\ a \in 1..Len(m) /\ b \in a..Len(m) /\ b < k /\ k \in 1..Len(m)
  <2>1. ASSUME ~(a <= b) PROVE FALSE
    <3>1. SubSeq(m, a, b) = <<>>
      BY <1>1, <1>3, <2>1 DEF IsText
    <3> QED
      BY <1>3, <3>1 DEF IsString
  <2> QED
    BY <1>1, <1>3, <2>1
<1>5. At(m, a) = Quote /\ Counted(m, a + 1).end = b
  BY <1>3, <1>4, StringIff
<1>6. At(m, b) = Quote
  <2>1. a + 1 \in 1..Len(m) + 2
    BY <1>1, <1>4
  <2>2. At(m, b) \in {Quote, NUL}
    BY <1>5, <2>1, WalkBounds
  <2>3. At(m, b) # NUL
    <3>1. b \in Nat \ {0} /\ b <= Len(m)
      BY <1>4
    <3> QED
      BY <1>1, <3>1, AtIs
  <2> QED
    BY <2>2, <2>3
<1>7. PICK name : name = parse_string(m, a)
  OBVIOUS
<1>8. name.end = b + 1
  BY <1>4, <1>5, <1>6, <1>7, StringIs
<1>9. skip(m, i) = a
  <2>1. i \in Nat \ {0} /\ a \in Nat /\ i <= a
    BY <1>1, <1>3, <1>4
  <2>2. Skips(m, i, a)
    BY <1>3, <1>5, <2>1, SymbolsDiffer DEF Skips, AllBlank
  <2> QED
    BY <2>1, <2>2, SkipUnique
<1>10. skip(m, name.end) = k
  <2>1. b + 1 \in Nat \ {0} /\ k \in Nat /\ b + 1 <= k
    BY <1>1, <1>3, <1>4
  <2>2. Skips(m, b + 1, k)
    BY <1>3, <2>1, SymbolsDiffer DEF Skips, AllBlank
  <2> QED
    BY <1>8, <2>1, <2>2, SkipUnique
<1>11. k + 1 \in 1..Len(m) /\ j \in k + 1..Len(m)
  <2>1. k + 1 \in 1..Len(m) + 1 /\ j \in 0..Len(m)
    BY <1>1, <1>3, <1>4
  <2> QED
    BY <1>3, <2>1, PartWithin DEF Parts
<1>12. TakesValue(m, k + 1, j)
  <2>1. k + 1 \in i + 1..j /\ j \in k + 1..j
    BY <1>1, <1>3, <1>11
  <2> QED
    BY <1>3, <2>1 DEF Complete
<1>13. PICK q, e : q = skip(m, k + 1) /\ e = Val(m, q).end
  OBVIOUS
<1>14. q \in k + 1..j /\ e \in q + 1..j + 1 /\ AllBlank(m, e, j)
  BY <1>12, <1>13 DEF TakesValue
<1>15. PairAt(m, a).end = e
  <2>1. a \in 1..Len(m) + 4
    BY <1>1, <1>4
  <2>2. PairSays(m, a, name, k, Val(m, q))
    BY <1>7, <1>10, <1>13, <2>1, PairIs
  <2>3. name.end # 0
    BY <1>4, <1>8
  <2> QED
    BY <1>3, <1>13, <2>2, <2>3 DEF PairSays
<1>16. a \in i..j /\ e \in a + 1..j + 1
  BY <1>1, <1>3, <1>4, <1>14
<1> QED
  BY <1>9, <1>14, <1>15, <1>16 DEF TakesPair

(* What closes a list begins no member of it.                              *)
LEMMA CloseIsNoMember ==
  ASSUME NEW m, IsText(m), NEW p \in 1..Len(m) + 4, NEW close \in Closes,
         At(m, p) = close
  PROVE  One(m, close, p).end = 0
<1>1. close \notin Scalars \cup {Quote, OpenArray, OpenObject}
  BY SymbolsDiffer DEF Closes
<1>2. CASE close = CloseArray
  BY <1>1, <1>2, OtherIs, OneIs, FailedEnd
<1>3. CASE close = CloseObject
  <2>1. parse_string(m, p) = Failed
    BY <1>1 DEF parse_string
  <2>2. PICK name, colon : name = parse_string(m, p) /\ colon = skip(m, name.end)
    OBVIOUS
  <2>3. PairSays(m, p, name, colon, Val(m, skip(m, colon + 1)))
    BY <2>2, PairIs
  <2>4. PairAt(m, p).end = 0
    BY <2>1, <2>2, <2>3, FailedEnd DEF PairSays
  <2> QED
    BY <1>3, <2>4, OneIs
<1> QED
  BY <1>2, <1>3 DEF Closes

TakesOne(m, close, i, j) ==
  LET q == skip(m, i)
      e == One(m, close, q).end
  IN q \in i..j /\ e \in q + 1..j + 1 /\ AllBlank(m, e, j)

(* a member                                                                *)
LEMMA OneComplete ==
  ASSUME NEW m, NEW i, NEW j, NEW close \in Closes,
         G(m, "value", i, j) => TakesValue(m, i, j),
         G(m, "pair", i, j) => TakesPair(m, i, j),
         G(m, MemberOf(close), i, j)
  PROVE  TakesOne(m, close, i, j)
<1>1. CASE close = CloseArray
  <2>1. TakesValue(m, i, j)
    BY <1>1 DEF MemberOf
  <2>2. One(m, close, skip(m, i)) = Val(m, skip(m, i))
    BY <1>1, OneIs
  <2> QED
    BY <2>1, <2>2 DEF TakesOne, TakesValue
<1>2. CASE close = CloseObject
  <2>1. TakesPair(m, i, j)
    BY <1>2, SymbolsDiffer DEF MemberOf
  <2>2. One(m, close, skip(m, i)) = PairAt(m, skip(m, i))
    BY <1>2, OneIs
  <2> QED
    BY <2>1, <2>2 DEF TakesOne, TakesPair
<1> QED
  BY <1>1, <1>2 DEF Closes

(* a list                                                                  *)
LEMMA ListComplete ==
  ASSUME NEW m, IsText(m), NEW i \in 1..Len(m), NEW j \in i..Len(m),
         NEW close \in Closes,
         G(m, "value", i, j) => TakesValue(m, i, j),
         G(m, "pair", i, j) => TakesPair(m, i, j),
         \A x \in i..j : \A y \in x..j : y - x < j - i => Complete(m, x, y),
         G(m, ListOf(close), i, j), At(m, j + 1) = close
  PROVE  TakesList(m, close, i, j)
<1>1. Len(m) \in Nat /\ i \in 1..Len(m) + 4
  BY LenIs
<1>2. PICK q, first, next : /\ q = skip(m, i) /\ first = One(m, close, q)
                            /\ next = skip(m, first.end)
  OBVIOUS
<1>3. ListSays(m, close, i, first, next, Lst(m, close, next + 1))
  BY <1>1, <1>2, ListIs
<1>4. close # Blank /\ close # Comma /\ Comma # Blank
  BY SymbolsDiffer DEF Closes
<1>5. ASSUME NEW l \in i..j, TakesOne(m, close, i, l), At(m, l + 1) # Blank
      PROVE  first.end # 0 /\ next = l + 1 /\ At(m, q) # close
  <2>1. /\ q \in i..l /\ first.end \in q + 1..l + 1
        /\ AllBlank(m, first.end, l)
    BY <1>2, <1>5 DEF TakesOne
  <2>2. /\ first.end \in Nat \ {0} /\ l + 1 \in Nat /\ first.end <= l + 1
        /\ (l + 1) - 1 = l
    BY <1>1, <2>1
  <2>3. Skips(m, first.end, l + 1)
    BY <1>5, <2>1, <2>2 DEF Skips, AllBlank
  <2>4. next = l + 1
    BY <1>2, <2>2, <2>3, SkipUnique
  <2>5. q \in 1..Len(m) + 4
    BY <1>1, <2>1
  <2> QED
    BY <1>2, <2>2, <2>4, <2>5, CloseIsNoMember
<1>6. CASE G(m, MemberOf(close), i, j)
  <2>1. TakesOne(m, close, i, j)
    BY <1>6, OneComplete
  <2>2. first.end # 0 /\ next = j + 1 /\ At(m, q) # close
    <3>1. j \in i..j
      BY <1>1
    <3> QED
      BY <1>4, <1>5, <2>1, <3>1
  <2>3. Lst(m, close, i).end = next + 1
    BY <1>3, <2>2 DEF ListSays
  <2>4. next + 1 = j + 2
    BY <1>1, <2>2
  <2> QED
    BY <1>2, <2>2, <2>3, <2>4 DEF TakesList
<1>7. CASE \E k \in i..j : /\ At(m, k) = Comma
                           /\ G(m, MemberOf(close), i, k - 1)
                           /\ G(m, ListOf(close), k + 1, j)
  <2>1. PICK k \in i..j : /\ At(m, k) = Comma
                          /\ G(m, MemberOf(close), i, k - 1)
                          /\ G(m, ListOf(close), k + 1, j)
    BY <1>7
  <2>2. k - 1 \in i..Len(m) /\ k + 1 \in 1..Len(m) /\ j \in k + 1..Len(m)
    <3>1. MemberOf(close) \in Parts /\ ListOf(close) \in Parts
      BY DEF MemberOf, ListOf, Parts
    <3>2. /\ i \in 1..Len(m) + 1 /\ k - 1 \in 0..Len(m)
          /\ k + 1 \in 1..Len(m) + 1 /\ j \in 0..Len(m)
      BY <1>1
    <3> QED
      BY <2>1, <3>1, <3>2, PartWithin
  <2>3. /\ i \in i..j /\ k - 1 \in i..j /\ (k - 1) - i < j - i
        /\ k + 1 \in i..j /\ j \in k + 1..j /\ j - (k + 1) < j - i
        /\ (k - 1) + 1 = k
    BY <1>1, <2>2
  <2>4. Complete(m, i, k - 1) /\ Complete(m, k + 1, j)
    BY <2>3
  <2>5. TakesOne(m, close, i, k - 1)
    BY <2>1, <2>4, OneComplete DEF Complete
  <2>6. first.end # 0 /\ next = k /\ At(m, q) # close
    BY <1>4, <1>5, <2>1, <2>3, <2>5
  <2>7. TakesList(m, close, k + 1, j)
    BY <2>1, <2>4 DEF Complete
  <2>8. Lst(m, close, i).end = Lst(m, close, k + 1).end
    BY <1>3, <1>4, <2>1, <2>6 DEF ListSays
  <2> QED
    BY <1>2, <2>6, <2>7, <2>8 DEF TakesList
<1> QED
  BY <1>6, <1>7, ListRule

(* All of them, by induction on the length of the part.                    *)
LEMMA AllComplete ==
  ASSUME NEW m, IsText(m), NEW i \in 1..Len(m), NEW j \in i..Len(m)
  PROVE  Complete(m, i, j)
<1> DEFINE T == {n \in Nat : \A x \in 1..Len(m) : \A y \in x..Len(m) :
                               y - x < n => Complete(m, x, y)}
<1>1. Len(m) \in Nat
  BY LenIs
<1>2. 0 \in T
  BY <1>1
<1>3. ASSUME NEW n \in Nat, n \in T PROVE n + 1 \in T
  <2>1. SUFFICES ASSUME NEW x \in 1..Len(m), NEW y \in x..Len(m),
                        y - x < n + 1
                 PROVE  Complete(m, x, y)
    OBVIOUS
  <2>2. \A v \in x..y : \A w \in v..y : w - v < y - x => Complete(m, v, w)
    <3>1. \A v \in x..y : \A w \in v..y : w - v < y - x =>
            v \in 1..Len(m) /\ w \in v..Len(m) /\ w - v < n
      BY <1>1, <2>1
    <3> QED
      BY <1>3, <3>1
  <2>3. G(m, "value", x, y) => TakesValue(m, x, y)
    <3>1. \A v \in x + 1..y - 1 : \A w \in v..y - 1 :
            v \in x..y /\ w \in v..y /\ w - v < y - x
      BY <1>1
    <3>2. \A v \in x + 1..y - 1 : \A w \in v..y - 1 : Complete(m, v, w)
      BY <2>2, <3>1
    <3> QED
      BY <3>2, ValueComplete
  <2>4. G(m, "pair", x, y) => TakesPair(m, x, y)
    <3>1. \A v \in x + 1..y : \A w \in v..y :
            v \in x..y /\ w \in v..y /\ w - v < y - x
      BY <1>1
    <3>2. \A v \in x + 1..y : \A w \in v..y : Complete(m, v, w)
      BY <2>2, <3>1
    <3> QED
      BY <3>2, PairComplete
  <2>5. \A close \in Closes :
          G(m, ListOf(close), x, y) /\ At(m, y + 1) = close
            => TakesList(m, close, x, y)
    <3> HIDE DEF T
    <3> QED
      BY <2>2, <2>3, <2>4, ListComplete
  <2> QED
    BY <2>3, <2>4, <2>5 DEF Complete
<1>4. Nat \subseteq T
  <2> HIDE DEF T
  <2> QED
    BY <1>2, <1>3, SetInduction
<1>5. Len(m) \in T
  <2> HIDE DEF T
  <2> QED
    BY <1>1, <1>4
<1>6. j - i < Len(m)
  BY <1>1
<1> QED
  BY <1>5, <1>6

-----------------------------------------------------------------------------
(* Of a text in which four digits stand behind every \u, cJSON_Parse never *)
(* writes a string behind its memory (cJSON.c:159-211), and it takes it    *)
(* exactly if it begins with a value, whose numbers are those of           *)
(* parse_number (cJSON.c:96-115), or with a string that is never closed.   *)
THEOREM ParsedIff ==
  ASSUME NEW s, IsText(s)
  PROVE  /\ cJSON_Parse(s).item.type # "overrun"
         /\ cJSON_Parse(s).end # 0 <=>
              \/ \E n \in 1..Len(s) : Grammar(s)["value"][1][n]
              \/ \E n \in 0..Len(s) :
                   Blanks(s, 1, n) /\ IsUnclosed(After(s, n))
<1> DEFINE q == skip(s, 1)
           e == Val(s, q).end
<1>1. Len(s) \in Nat
  BY LenIs
<1>2. /\ q \in Nat \ {0} /\ q \in 1..Len(s) + 1 /\ q \in 1..Len(s) + 4
      /\ AllBlank(s, 1, q - 1)
  <2>1. 1 \in Nat \ {0} /\ 1 <= Len(s) + 1
    BY <1>1
  <2>2. q \in Nat \ {0} /\ q <= Len(s) + 1 /\ Skips(s, 1, q)
    BY <2>1, SkipIs
  <2> HIDE DEF q
  <2> QED
    BY <1>1, <2>2 DEF Skips, AllBlank
<1>3. cJSON_Parse(s).end = e /\ cJSON_Parse(s).item.type # "overrun"
  <2>1. cJSON_Parse(s) = Val(s, q)
    BY DEF cJSON_Parse, Val
  <2> HIDE DEF q
  <2>2. IsResult(s, Val(s, q), q)
    BY <1>2, Results
  <2> QED
    BY <2>1, <2>2 DEF IsResult
<1> HIDE DEF q
<1>4. ASSUME e # 0
      PROVE  \/ \E n \in 1..Len(s) : G(s, "value", 1, n)
             \/ \E n \in 0..Len(s) : Blanks(s, 1, n) /\ IsUnclosed(After(s, n))
  <2>1. CASE e \in q + 1..Len(s) + 1 /\ G(s, "value", q, e - 1)
    <3>1. /\ 1 \in 1..Len(s) /\ e - 1 \in 1..Len(s) /\ q \in 1..e - 1
          /\ e - 1 \in q..e - 1
      BY <1>1, <1>2, <2>1
    <3>2. AllBlank(s, (e - 1) + 1, e - 1)
      BY <3>1 DEF AllBlank
    <3>3. G(s, "value", 1, e - 1)
      BY <1>2, <2>1, <3>1, <3>2, Widen
    <3> QED
      BY <3>1, <3>3
  <2>2. CASE e > Len(s) /\ Endless(s, q)
    <3>1. At(s, q) = Quote /\ Counted(s, q + 1).end > Len(s)
      BY <2>2 DEF Endless
    <3>2. q \in 1..Len(s)
      BY <1>2, <3>1, InText, SymbolsDiffer
    <3>3. IsUnclosed(SubSeq(s, q, Len(s)))
      BY <3>1, <3>2, UnclosedIff
    <3>4. /\ q - 1 \in 0..Len(s) /\ (q - 1) + 1 = q
          /\ 1 \in Nat \ {0} /\ q - 1 \in Int /\ q - 1 <= Len(s)
      BY <1>1, <3>2
    <3>5. Blanks(s, 1, q - 1)
      BY <1>2, <3>4, BlanksAre
    <3> QED
      BY <3>3, <3>4, <3>5 DEF After
  <2> QED
    BY <1>2, <1>4, <2>1, <2>2, Sound DEF SoundValue
<1>5. ASSUME NEW n \in 1..Len(s), G(s, "value", 1, n) PROVE e # 0
  <2>1. 1 \in 1..Len(s)
    BY <1>1
  <2>2. TakesValue(s, 1, n)
    BY <1>5, <2>1, AllComplete DEF Complete
  <2>3. e \in q + 1..n + 1
    BY <2>2 DEF TakesValue, q
  <2> QED
    BY <1>2, <2>3
<1>6. ASSUME NEW n \in 0..Len(s), Blanks(s, 1, n), IsUnclosed(After(s, n))
      PROVE  e # 0
  <2>1. After(s, n) = SubSeq(s, n + 1, Len(s))
    BY DEF After
  <2>2. n + 1 \in 1..Len(s)
    <3>1. ASSUME n = Len(s) PROVE FALSE
      <4>1. SubSeq(s, n + 1, Len(s)) = <<>>
        BY <1>1, <3>1 DEF IsText
      <4> QED
        BY <1>6, <2>1, <4>1 DEF IsUnclosed
    <3> QED
      BY <1>1, <3>1
  <2>3. At(s, n + 1) = Quote /\ Counted(s, n + 1 + 1).end > Len(s)
    BY <1>6, <2>1, <2>2, UnclosedIff
  <2>4. q = n + 1
    <3>1. 1 \in Nat \ {0} /\ n \in Int /\ n <= Len(s)
      BY <1>1
    <3>2. AllBlank(s, 1, n)
      BY <1>6, <3>1, BlanksAre
    <3>3. n + 1 \in Nat /\ 1 <= n + 1 /\ (n + 1) - 1 = n
      OBVIOUS
    <3>4. Skips(s, 1, n + 1)
      BY <2>3, <3>2, <3>3, SymbolsDiffer DEF Skips, AllBlank
    <3> QED
      BY <3>1, <3>4, SkipUnique DEF q
  <2>5. Val(s, q) = parse_string(s, q)
    BY <1>2, <2>3, <2>4, QuoteIs
  <2>6. parse_string(s, q).end # 0
    <3>1. PICK end : end = Counted(s, q + 1).end
      OBVIOUS
    <3>2. parse_string(s, q).end = IF At(s, end) = Quote THEN end + 1 ELSE end
      <4>1. q \in 1..Len(s)
        BY <2>2, <2>4
      <4> QED
        BY <2>3, <2>4, <3>1, <4>1, StringIs
    <3>3. end \in Nat /\ end > Len(s)
      <4>1. q + 1 \in 1..Len(s) + 2
        BY <1>1, <1>2
      <4> QED
        BY <2>3, <2>4, <3>1, <4>1, WalkBounds
    <3> QED
      BY <1>1, <3>2, <3>3
  <2> QED
    BY <2>5, <2>6
<1> HIDE DEF e
<1> QED
  BY <1>3, <1>4, <1>5, <1>6 DEF G

-----------------------------------------------------------------------------
(* What the parser makes of the parts of a configuration file.             *)

Item(type, string, valuestring, child) ==
  [type |-> type, string |-> string, valuestring |-> valuestring,
   child |-> child]

(* The fields of an item, and how one is changed.                          *)
LEMMA ItemFields ==
  ASSUME NEW type, NEW string, NEW valuestring, NEW child, NEW x
  PROVE  LET item == Item(type, string, valuestring, child) IN
           /\ item.type = type /\ item.string = string
           /\ item.valuestring = valuestring /\ item.child = child
           /\ [item EXCEPT !.type = x] = Item(x, string, valuestring, child)
           /\ [item EXCEPT !.string = x] = Item(type, x, valuestring, child)
           /\ [item EXCEPT !.child = x] = Item(type, string, valuestring, x)
           /\ New_Item(x) = Item(x, <<>>, <<>>, <<>>)
BY DEF Item, New_Item

(* the C string that ends at the first zero, at k                          *)
LEMMA CStringIs ==
  ASSUME NEW S, NEW s \in Seq(S), NEW i \in Nat \ {0}, NEW k \in Nat,
         i <= k, k <= Len(s) + 1, At(s, k) = NUL,
         \A j \in i..k - 1 : At(s, j) # NUL
  PROVE  CString(s, i) = SubSeq(s, i, k - 1)
<1> DEFINE T == {j \in i..(Len(s) + i) : At(s, j) = NUL}
<1>1. Len(s) \in Nat
  OBVIOUS
<1>2. k \in T /\ T \subseteq Nat
  BY <1>1
<1>3. \A j \in T : ~(j < k)
  BY <1>1
<1> HIDE DEF T
<1>4. Least(T) \in T /\ Least(T) <= k
  BY <1>2, LeastIs
<1>5. PICK l : l = Least(T)
  OBVIOUS
<1>6. l \in Nat /\ l <= k /\ ~(l < k)
  BY <1>2, <1>3, <1>4, <1>5
<1>7. l = k
  BY <1>6
<1> QED
  BY <1>5, <1>7 DEF CString, T

(* The C string of one word, and of none.                                  *)
LEMMA CStringOfWord ==
  ASSUME NEW w, w # NUL
  PROVE  CString(<<w>>, 1) = <<w>> /\ CString(<<>>, 1) = <<>>
<1>1. At(<<w>>, 1) = w /\ At(<<w>>, 2) = NUL /\ At(<<>>, 1) = NUL
  BY DEF At
<1>2. CString(<<w>>, 1) = <<w>>
  <2>1. PICK s : s = <<w>>
    OBVIOUS
  <2>2. /\ s \in Seq({w}) /\ 1 <= 2 /\ 2 <= Len(s) + 1 /\ At(s, 2) = NUL
        /\ 1 \in Nat \ {0} /\ 2 \in Nat
    BY <1>1, <2>1
  <2>3. \A j \in 1..2 - 1 : At(s, j) # NUL
    BY <1>1, <2>1
  <2>4. CString(s, 1) = SubSeq(s, 1, 2 - 1)
    BY <2>2, <2>3, CStringIs
  <2>5. SubSeq(s, 1, 1) = s
    <3>1. Len(s) = 1
      BY <2>1
    <3> QED
      BY <2>2, <3>1, SubSeqFull
  <2> QED
    BY <2>1, <2>4, <2>5
<1>3. CString(<<>>, 1) = <<>>
  <2>1. PICK s : s = <<>>
    OBVIOUS
  <2>2. /\ s \in Seq({w}) /\ 1 <= 1 /\ 1 <= Len(s) + 1 /\ At(s, 1) = NUL
        /\ 1 \in Nat \ {0} /\ 1 \in Nat /\ SubSeq(s, 1, 0) = s
    BY <1>1, <2>1
  <2>3. \A j \in 1..1 - 1 : At(s, j) # NUL
    OBVIOUS
  <2>4. CString(s, 1) = SubSeq(s, 1, 1 - 1)
    BY <2>2, <2>3, CStringIs
  <2> QED
    BY <2>1, <2>2, <2>4
<1> QED
  BY <1>2, <1>3

StringItem(text) == Item("string", <<>>, text, <<>>)

(* a string of one word, and an empty one                                  *)
IsWord(m, p, w) == At(m, p) = Quote /\ At(m, p + 1) = w /\ At(m, p + 2) = Quote

(* A string of one word, read whole.                                       *)
LEMMA WordIs ==
  ASSUME NEW m, IsText(m), NEW p \in 1..Len(m), NEW w,
         w \notin {Quote, Backslash, NUL}, IsWord(m, p, w)
  PROVE  parse_string(m, p) = [end |-> p + 3, item |-> StringItem(<<w>>)]
<1>1. p + 1 \in 1..Len(m) + 5 /\ p + 2 \in 1..Len(m) + 5 /\ (p + 1) + 1 = p + 2
  BY LenIs
<1>2. ASSUME NEW loop \in Loops
      PROVE  Walk(m, p + 1, loop) = [end |-> p + 2, text |-> <<w>>]
  <2>1. Walk(m, p + 2, loop) = [end |-> p + 2, text |-> <<>>]
    BY <1>1, WalkIs DEF IsWord
  <2>2. Step(m, p + 1, loop) = [next |-> p + 2, text |-> <<w>>]
    BY <1>1 DEF Step, IsWord
  <2>3. Walk(m, p + 1, loop)
          = Longer(m, p + 1, loop, Walk(m, Step(m, p + 1, loop).next, loop))
    BY <1>1, WalkIs DEF IsWord
  <2>4. PICK rest, step : /\ rest = [end |-> p + 2, text |-> <<>>]
                          /\ step = Step(m, p + 1, loop)
    OBVIOUS
  <2>5. /\ step.next = p + 2 /\ step.text = <<w>> /\ rest.end = p + 2
        /\ step.text \o rest.text = <<w>>
    BY <2>2, <2>4
  <2>6. Walk(m, p + 1, loop) = Longer(m, p + 1, loop, rest)
    BY <2>1, <2>3, <2>4, <2>5, Zenon
  <2> QED
    BY <2>4, <2>5, <2>6, Zenon DEF Longer
<1>3. /\ Counted(m, p + 1).end = p + 2
      /\ Copied(m, p + 1).text = <<w>>
  <2>1. "count" \in Loops /\ "copy" \in Loops
    BY DEF Loops
  <2> QED
    BY <1>2, <2>1 DEF Counted, Copied
<1>4. CString(<<w>>, 1) = <<w>>
  BY CStringOfWord
<1> QED
  BY <1>1, <1>3, <1>4, StringIs DEF IsWord, StringItem, Item

(* the empty string                                                        *)
LEMMA EmptyIs ==
  ASSUME NEW m, IsText(m), NEW p \in 1..Len(m),
         At(m, p) = Quote, At(m, p + 1) = Quote
  PROVE  parse_string(m, p) = [end |-> p + 2, item |-> StringItem(<<>>)]
<1>1. p + 1 \in 1..Len(m) + 5 /\ "count" \in Loops /\ "copy" \in Loops
  BY LenIs DEF Loops
<1>2. /\ Counted(m, p + 1) = [end |-> p + 1, text |-> <<>>]
      /\ Copied(m, p + 1) = [end |-> p + 1, text |-> <<>>]
  BY <1>1, WalkIs DEF Counted, Copied
<1>3. Counted(m, p + 1).end = p + 1 /\ Copied(m, p + 1).text = <<>>
  BY <1>2
<1>4. CString(<<>>, 1) = <<>>
  <2>1. PICK w : w # NUL
    BY SymbolsDiffer
  <2> QED
    BY <2>1, CStringOfWord
<1> QED
  BY <1>3, <1>4, StringIs DEF StringItem, Item

(* an array or an object that is not empty and has no blanks in front      *)
LEMMA BracketOpens ==
  ASSUME NEW m, IsText(m), NEW p \in 1..Len(m), NEW close \in Closes,
         At(m, p) = Opens(close), At(m, p + 1) \notin {Blank, close},
         NEW v \in Nat \ {0}, NEW c, Lst(m, close, p + 1) =
           [end |-> v, item |-> Item("list", <<>>, <<>>, c)]
  PROVE  /\ Val(m, p).end = v
         /\ Val(m, p).item = Item(TypeOf(close), <<>>, <<>>, c)
<1>1. p + 1 \in Nat \ {0}
  OBVIOUS
<1>2. skip(m, p + 1) = p + 1
  BY <1>1, SkipIs
<1>3. BracketSays(m, p, close, p + 1)
  BY <1>2, BracketIs
<1>4. /\ Val(m, p).end = Lst(m, close, p + 1).end
      /\ Val(m, p).item = [Lst(m, close, p + 1).item EXCEPT !.type = TypeOf(close)]
  BY <1>3 DEF BracketSays
<1>5. /\ Lst(m, close, p + 1).end = v
      /\ Lst(m, close, p + 1).item = Item("list", <<>>, <<>>, c)
  OBVIOUS
<1> QED
  BY <1>4, <1>5, ItemFields

(* the last member, and one before others                                  *)
LEMMA LastMember ==
  ASSUME NEW m, IsText(m), NEW p \in 1..Len(m), NEW close \in Closes,
         At(m, p) # Blank, NEW e \in Nat \ {0}, NEW i,
         One(m, close, p).end = e, One(m, close, p).item = i,
         At(m, e) = close
  PROVE  Lst(m, close, p) =
           [end |-> e + 1, item |-> Item("list", <<>>, <<>>, <<i>>)]
<1>1. p \in 1..Len(m) + 4 /\ p \in Nat \ {0}
  BY LenIs
<1>2. skip(m, p) = p
  BY <1>1, SkipIs
<1>3. skip(m, e) = e
  BY SkipIs, SymbolsDiffer DEF Closes
<1>4. PICK first : first = One(m, close, p)
  OBVIOUS
<1>5. ListSays(m, close, p, first, e, Lst(m, close, e + 1))
  BY <1>1, <1>2, <1>3, <1>4, ListIs
<1>6. /\ Lst(m, close, p).end = e + 1
      /\ Lst(m, close, p).item = Item("list", <<>>, <<>>, <<first.item>>)
  BY <1>4, <1>5 DEF ListSays, Item
<1>7. Lst(m, close, p) =
        [end |-> Lst(m, close, p).end, item |-> Lst(m, close, p).item]
  BY <1>1, Results DEF IsResult
<1> QED
  BY <1>4, <1>6, <1>7

(* a member, a comma and the members behind it                             *)
LEMMA MoreMembers ==
  ASSUME NEW m, IsText(m), NEW p \in 1..Len(m), NEW close \in Closes,
         At(m, p) # Blank, NEW e \in Nat \ {0}, NEW i,
         One(m, close, p).end = e, One(m, close, p).item = i,
         At(m, e) = Comma,
         NEW v, NEW c, Lst(m, close, e + 1) =
           [end |-> v, item |-> Item("list", <<>>, <<>>, c)]
  PROVE  Lst(m, close, p) =
           [end |-> v, item |-> Item("list", <<>>, <<>>, <<i>> \o c)]
<1>1. p \in 1..Len(m) + 4 /\ p \in Nat \ {0}
  BY LenIs
<1>2. skip(m, p) = p
  BY <1>1, SkipIs
<1>3. skip(m, e) = e /\ Comma # close
  BY SkipIs, SymbolsDiffer DEF Closes
<1>4. PICK first, rest : first = One(m, close, p) /\ rest = Lst(m, close, e + 1)
  OBVIOUS
<1>5. ListSays(m, close, p, first, e, rest)
  BY <1>1, <1>2, <1>3, <1>4, ListIs
<1>6. rest.end = v /\ rest.item = Item("list", <<>>, <<>>, c) /\ rest.item.child = c
  BY <1>4, ItemFields
<1>7. PICK d : d = <<i>> \o c
  OBVIOUS
<1>8. /\ Lst(m, close, p).end = v
      /\ Lst(m, close, p).item = [rest.item EXCEPT !.child = d]
  BY <1>3, <1>4, <1>5, <1>6, <1>7 DEF ListSays
<1>9. Lst(m, close, p) =
        [end |-> Lst(m, close, p).end, item |-> Lst(m, close, p).item]
  BY <1>1, Results DEF IsResult
<1>10. [rest.item EXCEPT !.child = d] = Item("list", <<>>, <<>>, d)
  BY <1>6, ItemFields
<1>11. Lst(m, close, p) = [end |-> v, item |-> Item("list", <<>>, <<>>, d)]
  BY <1>8, <1>9, <1>10
<1> QED
  BY <1>7, <1>11

(* a pair whose name is one word and that has no blanks                    *)
LEMMA NamedIs ==
  ASSUME NEW m, IsText(m), NEW p \in 1..Len(m), NEW w,
         w \notin {Quote, Backslash, NUL}, IsWord(m, p, w), At(m, p + 3) = Colon,
         At(m, p + 4) # Blank, NEW v, NEW type, NEW c,
         Val(m, p + 4).end = v, Val(m, p + 4).item = Item(type, <<>>, <<>>, c)
  PROVE  /\ PairAt(m, p).end = v
         /\ PairAt(m, p).item = Item(type, <<w>>, <<>>, c)
<1>1. p \in 1..Len(m) + 4 /\ p + 3 \in Nat \ {0} /\ p + 4 \in Nat \ {0}
  BY LenIs
<1>2. PICK name : name = parse_string(m, p)
  OBVIOUS
<1>3. name = [end |-> p + 3, item |-> StringItem(<<w>>)]
  BY <1>2, WordIs
<1>4. name.end = p + 3 /\ name.item.valuestring = <<w>>
  BY <1>3 DEF StringItem, Item
<1>5. skip(m, p + 3) = p + 3 /\ skip(m, p + 4) = p + 4
  BY <1>1, SkipIs, SymbolsDiffer
<1>6. PICK colon, value : colon = p + 3 /\ value = Val(m, p + 4)
  OBVIOUS
<1>7. colon = skip(m, name.end) /\ colon + 1 = p + 4
  BY <1>4, <1>5, <1>6
<1>8. PairSays(m, p, name, colon, Val(m, skip(m, colon + 1)))
  BY <1>1, <1>2, <1>7, PairIs
<1>9. PairSays(m, p, name, colon, value)
  BY <1>5, <1>6, <1>7, <1>8
<1>10. /\ PairAt(m, p).end = value.end
       /\ PairAt(m, p).item = [value.item EXCEPT !.string = name.item.valuestring]
  BY <1>1, <1>4, <1>6, <1>9 DEF PairSays
<1> QED
  BY <1>4, <1>6, <1>10, ItemFields

-----------------------------------------------------------------------------
(* Sequences put together, and where their parts begin: at[i] elements     *)
(* stand before the i-th.                                                  *)
Begins(seqs, at) ==
  /\ at \in [1..Len(seqs) + 1 -> Nat] /\ at[1] = 0
  /\ \A i \in 1..Len(seqs) : at[i + 1] = at[i] + Len(seqs[i])

Parted(seqs, all, at) ==
  /\ Begins(seqs, at) /\ Len(all) = at[Len(seqs) + 1]
  /\ \A i \in 1..Len(seqs) :
       /\ at[i + 1] <= Len(all)
       /\ \A k \in 1..Len(seqs[i]) : all[at[i] + k] = seqs[i][k]

(* f[n] are the first n of the sequences put together.                     *)
PutFirst(S, seqs, f) ==
  /\ f[0] = <<>>
  /\ \A n \in 0..Len(seqs) : f[n] \in Seq(S)
  /\ \A n \in 1..Len(seqs) : f[n] = f[n - 1] \o seqs[n]

(* two sequences, one behind the other                                     *)
LEMMA OneMore ==
  ASSUME NEW S, NEW s \in Seq(S), NEW t \in Seq(S)
  PROVE  /\ Len(s \o t) = Len(s) + Len(t)
         /\ \A i \in 1..Len(s) : (s \o t)[i] = s[i]
         /\ \A k \in 1..Len(t) : (s \o t)[Len(s) + k] = t[k]
OBVIOUS

PlacedIn(seqs, at, all, n) ==
  \A i \in 1..n :
    /\ at[i + 1] <= Len(all)
    /\ \A k \in 1..Len(seqs[i]) : all[at[i] + k] = seqs[i][k]

(* One more of them at the end leaves the others in their places.          *)
LEMMA PlacedNext ==
  ASSUME NEW S, NEW seqs, NEW at, NEW all \in Seq(S), NEW n \in Nat,
         NEW next \in Seq(S), next = seqs[n + 1], NEW more, more = all \o next,
         PlacedIn(seqs, at, all, n),
         \A i \in 1..n + 1 : Len(seqs[i]) \in Nat /\ at[i] \in Nat
                            /\ at[i + 1] = at[i] + Len(seqs[i]),
         at[n + 1] = Len(all)
  PROVE  PlacedIn(seqs, at, more, n + 1)
<1>1. /\ Len(more) = Len(all) + Len(next)
      /\ \A i \in 1..Len(all) : more[i] = all[i]
      /\ \A k \in 1..Len(next) : more[Len(all) + k] = next[k]
  BY OneMore
<1>2. Len(all) \in Nat /\ Len(next) \in Nat /\ Len(more) \in Nat
  BY <1>1
<1>3. SUFFICES ASSUME NEW i \in 1..n + 1
               PROVE  /\ at[i + 1] <= Len(more)
                      /\ \A k \in 1..Len(seqs[i]) :
                           more[at[i] + k] = seqs[i][k]
  BY DEF PlacedIn
<1>4. PICK a \in Nat, l \in Nat :
        a = at[i] /\ l = Len(seqs[i]) /\ at[i + 1] = a + l
  OBVIOUS
<1>5. CASE i \in 1..n
  <2>1. a + l <= Len(all) /\ \A k \in 1..l : all[a + k] = seqs[i][k]
    BY <1>4, <1>5 DEF PlacedIn
  <2>2. \A k \in 1..l : a + k \in 1..Len(all)
    BY <1>2, <2>1
  <2>3. a + l <= Len(more)
    BY <1>1, <1>2, <2>1
  <2>4. \A k \in 1..l : more[a + k] = seqs[i][k]
    BY <1>1, <2>1, <2>2
  <2> QED
    BY <1>4, <2>3, <2>4
<1>6. CASE i = n + 1
  <2>1. a = Len(all) /\ next = seqs[i] /\ l = Len(next)
    BY <1>4, <1>6
  <2>2. a + l = Len(more)
    BY <1>1, <2>1
  <2>3. \A k \in 1..l : more[a + k] = seqs[i][k]
    BY <1>1, <2>1
  <2>4. at[i + 1] <= Len(more)
    BY <1>2, <1>4, <2>2
  <2>5. \A k \in 1..Len(seqs[i]) : more[at[i] + k] = seqs[i][k]
    BY <1>4, <2>3
  <2> QED
    BY <2>4, <2>5
<1>7. i \in 1..n \/ i = n + 1
  OBVIOUS
<1> QED
  BY <1>5, <1>6, <1>7

(* All of them are in their places.                                        *)
LEMMA PiecesPlaced ==
  ASSUME NEW S, NEW seqs \in Seq(Seq(S)), NEW f, PutFirst(S, seqs, f),
         NEW at, at = [i \in 1..Len(seqs) + 1 |-> Len(f[i - 1])]
  PROVE  Parted(seqs, f[Len(seqs)], at)
<1>1. PICK N \in Nat : N = Len(seqs)
  OBVIOUS
<1>2. /\ f[0] = <<>> /\ \A n \in 0..N : f[n] \in Seq(S) /\ Len(f[n]) \in Nat
      /\ \A n \in 1..N : f[n] = f[n - 1] \o seqs[n]
  <2>1. \A n \in 0..N : f[n] \in Seq(S)
    BY <1>1 DEF PutFirst
  <2>2. \A s \in Seq(S) : Len(s) \in Nat
    OBVIOUS
  <2> QED
    BY <1>1, <2>1, <2>2 DEF PutFirst
<1>3. \A n \in 1..N : n - 1 \in 0..N /\ n \in 0..N /\ n \in 1..N + 1
                      /\ n + 1 \in 1..N + 1 /\ (n + 1) - 1 = n
  BY <1>1
<1>4. \A n \in 1..N : seqs[n] \in Seq(S) /\ Len(seqs[n]) \in Nat
  <2>1. \A n \in 1..N : seqs[n] \in Seq(S)
    BY <1>1, ElementOfSeq
  <2>2. \A s \in Seq(S) : Len(s) \in Nat
    OBVIOUS
  <2> QED
    BY <2>1, <2>2
<1>5. at = [i \in 1..N + 1 |-> Len(f[i - 1])]
  BY <1>1
<1>6. \A n \in 1..N :
        /\ at[n] = Len(f[n - 1]) /\ at[n + 1] = Len(f[n])
        /\ at[n + 1] = at[n] + Len(seqs[n]) /\ at[n] \in Nat
  <2>1. \A n \in 1..N : at[n] = Len(f[n - 1]) /\ at[n + 1] = Len(f[n])
    BY <1>3, <1>5
  <2>2. ASSUME NEW n \in 1..N PROVE Len(f[n]) = Len(f[n - 1]) + Len(seqs[n])
    <3>1. f[n - 1] \in Seq(S) /\ seqs[n] \in Seq(S) /\ f[n] = f[n - 1] \o seqs[n]
      BY <1>2, <1>3, <1>4
    <3> QED
      BY <3>1, OneMore
  <2>3. \A n \in 1..N : Len(f[n - 1]) \in Nat
    BY <1>2, <1>3
  <2> QED
    BY <2>1, <2>2, <2>3
<1>7. at[1] = 0 /\ at[N + 1] = Len(f[N])
  <2>1. 1 \in 1..N + 1 /\ 1 - 1 = 0 /\ N + 1 \in 1..N + 1 /\ (N + 1) - 1 = N
    BY <1>1
  <2>2. Len(<<>>) = 0
    OBVIOUS
  <2> QED
    BY <1>2, <1>5, <2>1, <2>2
<1>8. Begins(seqs, at)
  <2>1. at \in [1..N + 1 -> Nat]
    <3>1. \A i \in 1..N + 1 : i - 1 \in 0..N
      BY <1>1
    <3> QED
      BY <1>2, <1>5, <3>1
  <2> QED
    BY <1>1, <1>6, <1>7, <2>1 DEF Begins
<1> DEFINE T == {n \in Nat : n <= N => PlacedIn(seqs, at, f[n], n)}
<1>9. 0 \in T
  BY DEF PlacedIn
<1>10. ASSUME NEW n \in Nat, n \in T PROVE n + 1 \in T
  <2>1. SUFFICES ASSUME n + 1 <= N
                 PROVE  PlacedIn(seqs, at, f[n + 1], n + 1)
    OBVIOUS
  <2>2. n <= N /\ n + 1 \in 1..N /\ (n + 1) - 1 = n /\ n \in 0..N
    BY <1>1, <2>1
  <2>3. PlacedIn(seqs, at, f[n], n)
    BY <1>10, <2>2
  <2>4. /\ f[n] \in Seq(S) /\ seqs[n + 1] \in Seq(S)
        /\ f[n + 1] = f[n] \o seqs[n + 1] /\ at[n + 1] = Len(f[n])
    BY <1>2, <1>4, <1>6, <2>2
  <2>5. \A i \in 1..n + 1 : Len(seqs[i]) \in Nat /\ at[i] \in Nat
                           /\ at[i + 1] = at[i] + Len(seqs[i])
    <3>1. \A i \in 1..n + 1 : i \in 1..N
      BY <1>1, <2>1
    <3> QED
      BY <1>4, <1>6, <3>1
  <2> HIDE DEF T
  <2> QED
    BY <2>3, <2>4, <2>5, PlacedNext
<1>11. Nat \subseteq T
  <2> HIDE DEF T
  <2> QED
    BY <1>9, <1>10, SetInduction
<1>12. PlacedIn(seqs, at, f[N], N)
  <2>1. N \in T
    BY <1>11
  <2> QED
    BY <1>1, <2>1
<1> QED
  BY <1>1, <1>7, <1>8, <1>12 DEF Parted, PlacedIn

(* FlattenSeq puts sequences together, each in its place.                  *)
LEMMA Pieces ==
  ASSUME NEW S, NEW seqs \in Seq(Seq(S))
  PROVE  /\ FlattenSeq(seqs) \in Seq(S)
         /\ \E at : Parted(seqs, FlattenSeq(seqs), at)
<1> DEFINE N == Len(seqs)
           V == Seq(S)
           step == [i \in 1..N |-> [v \in V |-> v \o seqs[i]]]
<1>1. N \in Nat /\ \A i \in 1..N : seqs[i] \in V
  BY ElementOfSeq
<1>2. <<>> \in V /\ step \in [1..N -> [V -> V]]
  <2>1. \A i \in 1..N : \A v \in V : v \o seqs[i] \in V
    BY <1>1
  <2> QED
    BY <2>1
<1>3. PICK f \in [0..N -> V] : Unfolds(f, N, <<>>, step)
  <2> HIDE DEF V, step, N
  <2> QED
    BY <1>1, <1>2, Recursion
<1>4. f[0] = <<>> /\ \A i \in 1..N : f[i] = f[i - 1] \o seqs[i]
  <2>1. \A i \in 1..N : i - 1 \in 0..N
    BY <1>1
  <2>2. \A i \in 1..N : f[i - 1] \in V
    BY <2>1
  <2>3. \A i \in 1..N : f[i] = step[i][f[i - 1]]
    BY <1>3 DEF Unfolds
  <2>4. \A i \in 1..N : \A v \in V : step[i][v] = v \o seqs[i]
    OBVIOUS
  <2> HIDE DEF V, step, N
  <2> QED
    BY <1>3, <2>2, <2>3, <2>4 DEF Unfolds
<1>5. FlattenSeq(seqs) = f[N]
  <2>1. CASE N = 0
    <3>1. seqs = <<>> /\ FlattenSeq(<<>>) = <<>>
      BY <2>1 DEF FlattenSeq
    <3> QED
      BY <1>4, <2>1, <3>1
  <2>2. CASE N # 0
    <3> DEFINE g == [i \in 1..N |-> f[i]]
    <3>1. g[1] = seqs[1]
      <4>1. 1 \in 1..N /\ 1 - 1 = 0
        BY <1>1, <2>2
      <4>2. f[1] = <<>> \o seqs[1] /\ seqs[1] \in V
        BY <1>1, <1>4, <4>1
      <4> QED
        BY <4>1, <4>2
    <3>2. \A i \in 2..N : g[i] = g[i - 1] \o seqs[i]
      <4>1. \A i \in 2..N : i \in 1..N /\ i - 1 \in 1..N
        BY <1>1
      <4> QED
        BY <1>4, <4>1
    <3>3. PutTogether(g, seqs, N)
      BY <1>1, <2>2, <3>1, <3>2 DEF PutTogether
    <3>4. FlattenSeq(seqs) = g[N]
      <4> HIDE DEF g, N
      <4> QED
        BY <3>3, Flattened
    <3> QED
      BY <1>1, <2>2, <3>4
  <2> QED
    BY <2>1, <2>2
<1>6. PutFirst(S, seqs, f)
  BY <1>3, <1>4 DEF PutFirst
<1>7. f[N] \in Seq(S)
  BY <1>1
<1>8. \E at : Parted(seqs, f[N], at)
  BY <1>6, PiecesPlaced
<1> QED
  BY <1>5, <1>7, <1>8

-----------------------------------------------------------------------------
(* The look-up.                                                            *)

(* A function that stops at p or goes on behind p: there is one.           *)
Jumps(f, stop, out, jump, N) ==
  \A p \in 1..N : f[p] = IF stop[p] THEN out[p] ELSE f[jump[p]]

(* Such a function exists, defined from the end.                           *)
LEMMA JumpsExist ==
  ASSUME NEW N \in Nat, NEW stop, NEW out, NEW jump,
         \A p \in 1..N : ~stop[p] => jump[p] \in p + 1..N
  PROVE  \E f : f = [p \in 1..N |-> f[p]] /\ Jumps(f, stop, out, jump, N)
<1> DEFINE Right(f, n) ==
             \A p \in 1..N : N < p + n =>
               f[p] = IF stop[p] THEN out[p] ELSE f[jump[p]]
           T == {n \in Nat : \E f : f = [p \in 1..N |-> f[p]] /\ Right(f, n)}
<1>1. 0 \in T
  <2> DEFINE f == [p \in 1..N |-> 0]
  <2>1. f = [p \in 1..N |-> f[p]] /\ Right(f, 0)
    OBVIOUS
  <2> HIDE DEF f, Right
  <2> QED
    BY <2>1
<1>2. ASSUME NEW n \in Nat, n \in T PROVE n + 1 \in T
  <2>1. PICK f : f = [p \in 1..N |-> f[p]] /\ Right(f, n)
    BY <1>2
  <2> DEFINE Turn(p) == IF stop[p] THEN out[p] ELSE f[jump[p]]
             g == [p \in 1..N |-> IF p + n = N THEN Turn(p) ELSE f[p]]
  <2>2. g = [p \in 1..N |-> g[p]]
    OBVIOUS
  <2>3. ASSUME NEW p \in 1..N, N < p + (n + 1)
        PROVE  g[p] = IF stop[p] THEN out[p] ELSE g[jump[p]]
    <3>1. g[p] = Turn(p)
      <4>1. CASE p + n = N
        BY <4>1
      <4>2. CASE p + n # N
        <5>1. N < p + n
          BY <2>3, <4>2
        <5>2. f[p] = Turn(p)
          BY <2>1, <5>1
        <5> HIDE DEF Turn
        <5> QED
          BY <4>2, <5>2
      <4> QED
        BY <4>1, <4>2
    <3>2. ASSUME ~stop[p] PROVE g[jump[p]] = f[jump[p]]
      <4>1. PICK q : q = jump[p]
        OBVIOUS
      <4>2. q \in p + 1..N
        BY <3>2, <4>1
      <4>3. q \in 1..N /\ q + n # N
        BY <2>3, <4>2
      <4> HIDE DEF Turn
      <4> QED
        BY <4>1, <4>3
    <3> HIDE DEF g
    <3> QED
      BY <3>1, <3>2
  <2>4. Right(g, n + 1)
    <3> HIDE DEF g
    <3> QED
      BY <2>3
  <2> HIDE DEF g, Right
  <2> QED
    BY <2>2, <2>4
<1>3. Nat \subseteq T
  <2> HIDE DEF T
  <2> QED
    BY <1>1, <1>2, SetInduction
<1>4. PICK f : f = [p \in 1..N |-> f[p]] /\ Right(f, N)
  <2>1. N \in T
    BY <1>3
  <2> HIDE DEF Right
  <2> QED
    BY <2>1
<1>5. Jumps(f, stop, out, jump, N)
  <2>1. \A p \in 1..N : N < p + N
    OBVIOUS
  <2> QED
    BY <1>4, <2>1 DEF Jumps
<1> QED
  BY <1>4, <1>5

(* A C string ends in the buffer.                                          *)
LEMMA CStringEnds ==
  ASSUME NEW S, NEW s \in Seq(S), NEW i \in 1..Len(s)
  PROVE  CString(s, i) \in Seq(S) /\ i + Len(CString(s, i)) \in i..Len(s) + 1
<1> DEFINE T == {j \in i..(Len(s) + i) : At(s, j) = NUL}
<1>1. Len(s) \in Nat
  OBVIOUS
<1>2. Len(s) + 1 \in T /\ T \subseteq Nat
  BY <1>1 DEF At
<1> HIDE DEF T
<1>3. PICK l : l = Least(T)
  OBVIOUS
<1>4. l \in T /\ l <= Len(s) + 1
  BY <1>2, <1>3, LeastIs
<1>5. l \in Nat /\ i <= l
  BY <1>4, <1>2 DEF T
<1>6. CString(s, i) = SubSeq(s, i, l - 1)
  BY <1>3 DEF CString, T
<1>7. SubSeq(s, i, l - 1) \in Seq(S) /\ Len(SubSeq(s, i, l - 1)) = l - i
  BY <1>1, <1>4, <1>5, SubSeqProperties
<1> QED
  BY <1>1, <1>4, <1>5, <1>6, <1>7

(* The look-up ends at p with an empty entry, one that is too long or the  *)
(* word, or it goes on.                                                    *)
LookupSays(buffer, word, p, entry) ==
  Lookup(buffer, word)[p] =
    IF entry = <<>> THEN "absent"
    ELSE IF TooLong(entry) THEN "overflow"
    ELSE IF entry = word THEN "found"
    ELSE Lookup(buffer, word)[p + Len(entry) + 1]

(* Lookup does so, at every position of the buffer.                        *)
LEMMA LookupIs ==
  ASSUME NEW S, NEW buffer \in Seq(S), NEW word, NEW p \in 1..Len(buffer)
  PROVE  LookupSays(buffer, word, p, CString(buffer, p))
<1> DEFINE L == Len(buffer)
           E(q) == CString(buffer, q)
           Turn(f, q) == IF q > L THEN "outside"
                         ELSE LET e == CString(buffer, q) IN
                                IF e = <<>> THEN "absent"
                                ELSE IF TooLong(e) THEN "overflow"
                                ELSE IF e = word THEN "found"
                                ELSE f[q + Len(e) + 1]
           rhs(f) == [q \in 1..(Len(buffer) + 2) |-> Turn(f, q)]
           from == CHOOSE f : f = rhs(f)
           stop == [q \in 1..L + 2 |-> \/ q > L \/ E(q) = <<>>
                                       \/ TooLong(E(q)) \/ E(q) = word]
           out == [q \in 1..L + 2 |-> IF q > L THEN "outside"
                                      ELSE IF E(q) = <<>> THEN "absent"
                                      ELSE IF TooLong(E(q)) THEN "overflow"
                                      ELSE "found"]
           jump == [q \in 1..L + 2 |-> q + Len(E(q)) + 1]
<1>1. L \in Nat /\ L + 2 \in Nat
  OBVIOUS
<1>2. \A q \in 1..L + 2 : ~stop[q] => jump[q] \in q + 1..L + 2
  <2>1. ASSUME NEW q \in 1..L + 2, ~stop[q] PROVE jump[q] \in q + 1..L + 2
    <3>1. q \in 1..L
      <4>1. ~(q > L)
        BY <2>1
      <4> QED
        BY <1>1, <4>1
    <3>2. PICK e : e = E(q)
      OBVIOUS
    <3>3. e \in Seq(S) /\ q + Len(e) \in q..L + 1
      BY <3>1, <3>2, CStringEnds
    <3>4. q + Len(e) + 1 \in q + 1..L + 2
      BY <1>1, <3>1, <3>3
    <3> HIDE DEF E
    <3> QED
      BY <3>2, <3>4
  <2> QED
    BY <2>1
<1>3. PICK f : f = [q \in 1..L + 2 |-> f[q]] /\ Jumps(f, stop, out, jump, L + 2)
  <2> HIDE DEF stop, out, jump
  <2> QED
    BY <1>1, <1>2, JumpsExist
<1>4. f = rhs(f)
  <2>1. ASSUME NEW q \in 1..L + 2 PROVE f[q] = Turn(f, q)
    <3>1. f[q] = IF stop[q] THEN out[q] ELSE f[jump[q]]
      BY <1>3 DEF Jumps
    <3>2. PICK e : e = E(q)
      OBVIOUS
    <3>3. /\ stop[q] <=> q > L \/ e = <<>> \/ TooLong(e) \/ e = word
          /\ out[q] = IF q > L THEN "outside"
                      ELSE IF e = <<>> THEN "absent"
                      ELSE IF TooLong(e) THEN "overflow" ELSE "found"
          /\ jump[q] = q + Len(e) + 1
      BY <3>2
    <3>4. Turn(f, q) = IF q > L THEN "outside"
                       ELSE IF e = <<>> THEN "absent"
                       ELSE IF TooLong(e) THEN "overflow"
                       ELSE IF e = word THEN "found" ELSE f[q + Len(e) + 1]
      BY <3>2
    <3> HIDE DEF stop, out, jump, Turn, L
    <3> QED
      BY <3>1, <3>3, <3>4
  <2> HIDE DEF Turn
  <2> QED
    BY <1>3, <2>1
<1>5. from = rhs(from)
  <2> HIDE DEF rhs
  <2> QED
    BY <1>4
<1>6. Lookup(buffer, word) = from
  BY DEF Lookup
<1>7. from[p] = Turn(from, p)
  <2>1. p \in 1..Len(buffer) + 2
    BY <1>1
  <2> HIDE DEF from, Turn
  <2> QED
    BY <1>5, <2>1
<1>8. ~(p > L)
  BY <1>1
<1> HIDE DEF from, L
<1>9. PICK e : e = CString(buffer, p)
  OBVIOUS
<1>10. from[p] = IF e = <<>> THEN "absent"
                 ELSE IF TooLong(e) THEN "overflow"
                 ELSE IF e = word THEN "found" ELSE from[p + Len(e) + 1]
  BY <1>7, <1>8, <1>9
<1> QED
  BY <1>6, <1>9, <1>10, Zenon DEF LookupSays

-----------------------------------------------------------------------------
(* A list of strings, and what a look-up says of it: the first entry that  *)
(* is empty, too long for buff or the word decides.                        *)
Deciding(words, word, i) ==
  {k \in i..Len(words) :
     words[k] = <<>> \/ TooLong(words[k]) \/ words[k] = word}

Said(words, word, i) ==
  LET entry == words[Least(Deciding(words, word, i))] IN
    IF Deciding(words, word, i) = {} \/ entry = <<>> THEN "absent"
    ELSE IF TooLong(entry) THEN "overflow"
    ELSE "found"

(* Does the first entry decide, or one of the others?                      *)
LEMMA SaidStep ==
  ASSUME NEW words, NEW word, Len(words) \in Nat, NEW i \in 1..Len(words)
  PROVE  Said(words, word, i) =
           IF words[i] = <<>> THEN "absent"
           ELSE IF TooLong(words[i]) THEN "overflow"
           ELSE IF words[i] = word THEN "found"
           ELSE Said(words, word, i + 1)
<1>1. PICK D : D = Deciding(words, word, i)
  OBVIOUS
<1>2. D \subseteq Nat /\ \A k \in D : i <= k
  BY <1>1 DEF Deciding
<1>3. CASE i \in D
  <2>1. Least(D) \in D /\ Least(D) <= i
    BY <1>2, <1>3, LeastIs
  <2>2. PICK l : l = Least(D)
    OBVIOUS
  <2>3. l = i
    <3>1. l \in Nat /\ l <= i /\ i <= l
      BY <1>2, <2>1, <2>2
    <3> QED
      BY <3>1
  <2>4. words[i] = <<>> \/ TooLong(words[i]) \/ words[i] = word
    BY <1>1, <1>3 DEF Deciding
  <2>5. Said(words, word, i) = IF words[i] = <<>> THEN "absent"
                               ELSE IF TooLong(words[i]) THEN "overflow"
                               ELSE "found"
    BY <1>1, <1>3, <2>2, <2>3 DEF Said
  <2> QED
    BY <2>4, <2>5
<1>4. CASE i \notin D
  <2>1. ~(words[i] = <<>> \/ TooLong(words[i]) \/ words[i] = word)
    BY <1>1, <1>4 DEF Deciding
  <2>2. Deciding(words, word, i) = Deciding(words, word, i + 1)
    <3>1. \A k \in i..Len(words) : k = i \/ k \in i + 1..Len(words)
      OBVIOUS
    <3>2. \A k \in i + 1..Len(words) : k \in i..Len(words)
      OBVIOUS
    <3> QED
      BY <2>1, <3>1, <3>2, Zenon DEF Deciding
  <2>3. Said(words, word, i) = Said(words, word, i + 1)
    BY <2>2, Zenon DEF Said
  <2> QED
    BY <2>1, <2>3
<1> QED
  BY <1>3, <1>4

(* The buffer that initConfig fills with these words: where each begins.   *)
WordsAt(buffer, words, at) ==
  /\ Begins([i \in 1..Len(words) |-> words[i] \o <<NUL>>], at)
  /\ Len(buffer) = at[Len(words) + 1] + 2
  /\ At(buffer, at[Len(words) + 1] + 1) = NUL
  /\ \A i \in 1..Len(words) :
       /\ at[i] + Len(words[i]) + 1 <= Len(buffer)
       /\ At(buffer, at[i] + Len(words[i]) + 1) = NUL
       /\ \A k \in 1..Len(words[i]) : At(buffer, at[i] + k) = words[i][k]

HasWords(list, words) ==
  /\ DOMAIN list.child = 1..Len(words)
  /\ \A i \in 1..Len(words) : list.child[i].valuestring = words[i]

(* What initConfig fills is such a buffer.                                 *)
LEMMA StringListIs ==
  ASSUME NEW S, NUL \in S, NEW words \in Seq(Seq(S)),
         NEW list, HasWords(list, words),
         NEW buffer, buffer = StringList(list)
  PROVE  buffer \in Seq(S) /\ \E at : WordsAt(buffer, words, at)
<1> DEFINE N == Len(words)
           seqs == [i \in 1..N |-> words[i] \o <<NUL>>]
<1>1. N \in Nat /\ \A i \in 1..N : words[i] \in Seq(S)
  BY ElementOfSeq
<1>2. \A i \in 1..N : /\ words[i] \o <<NUL>> \in Seq(S)
                      /\ Len(words[i]) \in Nat
                      /\ Len(words[i] \o <<NUL>>) = Len(words[i]) + 1
  <2>1. <<NUL>> \in Seq(S) /\ Len(<<NUL>>) = 1
    OBVIOUS
  <2> QED
    BY <1>1, <2>1
<1>3. seqs \in Seq(Seq(S)) /\ Len(seqs) = N
  BY <1>1, <1>2
<1>4. PICK all, at : /\ all = FlattenSeq(seqs) /\ all \in Seq(S)
                     /\ Parted(seqs, all, at)
  BY <1>3, Pieces
<1>5. buffer = all \o <<NUL, NUL>>
  BY <1>4 DEF StringList, HasWords
<1>6. /\ Begins(seqs, at) /\ Len(all) = at[N + 1]
      /\ \A i \in 1..N :
           /\ at[i + 1] <= Len(all) /\ at[i] \in Nat /\ Len(all) \in Nat
           /\ at[i + 1] = at[i] + (Len(words[i]) + 1)
           /\ \A k \in 1..Len(words[i]) + 1 :
                all[at[i] + k] = (words[i] \o <<NUL>>)[k]
  <2>1. \A i \in 1..N : seqs[i] = words[i] \o <<NUL>>
    OBVIOUS
  <2>2. \A i \in 1..N : i \in 1..N + 1
    BY <1>1
  <2> HIDE DEF seqs, N
  <2>3. /\ Begins(seqs, at) /\ Len(all) = at[N + 1]
        /\ \A i \in 1..N :
             /\ at[i + 1] <= Len(all)
             /\ \A k \in 1..Len(seqs[i]) : all[at[i] + k] = seqs[i][k]
    BY <1>3, <1>4 DEF Parted
  <2>4. /\ at \in [1..N + 1 -> Nat]
        /\ \A i \in 1..N : at[i + 1] = at[i] + Len(seqs[i])
    BY <1>3, <2>3 DEF Begins
  <2>5. Len(all) \in Nat
    BY <1>4
  <2>6. ASSUME NEW i \in 1..N
        PROVE  /\ at[i + 1] <= Len(all) /\ at[i] \in Nat
               /\ at[i + 1] = at[i] + (Len(words[i]) + 1)
               /\ \A k \in 1..Len(words[i]) + 1 :
                    all[at[i] + k] = (words[i] \o <<NUL>>)[k]
    <3>1. seqs[i] = words[i] \o <<NUL>> /\ Len(seqs[i]) = Len(words[i]) + 1
      BY <1>2, <2>1
    <3>2. at[i] \in Nat
      BY <2>2, <2>4
    <3> QED
      BY <2>3, <2>4, <3>1, <3>2
  <2> QED
    BY <2>3, <2>5, <2>6
<1>7. /\ Len(all) \in Nat /\ Len(buffer) = Len(all) + 2
      /\ \A k \in 1..Len(all) : At(buffer, k) = all[k]
      /\ At(buffer, Len(all) + 1) = NUL
  <2>1. /\ <<NUL, NUL>> \in Seq(S) /\ Len(<<NUL, NUL>>) = 2
        /\ <<NUL, NUL>>[1] = NUL
    OBVIOUS
  <2>2. PICK zeros : zeros = <<NUL, NUL>>
    OBVIOUS
  <2>3. /\ Len(all) \in Nat /\ Len(buffer) = Len(all) + 2
        /\ \A k \in 1..Len(all) : buffer[k] = all[k]
        /\ buffer[Len(all) + 1] = NUL
    BY <1>4, <1>5, <2>1, <2>2, OneMore
  <2> QED
    BY <2>3 DEF At
<1>8. buffer \in Seq(S)
  <2>1. <<NUL, NUL>> \in Seq(S)
    OBVIOUS
  <2> QED
    BY <1>4, <1>5, <2>1
<1>9. ASSUME NEW i \in 1..N
      PROVE  /\ at[i] + Len(words[i]) + 1 <= Len(buffer)
             /\ At(buffer, at[i] + Len(words[i]) + 1) = NUL
             /\ \A k \in 1..Len(words[i]) : At(buffer, at[i] + k) = words[i][k]
  <2>1. PICK a \in Nat, l \in Nat, w \in Seq(S) :
          a = at[i] /\ l = Len(words[i]) /\ w = words[i]
    BY <1>1, <1>2, <1>6
  <2>2. /\ a + (l + 1) <= Len(all)
        /\ \A k \in 1..l + 1 : all[a + k] = (w \o <<NUL>>)[k]
    BY <1>6, <2>1
  <2>3. (w \o <<NUL>>)[l + 1] = NUL /\ \A k \in 1..l : (w \o <<NUL>>)[k] = w[k]
    BY <2>1
  <2>4. \A k \in 1..l + 1 : a + k \in 1..Len(all)
    BY <1>7, <2>2
  <2>5. \A k \in 1..l + 1 : At(buffer, a + k) = (w \o <<NUL>>)[k]
    BY <1>7, <2>2, <2>4
  <2>6. l + 1 \in 1..l + 1 /\ \A k \in 1..l : k \in 1..l + 1
    OBVIOUS
  <2>7. At(buffer, a + (l + 1)) = NUL /\ \A k \in 1..l : At(buffer, a + k) = w[k]
    BY <2>3, <2>5, <2>6
  <2>8. a + (l + 1) = a + l + 1 /\ a + l + 1 <= Len(buffer)
    BY <1>7, <2>2
  <2> QED
    BY <2>1, <2>7, <2>8
<1>10. WordsAt(buffer, words, at)
  <2> HIDE DEF N, seqs
  <2>1. Len(buffer) = at[N + 1] + 2 /\ At(buffer, at[N + 1] + 1) = NUL
    BY <1>6, <1>7
  <2> QED
    BY <1>6, <1>9, <2>1 DEF WordsAt, N, seqs
<1> QED
  BY <1>8, <1>10

(* What the first entry that decides says is the outcome: the word is found*)
(* exactly if it is in front of every empty one and of every one of thirty *)
(* characters, the first of which overflows buff (utils.c:335-336) if no   *)
(* empty one and not the word is in front of it; the walk never leaves the *)
(* list.                                                                   *)
THEOREM InList ==
  ASSUME NEW S, NUL \in S, NEW words \in Seq(Seq(S)),
         \A i \in 1..Len(words) : \A k \in 1..Len(words[i]) : words[i][k] # NUL,
         NEW list, HasWords(list, words), NEW word, word # <<>>
  PROVE  in_config(StringList(list), word) = Said(words, word, 1)
<1>0. PICK buffer \in Seq(S) : buffer = StringList(list)
  BY StringListIs
<1>1. PICK N \in Nat : N = Len(words)
  OBVIOUS
<1>2. PICK at : buffer = StringList(list) /\ WordsAt(buffer, words, at)
  BY <1>0, StringListIs
<1>3. /\ at[1] = 0 /\ at[N + 1] \in Nat /\ Len(buffer) = at[N + 1] + 2
      /\ At(buffer, at[N + 1] + 1) = NUL
  <2>1. PICK seqs : seqs = [i \in 1..Len(words) |-> words[i] \o <<NUL>>]
    OBVIOUS
  <2>2. /\ Begins(seqs, at) /\ Len(buffer) = at[Len(words) + 1] + 2
        /\ At(buffer, at[Len(words) + 1] + 1) = NUL
    BY <1>2, <2>1, Zenon DEF WordsAt
  <2>3. Len(seqs) = N
    BY <1>1, <2>1
  <2>4. at[1] = 0 /\ at[N + 1] \in Nat
    BY <2>2, <2>3 DEF Begins
  <2> QED
    BY <1>1, <2>2, <2>4, Zenon
<1>4. ASSUME NEW i \in 1..N
      PROVE  /\ at[i] + 1 \in 1..Len(buffer)
             /\ CString(buffer, at[i] + 1) = words[i]
             /\ (at[i] + 1) + Len(words[i]) + 1 = at[i + 1] + 1
  <2>1. words[i] \in Seq(S)
    BY <1>1, ElementOfSeq
  <2>2. PICK a \in Nat, w \in Seq(S), l \in Nat :
          a = at[i] /\ w = words[i] /\ l = Len(w)
    <3>1. at[i] \in Nat
      <4>1. i \in 1..N + 1
        BY <1>1
      <4> QED
        BY <1>1, <1>2, <4>1 DEF WordsAt, Begins
    <3> QED
      BY <2>1, <3>1
  <2>3. /\ a + l + 1 <= Len(buffer) /\ At(buffer, a + l + 1) = NUL
        /\ \A k \in 1..l : At(buffer, a + k) = w[k]
    BY <1>1, <1>2, <2>2 DEF WordsAt
  <2>4. at[i + 1] = a + (l + 1)
    <3>1. PICK seqs : seqs = [k \in 1..Len(words) |-> words[k] \o <<NUL>>]
      OBVIOUS
    <3>2. Len(seqs) = N /\ seqs[i] = w \o <<NUL>>
      BY <1>1, <2>2, <3>1
    <3>3. Len(w \o <<NUL>>) = l + 1
      BY <2>2
    <3>4. at[i + 1] = at[i] + Len(seqs[i])
      BY <1>2, <3>1, <3>2 DEF WordsAt, Begins
    <3> QED
      BY <2>2, <3>2, <3>3, <3>4
  <2>5. a + 1 \in 1..Len(buffer) /\ (a + 1) + l + 1 = at[i + 1] + 1
    BY <2>3, <2>4
  <2>6. CString(buffer, a + 1) = SubSeq(buffer, a + 1, (a + l + 1) - 1)
    <3>1. /\ a + 1 \in Nat \ {0} /\ a + l + 1 \in Nat /\ a + 1 <= a + l + 1
          /\ a + l + 1 <= Len(buffer) + 1
      BY <2>3
    <3>2. \A j \in a + 1..(a + l + 1) - 1 : At(buffer, j) # NUL
      <4>1. \A j \in a + 1..(a + l + 1) - 1 : j - a \in 1..l /\ a + (j - a) = j
        OBVIOUS
      <4>2. \A k \in 1..l : w[k] # NUL
        BY <1>1, <2>2
      <4> QED
        BY <2>3, <4>1, <4>2
    <3> QED
      BY <2>3, <3>1, <3>2, CStringIs
  <2>7. SubSeq(buffer, a + 1, (a + l + 1) - 1) = w
    <3>1. PICK t : t = SubSeq(buffer, a + 1, (a + l + 1) - 1)
      OBVIOUS
    <3>2. /\ t \in Seq(S) /\ Len(t) = l
          /\ \A k \in 1..l : t[k] = buffer[a + k]
      <4>1. \A j \in a + 1..(a + l + 1) - 1 : buffer[j] \in S
        <5>1. \A j \in a + 1..(a + l + 1) - 1 : j \in 1..Len(buffer)
          BY <2>3
        <5> QED
          BY <5>1, ElementOfSeq
      <4>2. /\ t \in Seq(S)
            /\ Len(t) = IF a + 1 <= (a + l + 1) - 1
                        THEN (a + l + 1) - 1 - (a + 1) + 1 ELSE 0
            /\ \A k \in 1..(a + l + 1) - 1 - (a + 1) + 1 :
                 t[k] = buffer[a + 1 + k - 1]
        BY <3>1, <4>1, SubSeqProperties
      <4>3. (a + l + 1) - 1 - (a + 1) + 1 = l
            /\ \A k \in 1..l : a + 1 + k - 1 = a + k
        OBVIOUS
      <4> QED
        BY <4>2, <4>3
    <3>3. \A k \in 1..l : t[k] = w[k]
      <4>1. \A k \in 1..l : a + k <= Len(buffer)
        BY <2>3
      <4> QED
        BY <2>3, <3>2, <4>1 DEF At
    <3> QED
      BY <2>2, <3>1, <3>2, <3>3, SeqEqual, ZenonT(60)
  <2> QED
    BY <2>2, <2>5, <2>6, <2>7
<1> DEFINE Right(i) ==
             Lookup(buffer, word)[at[i] + 1] = Said(words, word, i)
           T == {n \in Nat : n <= N => Right(N + 1 - n)}
<1>5. 0 \in T
  <2>1. PICK a \in Nat : a = at[N + 1]
    BY <1>3
  <2>2. CString(buffer, a + 1) = SubSeq(buffer, a + 1, (a + 1) - 1)
    <3>1. \A j \in a + 1..(a + 1) - 1 : At(buffer, j) # NUL
      OBVIOUS
    <3>2. a + 1 \in Nat \ {0} /\ a + 1 <= Len(buffer) + 1
      BY <1>3, <2>1
    <3> QED
      BY <1>3, <2>1, <3>1, <3>2, CStringIs, SMTT(60)
  <2>3. SubSeq(buffer, a + 1, (a + 1) - 1) = <<>>
    BY <1>3, <2>1, SubSeqEmpty
  <2>4. a + 1 \in 1..Len(buffer)
    BY <1>3, <2>1
  <2>5. Lookup(buffer, word)[a + 1] = "absent"
    BY <2>2, <2>3, <2>4, LookupIs DEF LookupSays
  <2>6. Said(words, word, N + 1) = "absent"
    <3>1. Deciding(words, word, N + 1) = {}
      BY <1>1 DEF Deciding
    <3> QED
      BY <3>1 DEF Said
  <2>7. N + 1 - 0 = N + 1
    OBVIOUS
  <2> QED
    BY <2>1, <2>5, <2>6, <2>7
<1>6. ASSUME NEW n \in Nat, n \in T PROVE n + 1 \in T
  <2>1. SUFFICES ASSUME n + 1 <= N PROVE Right(N + 1 - (n + 1))
    OBVIOUS
  <2>2. PICK i \in 1..N : i = N + 1 - (n + 1) /\ i + 1 = N + 1 - n
    BY <1>1, <2>1
  <2>3. Right(i + 1)
    <3>1. n <= N
      BY <1>1, <2>1
    <3> HIDE DEF Right
    <3> QED
      BY <1>6, <2>2, <3>1
  <2>4. PICK p : p = at[i] + 1
    OBVIOUS
  <2>5. /\ p \in 1..Len(buffer) /\ CString(buffer, p) = words[i]
        /\ p + Len(words[i]) + 1 = at[i + 1] + 1
    BY <1>4, <2>4
  <2>6. Lookup(buffer, word)[p] =
          IF words[i] = <<>> THEN "absent"
          ELSE IF TooLong(words[i]) THEN "overflow"
          ELSE IF words[i] = word THEN "found"
          ELSE Lookup(buffer, word)[at[i + 1] + 1]
    <3>1. LookupSays(buffer, word, p, words[i])
      <4>1. LookupSays(buffer, word, p, CString(buffer, p))
        BY <2>5, LookupIs
      <4> QED
        BY <2>5, <4>1
    <3> QED
      BY <2>5, <3>1, Zenon DEF LookupSays
  <2>7. Said(words, word, i) =
          IF words[i] = <<>> THEN "absent"
          ELSE IF TooLong(words[i]) THEN "overflow"
          ELSE IF words[i] = word THEN "found"
          ELSE Said(words, word, i + 1)
    BY <1>1, SaidStep
  <2>8. Right(i)
    BY <2>3, <2>4, <2>6, <2>7, Zenon
  <2> HIDE DEF Right
  <2> QED
    BY <2>2, <2>8
<1>7. Nat \subseteq T
  <2> HIDE DEF T
  <2> QED
    BY <1>5, <1>6, SetInduction
<1>8. Right(1)
  <2>1. N + 1 - N = 1 /\ N <= N
    OBVIOUS
  <2>2. N \in T
    <3> HIDE DEF T
    <3> QED
      BY <1>7
  <2>3. Right(N + 1 - N)
    <3> HIDE DEF Right
    <3> QED
      BY <2>1, <2>2
  <2> HIDE DEF Right
  <2> QED
    BY <2>1, <2>3
<1>9. at[1] + 1 = 1
  BY <1>3
<1> QED
  BY <1>2, <1>8, <1>9 DEF in_config
=============================================================================
