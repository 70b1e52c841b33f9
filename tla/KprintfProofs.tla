--------------------------- MODULE KprintfProofs ---------------------------
(***************************************************************************)
(* kprintf prints exactly what its format and arguments ask for and keeps  *)
(* to its format and its digit buffers, for every width of int and long,   *)
(* every call its callers make and every string they print.                *)
(*                                                                         *)
(* BuffersHold follows from NumberFits: the value that is left fits the    *)
(* room that is left.  PrintsAsAsked and StaysInFormat follow from         *)
(* ScanInv:                                                                *)
(*   Place     a position between two pieces of a format or inside a text, *)
(*             with the arguments left and what was asked for so far       *)
(*   Runs      a call is at such a place, in a memory that holds the       *)
(*             format, its terminator and whatever follows                 *)
(*   Converting, ToPrint                                                   *)
(*             a number being converted is a part of a value whose         *)
(*             numeral is going to be printed behind what is pending       *)
(*   Scans     what was printed and is going to be is what was asked for   *)
(*             so far: by the one call, or by the caller of %p up to and   *)
(*             including the pointer and by the call %p makes              *)
(* The lemmas come in this order: sequences that are joined, numerals, the *)
(* digit loop, formats, places, and one lemma per case of the scan.        *)
(***************************************************************************)
EXTENDS Kprintf, NatLemmas, SequenceTheorems

Bases == {10, 16}

Digit == {Lower[i] : i \in 1 .. 16} \cup {Upper[i] : i \in 1 .. 16}

(* The value left is below the power of the base to the room left: it      *)
(* loses one digit with every digit stored.                                *)
Fits(n) ==
  /\ n = [v |-> n.v, base |-> n.base, table |-> n.table, room |-> n.room, buf |-> n.buf]
  /\ n.base \in Bases
  /\ n.table \in {Lower, Upper}
  /\ n.room \in {IntRoom[n.base], LongRoom[n.base]}
  /\ n.v \in Nat
  /\ n.buf \in Seq(Digit)
  /\ Len(n.buf) < n.room
  /\ n.v < Power(n.base, n.room - Len(n.buf))

NumberFits == number # <<>> => Fits(number)

(* The bases, and what the buffers hold of each.                           *)
LEMMA RoomFacts ==
  ASSUME NEW base \in Bases, NEW room \in {IntRoom[base], LongRoom[base]}
  PROVE  /\ room \in Nat \ {0}
         /\ Power(base, 0) = 1
         /\ \A n \in 1 .. room :
              Power(base, n - 1) \in Nat /\ Power(base, n) = base * Power(base, n - 1)
<1>1. Room(IntWord, base, IntRoom[base]) /\ Room(LongWord, base, LongRoom[base])
  BY KprintfAssumption DEF Bases
<1> QED
  BY <1>1 DEF Room

(* What a buffer can hold is a number.                                     *)
LEMMA PowerType ==
  ASSUME NEW base \in Bases, NEW room \in {IntRoom[base], LongRoom[base]}
  PROVE  Power(base, room) \in Nat
<1>1. room \in 1 .. room
  BY RoomFacts
<1>2. Power(base, room - 1) \in Nat /\ Power(base, room) = base * Power(base, room - 1)
  BY <1>1, RoomFacts
<1> QED
  BY <1>2 DEF Bases

(* What a table holds for a remainder is a digit.                          *)
LEMMA TableDigit ==
  ASSUME NEW table \in {Lower, Upper}, NEW base \in Bases, NEW v \in Nat
  PROVE  table[(v % base) + 1] \in Digit
<1>1. (v % base) + 1 \in 1 .. 16
  BY DEF Bases
<1> QED
  BY <1>1 DEF Digit

(* A value that fits its word fits the empty buffer.                       *)
LEMMA ConvertFits ==
  ASSUME NEW sign, NEW v \in Nat, NEW base \in Bases, NEW table \in {Lower, Upper},
         NEW room \in {IntRoom, LongRoom}, NEW k,
         v < Power(base, room[base]),
         Convert(sign, v, base, table, room, k)
  PROVE  NumberFits'
<1>1. room[base] \in {IntRoom[base], LongRoom[base]}
  OBVIOUS
<1>2. room[base] \in Nat \ {0}
  BY <1>1, RoomFacts
<1>3. number' = [v |-> v, base |-> base, table |-> table, room |-> room[base], buf |-> <<>>]
  BY DEF Convert
<1>4. <<>> \in Seq(Digit) /\ Len(<<>>) = 0
  OBVIOUS
<1>5. room[base] - 0 = room[base]
  BY <1>2
<1> QED
  BY <1>1, <1>2, <1>3, <1>4, <1>5 DEF NumberFits, Fits

(* An unsigned number fits the buffer of its conversion.                   *)
LEMMA UnsignedFits ==
  ASSUME NEW base \in Bases, NEW table \in {Lower, Upper}, NEW k,
         \/ Unsigned(IntWord, base, table, IntRoom, k)
         \/ Unsigned(LongWord, base, table, LongRoom, k)
  PROVE  NumberFits'
<1>1. /\ Room(IntWord, base, IntRoom[base]) /\ Room(LongWord, base, LongRoom[base])
      /\ IntWord \in Nat \ {0} /\ LongWord \in Nat \ {0}
  BY KprintfAssumption DEF Bases
<1>2. CASE Unsigned(IntWord, base, table, IntRoom, k)
  <2>1. PICK v \in 0 .. (IntWord - 1) : Convert(<<>>, v, base, table, IntRoom, k)
    BY <1>2 DEF Unsigned, UnsignedValues
  <2>2. v \in Nat /\ v < Power(base, IntRoom[base])
    BY <1>1, PowerType, SMT DEF Room
  <2> QED
    BY <2>1, <2>2, ConvertFits
<1>3. CASE Unsigned(LongWord, base, table, LongRoom, k)
  <2>1. PICK v \in 0 .. (LongWord - 1) : Convert(<<>>, v, base, table, LongRoom, k)
    BY <1>3 DEF Unsigned, UnsignedValues
  <2>2. v \in Nat /\ v < Power(base, LongRoom[base])
    BY <1>1, PowerType DEF Room
  <2> QED
    BY <2>1, <2>2, ConvertFits
<1> QED
  BY <1>2, <1>3

(* So does the magnitude of a signed one.                                  *)
LEMMA SignedFits ==
  ASSUME NEW k, \/ Signed(IntWord, IntRoom, k)
                \/ Signed(LongWord, LongRoom, k)
  PROVE  NumberFits'
<1>1. /\ Room(IntWord, 10, IntRoom[10]) /\ Room(LongWord, 10, LongRoom[10])
      /\ IntWord \in Nat \ {0} /\ LongWord \in Nat \ {0}
  BY KprintfAssumption
<1>2. ASSUME NEW word \in Nat \ {0}, NEW num \in -(word \div 2) .. (word \div 2 - 1)
      PROVE  Magnitude(num, word) \in 0 .. (word - 1)
  BY DEF Magnitude
<1>3. ASSUME NEW word \in {IntWord, LongWord}, NEW room \in {IntRoom, LongRoom},
             Room(word, 10, room[10]), Signed(word, room, k)
      PROVE  NumberFits'
  <2>1. PICK num \in -(word \div 2) .. (word \div 2 - 1) :
          Convert(IF num < 0 THEN <<"-">> ELSE <<>>, Magnitude(num, word), 10, Lower, room, k)
    BY <1>3 DEF Signed, SignedValues
  <2>2. Magnitude(num, word) \in 0 .. (word - 1)
    BY <1>1, <1>2
  <2>3. Magnitude(num, word) \in Nat /\ Magnitude(num, word) < Power(10, room[10])
    BY <1>1, <1>3, <2>2, PowerType DEF Room
  <2> QED
    BY <2>1, <2>3, ConvertFits DEF Bases
<1> QED
  BY <1>1, <1>3

(* One round: the quotient is below the next lower power, and not 0 if the *)
(* loop goes on, so there is room for its digit.                           *)
LEMMA DivideFits ==
  ASSUME NumberFits, Divide
  PROVE  NumberFits'
<1> DEFINE rest == Quotient(number.v, number.base)
           buf == Append(number.buf, number.table[(number.v % number.base) + 1])
           left == number.room - Len(number.buf)
<1>1. Fits(number)
  BY DEF NumberFits, Divide
<1>2. CASE rest = 0
  BY <1>2 DEF Divide, NumberFits
<1>3. CASE rest # 0
  <2>1. number' = [number EXCEPT !.v = rest, !.buf = buf]
    BY <1>3 DEF Divide
  <2>2. number.table[(number.v % number.base) + 1] \in Digit
    BY <1>1, TableDigit DEF Fits
  <2>3. buf \in Seq(Digit) /\ Len(buf) = Len(number.buf) + 1
    BY <1>1, <2>2 DEF Fits
  <2>4. number.room \in Nat \ {0} /\ left \in 1 .. number.room
    <3>1. number.room \in Nat \ {0}
      BY <1>1, RoomFacts DEF Fits
    <3>2. Len(number.buf) \in Nat
      BY <1>1 DEF Fits
    <3> QED
      BY <1>1, <3>1, <3>2 DEF Fits
  <2>5. /\ Power(number.base, left - 1) \in Nat
        /\ Power(number.base, left) = number.base * Power(number.base, left - 1)
        /\ Power(number.base, 0) = 1
    BY <1>1, <2>4, RoomFacts DEF Fits
  <2>6. rest \in Nat /\ rest < Power(number.base, left - 1)
    <3>1. ASSUME NEW b \in Bases, NEW v \in Nat, NEW p \in Nat, v < b * p
          PROVE  v \div b \in Nat /\ v \div b < p
      BY <3>1 DEF Bases
    <3> HIDE DEF left
    <3>2. number.base \in Bases /\ number.v \in Nat
      BY <1>1 DEF Fits
    <3>3. number.v < number.base * Power(number.base, left - 1)
      BY <1>1, <2>5 DEF Fits, left
    <3>4. number.v \div number.base \in Nat /\ number.v \div number.base < Power(number.base, left - 1)
      BY <3>1, <3>2, <3>3, <2>5
    <3> QED
      BY <3>4 DEF Quotient
  <2>7. left - 1 # 0
    BY <1>3, <2>5, <2>6
  <2>8. number.room - Len(buf) = left - 1 /\ Len(buf) < number.room
    <3>1. Len(number.buf) \in Nat
      BY <1>1 DEF Fits
    <3> QED
      BY <2>3, <2>4, <2>7, <3>1
  <2>9. number' = [v |-> rest, base |-> number.base, table |-> number.table,
                   room |-> number.room, buf |-> buf]
    <3> HIDE DEF rest, buf
    <3> QED
      BY <1>1, <2>1 DEF Fits
  <2> HIDE DEF rest, buf, left
  <2>10. rest < Power(number.base, number.room - Len(buf))
    BY <2>6, <2>8
  <2> QED
    BY <1>1, <2>3, <2>6, <2>8, <2>9, <2>10 DEF NumberFits, Fits
<1> QED
  BY <1>2, <1>3

(* The number being printed fits in every state of a run.                  *)
LEMMA NumberFitsInvariant == Spec => []NumberFits
<1>1. Init => NumberFits
  BY DEF Init, NumberFits
<1>2. NumberFits /\ [Next]_vars => NumberFits'
  <2> SUFFICES ASSUME NumberFits, [Next]_vars
               PROVE  NumberFits'
    OBVIOUS
  <2>1. ASSUME number' = number
        PROVE  NumberFits'
    BY <2>1 DEF NumberFits, Fits
  <2>2. CASE kprintf
    BY <2>1, <2>2 DEF kprintf, Start
  <2>3. CASE panic
    BY <2>1, <2>3 DEF panic, Start
  <2>4. CASE Conversion
    <3>1. CASE Decimal \/ LongDecimal
      BY <3>1, SignedFits DEF Decimal, LongDecimal
    <3>2. CASE UnsignedDecimal \/ Hex \/ UpperHex \/ LongUnsigned \/ LongHex
      BY <3>2, UnsignedFits DEF UnsignedDecimal, Hex, UpperHex, LongUnsigned, LongHex, Bases
    <3>3. CASE Literal \/ Percent \/ Character \/ String \/ Unknown \/ LongUnknown
      BY <2>1, <3>3 DEF Literal, Percent, Character, String, Unknown, LongUnknown, Emit
    <3>4. CASE Pointer
      BY <2>1, <3>4 DEF Pointer
    <3> QED
      BY <2>4, <3>1, <3>2, <3>3, <3>4 DEF Conversion
  <2>5. CASE Divide
    BY <2>5, DivideFits
  <2>6. CASE Put
    BY <2>1, <2>6 DEF Put
  <2>7. CASE Return
    BY <2>1, <2>7 DEF Return
  <2>8. CASE UNCHANGED vars
    BY <2>1, <2>8 DEF vars
  <2> QED
    BY <2>2, <2>3, <2>4, <2>5, <2>6, <2>7, <2>8 DEF Next
<1> QED
  BY <1>1, <1>2, PTL DEF Spec

(* kprintf never stores a digit behind the end of its buffer, however wide *)
(* int and long are.                                                       *)
THEOREM BuffersHoldAlways == Spec => []BuffersHold
<1>1. NumberFits => BuffersHold
  BY DEF NumberFits, Fits, BuffersHold
<1> QED
  BY <1>1, NumberFitsInvariant, PTL

-----------------------------------------------------------------------------
(* Concatenation of pieces *)

(* The order in which sequences are joined makes no difference.            *)
LEMMA Associates ==
  \A S : \A x \in Seq(S) : \A y, z \in Seq(S) : (x \o y) \o z = x \o (y \o z)
<1>1. ASSUME NEW S, NEW x \in Seq(S), NEW y \in Seq(S), NEW z \in Seq(S)
      PROVE  (x \o y) \o z = x \o (y \o z)
  BY ConcatAssociative
<1> QED
  BY <1>1

Joined(x, y) == x \o y

(* The same of a name the provers do not look behind                       *)
LEMMA JoinedFacts ==
  ASSUME NEW S
  PROVE  \A x, y \in Seq(S) :
           Joined(x, y) \in Seq(S) /\ \A z \in Seq(S) : Joined(Joined(x, y), z) = Joined(x, Joined(y, z))
<1>1. \A x, y \in Seq(S) : x \o y \in Seq(S)
  BY ConcatProperties
<1> QED
  BY <1>1, Associates DEF Joined

(* f joins the first n sequences, one at a time.                           *)
Joins(f, seqs, n) == f = [i \in 1 .. n |-> IF i = 1 THEN seqs[i] ELSE f[i - 1] \o seqs[i]]

(* FlattenSeq joins one sequence after the other.                          *)
LEMMA FlattenIsLast ==
  ASSUME NEW seqs, Len(seqs) # 0
  PROVE  FlattenSeq(seqs) = (CHOOSE f : Joins(f, seqs, Len(seqs)))[Len(seqs)]
BY DEF FlattenSeq, Joins

(* There is such a function for every length.                              *)
LEMMA JoinsExists ==
  ASSUME NEW seqs, NEW n \in Nat
  PROVE  \E f : Joins(f, seqs, n)
<1> DEFINE Bad == {m \in Nat : ~ \E f : Joins(f, seqs, m)}
<1>1. SUFFICES ASSUME n \in Bad PROVE FALSE
  OBVIOUS
<1>2. PICK m \in Bad : \A j \in Bad : m <= j
  <2> HIDE DEF Bad
  <2>1. Bad \in SUBSET Nat /\ Bad # {}
    BY <1>1 DEF Bad
  <2> QED
    BY <2>1, LeastElement
<1>3. m \in Nat /\ m # 0
  <2>1. Joins([i \in 1 .. 0 |-> 0], seqs, 0)
    BY DEF Joins
  <2> QED
    BY <2>1
<1>4. m - 1 \in Nat /\ m - 1 \notin Bad
  BY <1>2, <1>3
<1>5. PICK g : Joins(g, seqs, m - 1)
  BY <1>4
<1> DEFINE f == [i \in 1 .. m |-> IF i = m THEN (IF i = 1 THEN seqs[i] ELSE g[i - 1] \o seqs[i])
                                           ELSE g[i]]
<1>6. \A i \in 1 .. (m - 1) : g[i] = IF i = 1 THEN seqs[i] ELSE g[i - 1] \o seqs[i]
  BY <1>5 DEF Joins
<1>7. ASSUME NEW i \in 1 .. m
      PROVE  f[i] = IF i = 1 THEN seqs[i] ELSE f[i - 1] \o seqs[i]
  <2>1. CASE i = 1
    BY <1>3, <1>6, <2>1
  <2>2. CASE i # 1
    <3>1. i - 1 \in 1 .. m /\ i - 1 # m
      BY <1>3, <2>2
    <3>2. f[i - 1] = g[i - 1]
      BY <3>1
    <3>3. CASE i = m
      BY <2>2, <3>2, <3>3
    <3>4. CASE i # m
      <4>1. i \in 1 .. (m - 1)
        BY <1>3, <3>4
      <4>2. f[i] = g[i] /\ g[i] = g[i - 1] \o seqs[i]
        BY <1>6, <2>2, <3>4, <4>1
      <4> QED
        BY <2>2, <3>2, <4>2
    <3> QED
      BY <3>3, <3>4
  <2> QED
    BY <2>1, <2>2
<1>8. f = [i \in 1 .. m |-> IF i = 1 THEN seqs[i] ELSE f[i - 1] \o seqs[i]]
  <2>1. f = [i \in 1 .. m |-> f[i]]
    OBVIOUS
  <2> HIDE DEF f
  <2> QED
    BY <1>7, <2>1
<1> HIDE DEF f
<1>9. Joins(f, seqs, m)
  BY <1>8 DEF Joins
<1> QED
  BY <1>2, <1>9

(* What is joined of the first k sequences does not depend on the rest.    *)
LEMMA JoinsAgree ==
  ASSUME NEW s, NEW t, NEW m \in Nat, NEW n \in Nat, m <= n,
         \A i \in 1 .. m : s[i] = t[i],
         NEW f, Joins(f, s, m), NEW g, Joins(g, t, n),
         NEW k \in 1 .. m
  PROVE  f[k] = g[k]
<1> DEFINE Bad == {i \in 1 .. m : f[i] # g[i]}
<1>1. SUFFICES ASSUME k \in Bad PROVE FALSE
  OBVIOUS
<1>2. PICK i \in Bad : \A j \in Bad : i <= j
  <2> HIDE DEF Bad
  <2>1. Bad \in SUBSET Nat /\ Bad # {}
    BY <1>1 DEF Bad
  <2> QED
    BY <2>1, LeastElement
<1>3. /\ i \in 1 .. m /\ i \in 1 .. n
      /\ f[i] = IF i = 1 THEN s[i] ELSE f[i - 1] \o s[i]
      /\ g[i] = IF i = 1 THEN t[i] ELSE g[i - 1] \o t[i]
  <2>1. i \in 1 .. m /\ i \in 1 .. n
    OBVIOUS
  <2>2. f[i] = IF i = 1 THEN s[i] ELSE f[i - 1] \o s[i]
    BY <2>1 DEF Joins
  <2>3. g[i] = IF i = 1 THEN t[i] ELSE g[i - 1] \o t[i]
    BY <2>1 DEF Joins
  <2> QED
    BY <2>1, <2>2, <2>3
<1>4. i # 1
  BY <1>3
<1>5. i - 1 \in 1 .. m /\ i - 1 \notin Bad
  BY <1>2, <1>3, <1>4
<1> QED
  BY <1>3, <1>4, <1>5

Lists(S) == Seq(Seq(S))

(* Each member of a list of sequences is one.                              *)
LEMMA ListFacts ==
  ASSUME NEW S, NEW seqs \in Lists(S)
  PROVE  Len(seqs) \in Nat /\ \A i \in 1 .. Len(seqs) : seqs[i] \in Seq(S)
BY DEF Lists

First(seqs, k) == [i \in 1 .. k |-> seqs[i]]

(* The first k of some sequences, joined                                   *)
Upto(seqs, k) == FlattenSeq(First(seqs, k))

(* None joined is nothing.                                                 *)
LEMMA UptoNone == ASSUME NEW seqs PROVE Upto(seqs, 0) = <<>>
<1>1. First(seqs, 0) = <<>> /\ Len(<<>>) = 0
  BY DEF First
<1> QED
  BY <1>1 DEF Upto, FlattenSeq

(* What the join of a positive number of sequences is                      *)
LEMMA UptoJoins ==
  ASSUME NEW seqs, NEW k \in Nat \ {0}
  PROVE  \E f : Joins(f, First(seqs, k), k) /\ Upto(seqs, k) = f[k]
<1>1. Len(First(seqs, k)) = k
  BY DEF First
<1> DEFINE f == CHOOSE g : Joins(g, First(seqs, k), k)
<1>2. Joins(f, First(seqs, k), k)
  BY JoinsExists
<1>3. Upto(seqs, k) = f[k]
  BY <1>1, FlattenIsLast DEF Upto
<1> QED
  BY <1>2, <1>3

(* One sequence more is one more behind the others.                        *)
LEMMA UptoNext ==
  ASSUME NEW S, NEW seqs \in Lists(S), NEW k \in 0 .. (Len(seqs) - 1)
  PROVE  Upto(seqs, k + 1) = Upto(seqs, k) \o seqs[k + 1]
<1>1. k \in Nat /\ k + 1 \in 1 .. Len(seqs) /\ seqs[k + 1] \in Seq(S)
  BY ListFacts
<1>2. PICK g : Joins(g, First(seqs, k + 1), k + 1) /\ Upto(seqs, k + 1) = g[k + 1]
  BY <1>1, UptoJoins
<1>3. g[k + 1] = IF k + 1 = 1 THEN seqs[k + 1] ELSE g[k] \o seqs[k + 1]
  <2>1. /\ k + 1 \in 1 .. (k + 1) /\ (k + 1) - 1 = k
        /\ First(seqs, k + 1)[k + 1] = seqs[k + 1]
    BY <1>1 DEF First
  <2>2. g[k + 1] = IF k + 1 = 1 THEN First(seqs, k + 1)[k + 1]
                                ELSE g[(k + 1) - 1] \o First(seqs, k + 1)[k + 1]
    BY <1>2, <2>1 DEF Joins
  <2> QED
    BY <2>1, <2>2
<1>4. CASE k = 0
  <2>1. Upto(seqs, k) = <<>> /\ <<>> \o seqs[k + 1] = seqs[k + 1]
    BY <1>1, <1>4, UptoNone, ConcatEmptySeq
  <2>2. k + 1 = 1
    BY <1>4
  <2>3. g[k + 1] = seqs[k + 1]
    BY <1>3, <2>2
  <2> HIDE <1>3, <1>4, <2>2
  <2> QED
    BY <1>2, <2>1, <2>3
<1>5. CASE k # 0
  <2>1. k \in Nat \ {0} /\ k \in 1 .. k /\ k <= k + 1 /\ k + 1 \in Nat
    BY <1>1, <1>5
  <2>2. PICK f : Joins(f, First(seqs, k), k) /\ Upto(seqs, k) = f[k]
    BY <2>1, UptoJoins
  <2>3. \A i \in 1 .. k : First(seqs, k)[i] = First(seqs, k + 1)[i]
    BY <2>1 DEF First
  <2>4. f[k] = g[k]
    <3> DEFINE s == First(seqs, k)
               t == First(seqs, k + 1)
               n == k + 1
    <3>1. /\ k \in Nat /\ n \in Nat /\ k <= n /\ k \in 1 .. k
          /\ Joins(f, s, k) /\ Joins(g, t, n) /\ \A i \in 1 .. k : s[i] = t[i]
      BY <1>2, <2>1, <2>2, <2>3
    <3> HIDE DEF s, t, n
    <3> QED
      BY <3>1, JoinsAgree
  <2>5. k + 1 # 1
    BY <2>1
  <2> QED
    BY <1>2, <1>3, <2>2, <2>4, <2>5
<1> QED
  BY <1>4, <1>5

(* Joins of sequences are sequences.                                       *)
LEMMA UptoType ==
  ASSUME NEW S, NEW seqs \in Lists(S), NEW k \in 0 .. Len(seqs)
  PROVE  Upto(seqs, k) \in Seq(S)
<1> DEFINE Bad == {i \in 0 .. Len(seqs) : Upto(seqs, i) \notin Seq(S)}
<1>1. SUFFICES ASSUME k \in Bad PROVE FALSE
  OBVIOUS
<1>2. PICK i \in Bad : \A j \in Bad : i <= j
  <2> HIDE DEF Bad
  <2>1. Bad \in SUBSET Nat /\ Bad # {}
    BY <1>1, ListFacts DEF Bad
  <2> QED
    BY <2>1, LeastElement
<1>3. i # 0
  <2>1. <<>> \in Seq(S)
    OBVIOUS
  <2> QED
    BY <2>1, UptoNone
<1>4. i - 1 \in 0 .. (Len(seqs) - 1) /\ i - 1 \in 0 .. Len(seqs) /\ (i - 1) + 1 = i
  BY <1>3, ListFacts
<1>5. Upto(seqs, i - 1) \in Seq(S)
  BY <1>2, <1>4
<1>6. Upto(seqs, i) = Upto(seqs, i - 1) \o seqs[i]
  BY <1>4, UptoNext
<1>7. seqs[i] \in Seq(S)
  BY <1>3, ListFacts
<1> QED
  BY <1>5, <1>6, <1>7, ConcatProperties

(* All of them joined                                                      *)
LEMMA UptoAll ==
  ASSUME NEW S, NEW seqs \in Seq(S)
  PROVE  Upto(seqs, Len(seqs)) = FlattenSeq(seqs)
<1>1. First(seqs, Len(seqs)) = seqs
  BY DEF First
<1> QED
  BY <1>1 DEF Upto

Continues(S, seqs, k) == \E tail \in Seq(S) : FlattenSeq(seqs) = Upto(seqs, k) \o tail

(* The next one follows what is joined so far.                             *)
LEMMA ContinuesBack ==
  ASSUME NEW S, NEW seqs \in Lists(S), NEW k \in 0 .. (Len(seqs) - 1), NEW tail \in Seq(S),
         FlattenSeq(seqs) = Upto(seqs, k + 1) \o tail
  PROVE  FlattenSeq(seqs) = Upto(seqs, k) \o (seqs[k + 1] \o tail)
<1>1. Upto(seqs, k) \in Seq(S) /\ seqs[k + 1] \in Seq(S)
  <2>1. k \in 0 .. Len(seqs) /\ k + 1 \in 1 .. Len(seqs)
    BY ListFacts
  <2> QED
    BY <2>1, UptoType, ListFacts
<1>2. Upto(seqs, k + 1) = Upto(seqs, k) \o seqs[k + 1]
  BY UptoNext
<1> DEFINE u == Upto(seqs, k)
           v == seqs[k + 1]
<1>3. (u \o v) \o tail = u \o (v \o tail)
  <2> HIDE DEF u, v
  <2>1. u \in Seq(S) /\ v \in Seq(S)
    BY <1>1 DEF u, v
  <2>2. Joined(Joined(u, v), tail) = Joined(u, Joined(v, tail))
    BY <2>1, JoinedFacts
  <2> QED
    BY <2>2 DEF Joined
<1> QED
  BY <1>2, <1>3

(* The join of the first sequences is the beginning of the join of all.    *)
LEMMA UptoPrefix ==
  ASSUME NEW S, NEW seqs \in Lists(S), NEW k \in 0 .. Len(seqs)
  PROVE  Continues(S, seqs, k)
<1> DEFINE n == Len(seqs)
           Bad == {d \in 0 .. n : ~Continues(S, seqs, n - d)}
<1>0. n \in Nat
  BY ListFacts
<1> HIDE DEF n
<1>1. SUFFICES ASSUME n - k \in Bad PROVE FALSE
  <2>1. n - k \in 0 .. n /\ n - (n - k) = k
    BY <1>0 DEF n
  <2> QED
    BY <2>1
<1>2. PICK d \in Bad : \A j \in Bad : d <= j
  <2> HIDE DEF Bad
  <2>1. Bad \in SUBSET Nat /\ Bad # {}
    BY <1>1 DEF Bad
  <2> QED
    BY <2>1, LeastElement
<1>3. d # 0
  <2>1. SUFFICES ASSUME d = 0 PROVE FALSE
    OBVIOUS
  <2>2. n - d = n /\ <<>> \in Seq(S) /\ Upto(seqs, n) \in Seq(S) /\ Upto(seqs, n) = FlattenSeq(seqs)
    BY <1>0, <2>1, UptoType, UptoAll DEF n, Lists
  <2>3. Upto(seqs, n) \o <<>> = Upto(seqs, n)
    BY <2>2, ConcatEmptySeq
  <2>4. Continues(S, seqs, n)
    BY <2>2, <2>3 DEF Continues
  <2> QED
    BY <1>2, <2>2, <2>4
<1>4. d - 1 \in 0 .. n /\ d - 1 \notin Bad
  BY <1>0, <1>2, <1>3
<1>5. PICK tail \in Seq(S) : FlattenSeq(seqs) = Upto(seqs, n - (d - 1)) \o tail
  BY <1>4 DEF Continues
<1>6. n - d \in 0 .. (Len(seqs) - 1) /\ n - (d - 1) = (n - d) + 1
  BY <1>0, <1>3 DEF n
<1>7. FlattenSeq(seqs) = Upto(seqs, n - d) \o (seqs[(n - d) + 1] \o tail)
  <2> DEFINE m == n - d
  <2>1. m \in 0 .. (Len(seqs) - 1) /\ FlattenSeq(seqs) = Upto(seqs, m + 1) \o tail
    BY <1>5, <1>6
  <2> HIDE DEF m
  <2>2. FlattenSeq(seqs) = Upto(seqs, m) \o (seqs[m + 1] \o tail)
    BY <2>1, ContinuesBack
  <2> QED
    BY <2>2 DEF m
<1>8. seqs[(n - d) + 1] \in Seq(S)
  <2>1. (n - d) + 1 \in 1 .. Len(seqs)
    BY <1>0, <1>6
  <2> QED
    BY <2>1, ListFacts
<1>9. seqs[(n - d) + 1] \o tail \in Seq(S)
  BY <1>8, ConcatProperties
<1>10. Continues(S, seqs, n - d)
  BY <1>7, <1>9 DEF Continues
<1> QED
  BY <1>2, <1>10

(* And the next one follows.                                               *)
LEMMA UptoSplit ==
  ASSUME NEW S, NEW seqs \in Lists(S), NEW k \in 0 .. (Len(seqs) - 1)
  PROVE  \E tail \in Seq(S) : FlattenSeq(seqs) = Upto(seqs, k) \o (seqs[k + 1] \o tail)
<1>1. k + 1 \in 0 .. Len(seqs)
  BY ListFacts
<1>2. PICK tail \in Seq(S) : FlattenSeq(seqs) = Upto(seqs, k + 1) \o tail
  BY <1>1, UptoPrefix DEF Continues
<1> QED
  BY <1>2, ContinuesBack

-----------------------------------------------------------------------------
(* Numerals *)

(* Every power up to the room of a buffer is positive.                     *)
LEMMA PowerPositive ==
  ASSUME NEW base \in Bases, NEW room \in {IntRoom[base], LongRoom[base]}, NEW n \in 0 .. room
  PROVE  Power(base, n) \in Nat \ {0}
<1> DEFINE P(i) == Power(base, i)
           Bad == {i \in 0 .. room : P(i) \notin Nat \ {0}}
<1>0. /\ room \in Nat \ {0} /\ P(0) = 1 /\ base \in Nat \ {0}
      /\ \A i \in 1 .. room : P(i - 1) \in Nat /\ P(i) = base * P(i - 1)
  BY RoomFacts DEF Bases
<1> HIDE DEF P
<1>1. SUFFICES ASSUME n \in Bad PROVE FALSE
  BY DEF P
<1>2. PICK i \in Bad : \A j \in Bad : i <= j
  <2> HIDE DEF Bad
  <2>1. Bad \in SUBSET Nat /\ Bad # {}
    BY <1>0, <1>1 DEF Bad
  <2> QED
    BY <2>1, LeastElement
<1>3. i # 0
  BY <1>0
<1>4. i \in 1 .. room /\ i - 1 \in 0 .. room /\ i - 1 \notin Bad
  BY <1>0, <1>2, <1>3
<1>5. P(i - 1) \in Nat \ {0} /\ P(i) = base * P(i - 1)
  BY <1>0, <1>4
<1>6. \A x, y \in Nat \ {0} : x * y \in Nat \ {0}
  OBVIOUS
<1>7. P(i) \in Nat \ {0}
  BY <1>0, <1>5, <1>6
<1> QED
  BY <1>7

(* Powers grow.                                                            *)
LEMMA PowerGrows ==
  ASSUME NEW base \in Bases, NEW room \in {IntRoom[base], LongRoom[base]},
         NEW m \in 0 .. room, NEW n \in 0 .. room, m <= n
  PROVE  Power(base, m) <= Power(base, n)
<1> DEFINE P(i) == Power(base, i)
           Bad == {i \in 0 .. room : m <= i /\ ~(P(m) <= P(i))}
<1>0. /\ room \in Nat \ {0} /\ base \in Nat \ {0}
      /\ \A i \in 0 .. room : P(i) \in Nat \ {0}
      /\ \A i \in 1 .. room : P(i) = base * P(i - 1)
  BY RoomFacts, PowerPositive DEF Bases
<1> HIDE DEF P
<1>1. SUFFICES ASSUME n \in Bad PROVE FALSE
  BY DEF P
<1>2. PICK i \in Bad : \A j \in Bad : i <= j
  <2> HIDE DEF Bad
  <2>1. Bad \in SUBSET Nat /\ Bad # {}
    BY <1>0, <1>1 DEF Bad
  <2> QED
    BY <2>1, LeastElement
<1>3. i # m
  BY <1>0
<1>4. i \in 1 .. room /\ i - 1 \in 0 .. room /\ m <= i - 1 /\ i - 1 \notin Bad
  BY <1>0, <1>2, <1>3
<1>5. P(m) <= P(i - 1) /\ P(i) = base * P(i - 1) /\ P(i - 1) \in Nat \ {0} /\ P(m) \in Nat /\ P(i) \in Nat
  BY <1>0, <1>4
<1>6. \A x, y \in Nat \ {0} : y <= x * y
  OBVIOUS
<1>7. P(i - 1) <= P(i)
  BY <1>0, <1>5, <1>6
<1>8. P(m) <= P(i)
  BY <1>5, <1>7
<1> QED
  BY <1>8

HasLength(v, base, n) ==
  /\ n \in 1 .. LongRoom[base]
  /\ v < Power(base, n) /\ (n = 1 \/ v >= Power(base, n - 1))

(* A value in range has a length.                                          *)
LEMMA LengthExists ==
  ASSUME NEW base \in Bases, NEW v \in Nat, v < Power(base, LongRoom[base])
  PROVE  \E n : HasLength(v, base, n)
<1> DEFINE room == LongRoom[base]
           P(i) == Power(base, i)
           Good == {i \in 1 .. room : v < P(i)}
<1>0. room \in Nat \ {0} /\ \A i \in 0 .. room : P(i) \in Nat \ {0}
  BY RoomFacts, PowerPositive
<1>1. v < P(room)
  OBVIOUS
<1> HIDE DEF P, room
<1>2. PICK n \in Good : \A j \in Good : n <= j
  <2> HIDE DEF Good
  <2>1. Good \in SUBSET Nat /\ Good # {}
    BY <1>0, <1>1 DEF Good
  <2> QED
    BY <2>1, LeastElement
<1>3. n = 1 \/ v >= P(n - 1)
  <2> SUFFICES ASSUME n # 1 PROVE v >= P(n - 1)
    OBVIOUS
  <2>1. n - 1 \in 1 .. room /\ n - 1 \notin Good /\ n - 1 \in 0 .. room
    BY <1>0, <1>2
  <2> QED
    BY <1>0, <2>1
<1> QED
  BY <1>2, <1>3 DEF HasLength, P, room

(* And no other.                                                           *)
LEMMA LengthUnique ==
  ASSUME NEW base \in Bases, NEW v \in Nat, NEW m, HasLength(v, base, m), NEW n, HasLength(v, base, n)
  PROVE  m = n
<1> DEFINE room == LongRoom[base]
           P(i) == Power(base, i)
<1>0. room \in Nat \ {0} /\ \A i \in 0 .. room : P(i) \in Nat \ {0}
  BY RoomFacts, PowerPositive
<1>1. \A i, j \in 0 .. room : i <= j => P(i) <= P(j)
  BY PowerGrows
<1>2. /\ m \in 1 .. room /\ n \in 1 .. room /\ v < P(m) /\ v < P(n)
      /\ (m = 1 \/ v >= P(m - 1)) /\ (n = 1 \/ v >= P(n - 1))
  BY DEF HasLength
<1> HIDE DEF P, room
<1>3. ASSUME NEW i \in 1 .. room, NEW j \in 1 .. room, v < P(i), j = 1 \/ v >= P(j - 1), i < j
      PROVE  FALSE
  <2>1. i \in 0 .. room /\ j - 1 \in 0 .. room /\ i <= j - 1 /\ j # 1
    BY <1>0, <1>3
  <2>2. P(i) <= P(j - 1) /\ P(i) \in Nat /\ P(j - 1) \in Nat
    BY <1>0, <1>1, <2>1
  <2> QED
    BY <1>3, <2>1, <2>2
<1> QED
  BY <1>0, <1>2, <1>3

DigitAt(v, base, table, i) == table[((v \div Power(base, i)) % base) + 1]

(* The numeral is the digits of the value at its length.                   *)
LEMMA NumeralIs ==
  ASSUME NEW base \in Bases, NEW v \in Nat, NEW table, NEW n, HasLength(v, base, n)
  PROVE  Numeral(v, base, table) = [i \in 1 .. n |-> DigitAt(v, base, table, n - i)]
<1> DEFINE m == CHOOSE k \in 1 .. LongRoom[base] :
                  v < Power(base, k) /\ (k = 1 \/ v >= Power(base, k - 1))
<1>1. HasLength(v, base, m)
  BY DEF HasLength
<1>2. m = n
  <2> HIDE DEF m
  <2> QED
    BY <1>1, LengthUnique
<1>3. Numeral(v, base, table) = [i \in 1 .. m |-> DigitAt(v, base, table, m - i)]
  BY DEF Numeral, DigitAt
<1> QED
  BY <1>2, <1>3

Chars == Alphabet \cup {NUL}

(* Digits are characters.                                                  *)
LEMMA DigitChars == Digit \subseteq Alphabet /\ Digit \subseteq Chars
<1>1. {Lower[i] : i \in 1 .. 16} \subseteq Range(Lower) /\ {Upper[i] : i \in 1 .. 16} \subseteq Range(Upper)
  BY DEF Range, Lower, Upper
<1> QED
  BY <1>1, ProgramsAssumption DEF Digit, Chars

(* A numeral is a string.                                                  *)
LEMMA NumeralType ==
  ASSUME NEW base \in Bases, NEW table \in {Lower, Upper}, NEW v \in Nat,
         v < Power(base, LongRoom[base])
  PROVE  Numeral(v, base, table) \in Seq(Chars)
<1>1. PICK n : HasLength(v, base, n)
  BY LengthExists
<1>2. Numeral(v, base, table) = [i \in 1 .. n |-> DigitAt(v, base, table, n - i)]
  BY <1>1, NumeralIs
<1>3. n \in Nat /\ n <= LongRoom[base] /\ LongRoom[base] \in Nat
  BY <1>1, RoomFacts DEF HasLength
<1>4. ASSUME NEW i \in 1 .. n PROVE DigitAt(v, base, table, n - i) \in Chars
  <2> DEFINE w == v \div Power(base, n - i)
  <2>1. n - i \in 0 .. LongRoom[base]
    BY <1>3
  <2>2. Power(base, n - i) \in Nat \ {0}
    BY <2>1, PowerPositive
  <2>3. w \in Nat
    BY <2>2, Division
  <2> HIDE DEF w
  <2>4. table[(w % base) + 1] \in Digit
    BY <2>3, TableDigit
  <2> QED
    BY <2>4, DigitChars DEF DigitAt, w
<1> QED
  BY <1>2, <1>3, <1>4

-----------------------------------------------------------------------------
(* The digit loop *)

(* The digits stored are the last ones of v, and the rest is still to do.  *)
Converting(v) ==
  /\ v \in Nat /\ v < Power(number.base, number.room)
  /\ number.v = v \div Power(number.base, Len(number.buf))
  /\ \A i \in 1 .. Len(number.buf) :
       number.buf[i] = DigitAt(v, number.base, number.table, i - 1)
  /\ number.buf # <<>> => number.v # 0

(* A buffer holds no longer numeral than the longest.                      *)
LEMMA RoomsOrdered ==
  ASSUME NEW base \in Bases, NEW room \in {IntRoom[base], LongRoom[base]}
  PROVE  room \in 0 .. LongRoom[base] /\ Power(base, room) <= Power(base, LongRoom[base])
<1>1. room \in Nat /\ LongRoom[base] \in Nat
  BY RoomFacts
<1>2. room <= LongRoom[base]
  BY <1>1, KprintfAssumption DEF Bases
<1> QED
  BY <1>1, <1>2, PowerGrows

(* What one round of the loop stores and leaves                            *)
LEMMA DivideDigit ==
  ASSUME NEW v, number # <<>>, NumberFits, Converting(v)
  PROVE  LET rest == Quotient(number.v, number.base)
             buf  == Append(number.buf, number.table[(number.v % number.base) + 1])
         IN  /\ Len(buf) = Len(number.buf) + 1 /\ Len(buf) \in 1 .. number.room
             /\ rest = v \div Power(number.base, Len(buf))
             /\ \A i \in 1 .. Len(buf) : buf[i] = DigitAt(v, number.base, number.table, i - 1)
<1> DEFINE b == number.base
           l == Len(number.buf)
           d == number.table[(number.v % number.base) + 1]
           buf == Append(number.buf, d)
<1>1. /\ b \in Bases /\ number.room \in {IntRoom[b], LongRoom[b]}
      /\ number.table \in {Lower, Upper} /\ number.v \in Nat
      /\ number.buf \in Seq(Digit) /\ l < number.room
  BY DEF NumberFits, Fits
<1>2. number.room \in Nat \ {0} /\ b \in Nat \ {0}
  BY <1>1, RoomFacts DEF Bases
<1>3. d \in Digit
  BY <1>1, TableDigit
<1>4. d = DigitAt(v, b, number.table, l)
  BY DEF Converting, DigitAt
<1>5. l \in Nat
  BY <1>1
<1> HIDE DEF d
<1>6. /\ Len(buf) = l + 1 /\ buf[l + 1] = d
      /\ \A i \in 1 .. l : buf[i] = number.buf[i]
  BY <1>1, <1>3, AppendProperties
<1> HIDE DEF buf, l
<1>7. \A i \in 1 .. Len(buf) : buf[i] = DigitAt(v, b, number.table, i - 1)
  <2> SUFFICES ASSUME NEW i \in 1 .. Len(buf)
               PROVE  buf[i] = DigitAt(v, b, number.table, i - 1)
    OBVIOUS
  <2>1. CASE i = l + 1
    <3>1. i - 1 = l
      BY <1>5, <2>1
    <3> QED
      BY <1>4, <1>6, <2>1, <3>1
  <2>2. CASE i # l + 1
    <3>1. i \in 1 .. l
      BY <1>5, <1>6, <2>2
    <3> QED
      BY <1>6, <3>1 DEF Converting, l
  <2> QED
    BY <2>1, <2>2
<1>8. v \div Power(b, l + 1) = number.v \div b
  <2>1. l \in 0 .. number.room /\ l + 1 \in 1 .. number.room /\ (l + 1) - 1 = l
    BY <1>1, <1>2, <1>5 DEF l
  <2>2. Power(b, l) \in Nat \ {0} /\ Power(b, l + 1) = b * Power(b, l)
    <3>1. \A n \in 1 .. number.room : Power(b, n) = b * Power(b, n - 1)
      BY <1>1, RoomFacts
    <3>2. Power(b, l + 1) = b * Power(b, (l + 1) - 1)
      BY <2>1, <3>1
    <3> QED
      BY <1>1, <2>1, <3>2, PowerPositive
  <2> DEFINE q == Power(b, l)
  <2>3. number.v = v \div q /\ v \in Nat
    BY DEF Converting, l
  <2> HIDE DEF q, b
  <2>4. Power(b, l + 1) = q * b
    BY <1>2, <2>2 DEF q
  <2>5. v \div (q * b) = (v \div q) \div b
    BY <1>2, <2>2, <2>3, DivideTwice DEF q
  <2> QED
    BY <2>3, <2>4, <2>5
<1>9. Len(buf) \in 1 .. number.room
  BY <1>1, <1>2, <1>5, <1>6 DEF l
<1> QED
  BY <1>6, <1>7, <1>8, <1>9 DEF Quotient, buf, d, l

(* The loop ends with the numeral, and goes on towards it till then.       *)
LEMMA DivideConverts ==
  ASSUME NEW v, NumberFits, Converting(v), Divide
  PROVE  \/ number' = <<>> /\ pending' = Numeral(v, number.base, number.table)
         \/ /\ number' # <<>> /\ Converting(v)' /\ pending' = pending
            /\ number'.base = number.base /\ number'.table = number.table
<1> DEFINE b == number.base
           rest == Quotient(number.v, number.base)
           buf == Append(number.buf, number.table[(number.v % number.base) + 1])
<1>1. /\ b \in Bases /\ number.room \in {IntRoom[b], LongRoom[b]}
      /\ number = [v |-> number.v, base |-> b, table |-> number.table,
                   room |-> number.room, buf |-> number.buf]
      /\ number.buf \in Seq(Digit)
  BY DEF Divide, NumberFits, Fits
<1>2. v \in Nat /\ v < Power(b, number.room)
  BY DEF Converting
<1>3. /\ Len(buf) = Len(number.buf) + 1 /\ Len(buf) \in 1 .. number.room
      /\ rest = v \div Power(b, Len(buf))
      /\ \A i \in 1 .. Len(buf) : buf[i] = DigitAt(v, b, number.table, i - 1)
  BY DivideDigit DEF Divide
<1>4. IF rest = 0
        THEN number' = <<>> /\ pending' = Reverse(buf)
        ELSE number' = [number EXCEPT !.v = rest, !.buf = buf] /\ UNCHANGED pending
  BY DEF Divide
<1> HIDE DEF rest, buf
<1>5. CASE rest # 0
  <2>1. number' = [v |-> rest, base |-> b, table |-> number.table, room |-> number.room, buf |-> buf]
    BY <1>1, <1>4, <1>5
  <2>2. number' # <<>>
    BY <2>1
  <2>3. Converting(v)'
    BY <1>2, <1>3, <1>5, <2>1 DEF Converting
  <2> QED
    BY <1>4, <1>5, <2>1, <2>2, <2>3
<1>6. CASE rest = 0
  <2> DEFINE n == Len(buf)
  <2>1. /\ LongRoom[b] \in Nat /\ number.room \in Nat /\ number.room <= LongRoom[b]
    BY <1>1, RoomFacts, RoomsOrdered
  <2>2. n \in 1 .. LongRoom[b] /\ n \in 0 .. LongRoom[b] /\ n - 1 \in 0 .. LongRoom[b]
    BY <1>3, <2>1
  <2>3. Power(b, n) \in Nat \ {0} /\ Power(b, n - 1) \in Nat \ {0}
    BY <1>1, <2>2, PowerPositive
  <2>4. \A x \in Nat, p \in Nat \ {0} : x \div p = 0 <=> x < p
    OBVIOUS
  <2>5. v < Power(b, n)
    BY <1>2, <1>3, <1>6, <2>3, <2>4
  <2>6. n = 1 \/ v >= Power(b, n - 1)
    <3> SUFFICES ASSUME n # 1 PROVE v >= Power(b, n - 1)
      OBVIOUS
    <3>1. Len(number.buf) = n - 1 /\ number.buf # <<>>
      <4>1. Len(number.buf) \in Nat /\ (number.buf = <<>> => Len(number.buf) = 0)
        BY <1>1
      <4> QED
        BY <1>3, <4>1
    <3>2. v \div Power(b, n - 1) # 0
      BY <3>1 DEF Converting
    <3> QED
      BY <1>2, <2>3, <2>4, <3>2
  <2>7. HasLength(v, b, n)
    BY <2>2, <2>5, <2>6 DEF HasLength
  <2>8. Numeral(v, b, number.table) = [i \in 1 .. n |-> DigitAt(v, b, number.table, n - i)]
    BY <1>1, <1>2, <2>7, NumeralIs
  <2>9. Reverse(buf) = [i \in 1 .. n |-> DigitAt(v, b, number.table, n - i)]
    <3>1. ASSUME NEW i \in 1 .. n
          PROVE  buf[(n - i) + 1] = DigitAt(v, b, number.table, n - i)
      <4>1. (n - i) + 1 \in 1 .. n /\ ((n - i) + 1) - 1 = n - i
        BY <2>2
      <4> QED
        BY <1>3, <4>1
    <3> HIDE DEF n
    <3> QED
      BY <3>1 DEF Reverse, n
  <2> QED
    BY <1>4, <1>6, <2>8, <2>9
<1> QED
  BY <1>5, <1>6

-----------------------------------------------------------------------------
(* Formats *)

Values == Int \cup Strings

Texts(ps) == [i \in DOMAIN ps |-> ps[i].text]

Arguments(ps) == [i \in DOMAIN ps |-> ps[i].args]

Meanings(ps) == [i \in DOMAIN ps |-> Meaning(ps[i])]

(* A format that does not break off within a directive                     *)
WellWritten(ps) == ps \in Seq(Range(ps)) /\ \A i \in DOMAIN ps : IsPiece(ps[i])

(* A well written format is a list of pieces.                              *)
LEMMA FormatFacts ==
  ASSUME NEW ps, WellWritten(ps)
  PROVE  Len(ps) \in Nat /\ DOMAIN ps = 1 .. Len(ps) /\ \A i \in 1 .. Len(ps) : IsPiece(ps[i])
BY DEF WellWritten

(* The two kinds of pieces                                                 *)
LEMMA PieceArgs ==
  ASSUME NEW p, IsPiece(p)
  PROVE  /\ p.text \in Seq(Alphabet)
         /\ \/ p.args = <<>> /\ (IsText(p.text) \/ IsPercent(p.text))
            \/ \E a \in Values : p.args = <<a>> /\ Takes(p.text, a)
<1>1. p.text \in Seq(Alphabet)
  BY DEF IsPiece, Strings
<1>2. CASE p.args = <<p.args[1]>> /\ Takes(p.text, p.args[1])
  <2> DEFINE a == p.args[1]
  <2>1. a \in Values
    <3> HIDE DEF a
    <3>1. Takes(p.text, a)
      BY <1>2 DEF a
    <3>2. IntWord \in Nat /\ LongWord \in Nat
      BY KprintfAssumption
    <3>3. SignedValues(IntWord) \subseteq Int /\ SignedValues(LongWord) \subseteq Int
      BY <3>2 DEF SignedValues
    <3>4. UnsignedValues(IntWord) \subseteq Int /\ UnsignedValues(LongWord) \subseteq Int
      BY <3>2 DEF UnsignedValues
    <3> QED
      BY <3>1, <3>3, <3>4 DEF Takes, Values
  <2> QED
    BY <1>1, <1>2, <2>1
<1> QED
  BY <1>1, <1>2 DEF IsPiece

(* The words a value comes in are no longer than a long's buffer.          *)
LEMMA WordsFit ==
  /\ IntWord \in Nat \ {0} /\ LongWord \in Nat \ {0}
  /\ \A base \in Bases : \A v \in Nat :
       v < IntWord \/ v < LongWord => v < Power(base, LongRoom[base])
<1>1. IntWord \in Nat \ {0} /\ LongWord \in Nat \ {0}
  BY KprintfAssumption
<1>2. ASSUME NEW base \in Bases, NEW v \in Nat, v < IntWord \/ v < LongWord
      PROVE  v < Power(base, LongRoom[base])
  <2> DEFINE i == Power(base, IntRoom[base])
             l == Power(base, LongRoom[base])
  <2>1. IntWord <= i /\ LongWord <= l
    BY KprintfAssumption DEF Bases, Room
  <2>2. i <= l /\ i \in Nat /\ l \in Nat
    BY RoomsOrdered, PowerType
  <2> HIDE DEF i, l
  <2>3. v < l
    BY <1>1, <1>2, <2>1, <2>2
  <2> QED
    BY <2>3 DEF l
<1> QED
  BY <1>1, <1>2

(* Signed values of a word are magnitudes below it.                        *)
LEMMA SignedFit ==
  ASSUME NEW word \in {IntWord, LongWord}, NEW a \in SignedValues(word)
  PROVE  /\ a \in Int /\ Magnitude(a, word) \in Nat /\ Magnitude(a, word) < word
         /\ Magnitude(a, word) = IF a < 0 THEN -a ELSE a
<1>1. word \in Nat \ {0}
  BY WordsFit
<1>2. a \in Int /\ -(word \div 2) <= a /\ a <= word \div 2 - 1 /\ word \div 2 \in Nat /\ 2 * (word \div 2) <= word
  BY <1>1 DEF SignedValues
<1>3. CASE a < 0
  <2>1. -a \in Nat /\ -a < word /\ 0 < -a
    BY <1>1, <1>2, <1>3
  <2>2. \A x \in Nat : x < word => x % word = x
    BY <1>1
  <2>3. (-a) % word = -a
    BY <2>1, <2>2
  <2> QED
    BY <1>2, <1>3, <2>1, <2>3 DEF Magnitude
<1>4. CASE ~(a < 0)
  BY <1>1, <1>2, <1>4 DEF Magnitude
<1> QED
  BY <1>3, <1>4

(* What each directive means                                               *)
LEMMA DirectiveMeaning ==
  ASSUME NEW p, NEW a, p.args = <<a>>
  PROVE  /\ p.text = <<"%", "c">> => Meaning(p) = <<CharOf[a % CharWord]>>
         /\ p.text = <<"%", "s">> => Meaning(p) = a
         /\ p.text \in {<<"%", "d">>, <<"%", "i">>, <<"%", "l", "d">>} =>
              Meaning(p) = IF a < 0 THEN <<"-">> \o Numeral(-a, 10, Lower) ELSE Numeral(a, 10, Lower)
         /\ p.text \in {<<"%", "u">>, <<"%", "l", "u">>} => Meaning(p) = Numeral(a, 10, Lower)
         /\ p.text \in {<<"%", "x">>, <<"%", "l", "x">>} => Meaning(p) = Numeral(a, 16, Lower)
         /\ p.text = <<"%", "X">> => Meaning(p) = Numeral(a, 16, Upper)
         /\ p.text = <<"%", "p">> => Meaning(p) = <<"0", "x">> \o Numeral(a, 16, Lower)
<1>1. p.args # <<>> /\ p.args[1] = a
  OBVIOUS
<1> DEFINE t == p.text
<1>2. Meaning(p) = CASE t = <<"%", "%">> -> <<"%">>
        [] t = <<"%", "c">> -> <<CharOf[a % CharWord]>>
        [] t = <<"%", "s">> -> a
        [] t \in {<<"%", "d">>, <<"%", "i">>, <<"%", "l", "d">>} ->
             IF a < 0 THEN <<"-">> \o Numeral(-a, 10, Lower) ELSE Numeral(a, 10, Lower)
        [] t \in {<<"%", "u">>, <<"%", "l", "u">>} -> Numeral(a, 10, Lower)
        [] t \in {<<"%", "x">>, <<"%", "l", "x">>} -> Numeral(a, 16, Lower)
        [] t = <<"%", "X">> -> Numeral(a, 16, Upper)
        [] t = <<"%", "p">> -> <<"0", "x">> \o Numeral(a, 16, Lower)
        [] OTHER -> t
  BY <1>1 DEF Meaning
<1> HIDE DEF t
<1>3. t = <<"%", "c">> => Meaning(p) = <<CharOf[a % CharWord]>>
  BY <1>2
<1>4. t = <<"%", "s">> => Meaning(p) = a
  BY <1>2
<1>5. t \in {<<"%", "d">>, <<"%", "i">>, <<"%", "l", "d">>} =>
        Meaning(p) = IF a < 0 THEN <<"-">> \o Numeral(-a, 10, Lower) ELSE Numeral(a, 10, Lower)
  BY <1>2
<1>6. t \in {<<"%", "u">>, <<"%", "l", "u">>} => Meaning(p) = Numeral(a, 10, Lower)
  BY <1>2
<1>7. t \in {<<"%", "x">>, <<"%", "l", "x">>} => Meaning(p) = Numeral(a, 16, Lower)
  BY <1>2
<1>8. t = <<"%", "X">> => Meaning(p) = Numeral(a, 16, Upper)
  BY <1>2
<1>9. t = <<"%", "p">> => Meaning(p) = <<"0", "x">> \o Numeral(a, 16, Lower)
  BY <1>2
<1> QED
  BY <1>3, <1>4, <1>5, <1>6, <1>7, <1>8, <1>9 DEF t

(* Other pieces stand for themselves, but for the percent sign.            *)
LEMMA PlainMeaning ==
  ASSUME NEW p, p.text \in Seq(Alphabet), IsText(p.text) \/ IsPercent(p.text)
  PROVE  Meaning(p) = IF p.text = <<"%", "%">> THEN <<"%">> ELSE p.text
<1> DEFINE t == p.text
           Directives == {<<"%", c>> : c \in {"c", "s", "d", "i", "u", "x", "X", "p"}}
                           \cup {<<"%", "l", c>> : c \in {"u", "x", "d"}}
<1>1. t \notin Directives
  <2>1. ASSUME NEW d \in Directives PROVE ~IsText(d) /\ ~IsPercent(d)
    BY DEF IsText, IsPercent, Known
  <2> QED
    BY <2>1
<1>2. CASE t = <<"%", "%">>
  BY <1>2 DEF Meaning
<1>3. CASE t # <<"%", "%">>
  <2>1. /\ t # <<"%", "c">> /\ t # <<"%", "s">> /\ t # <<"%", "X">> /\ t # <<"%", "p">>
        /\ t \notin {<<"%", "d">>, <<"%", "i">>, <<"%", "l", "d">>}
        /\ t \notin {<<"%", "u">>, <<"%", "l", "u">>} /\ t \notin {<<"%", "x">>, <<"%", "l", "x">>}
    BY <1>1
  <2> QED
    BY <1>3, <2>1 DEF Meaning
<1> QED
  BY <1>2, <1>3

(* What a piece asks for is a string.                                      *)
LEMMA MeaningType ==
  ASSUME NEW p, IsPiece(p)
  PROVE  Meaning(p) \in Seq(Chars)
<1>1. \A s \in Seq(Alphabet) : s \in Seq(Chars)
  BY DEF Chars
<1>2. \A c \in Chars : <<c>> \in Seq(Chars)
  OBVIOUS
<1>3. {"%", "-", "0", "x"} \subseteq Chars
  <2>1. Known \subseteq Alphabet /\ Range(Lower) \subseteq Alphabet /\ "-" \in Alphabet
    BY ProgramsAssumption
  <2>2. "%" \in Known /\ "x" \in Known /\ Lower[1] = "0" /\ 1 \in DOMAIN Lower
    BY DEF Known, Lower
  <2> QED
    BY <2>1, <2>2 DEF Chars, Range
<1>4. CASE p.args = <<>> /\ (IsText(p.text) \/ IsPercent(p.text))
  <2>1. Meaning(p) = IF p.text = <<"%", "%">> THEN <<"%">> ELSE p.text
    BY <1>4, PieceArgs, PlainMeaning
  <2> QED
    BY <1>1, <1>2, <1>3, <2>1, PieceArgs
<1>5. ASSUME NEW a \in Values, p.args = <<a>>, Takes(p.text, a)
      PROVE  Meaning(p) \in Seq(Chars)
  <2> DEFINE t == p.text
  <2>1. \A table \in {Lower, Upper} : \A base \in Bases : \A v \in Nat :
          v < IntWord \/ v < LongWord => Numeral(v, base, table) \in Seq(Chars)
    BY WordsFit, NumeralType
  <2>2. 10 \in Bases /\ 16 \in Bases
    BY DEF Bases
  <2>3. ASSUME NEW word \in {IntWord, LongWord}, NEW x \in UnsignedValues(word)
        PROVE  x \in Nat /\ (x < IntWord \/ x < LongWord)
    BY <2>3, WordsFit DEF UnsignedValues
  <2>4. ASSUME NEW word \in {IntWord, LongWord}, NEW x \in SignedValues(word)
        PROVE  (IF x < 0 THEN <<"-">> \o Numeral(-x, 10, Lower) ELSE Numeral(x, 10, Lower)) \in Seq(Chars)
    <3>1. x \in Int /\ Magnitude(x, word) \in Nat /\ Magnitude(x, word) < word
          /\ Magnitude(x, word) = IF x < 0 THEN -x ELSE x
      BY <2>4, SignedFit
    <3>2. Numeral(Magnitude(x, word), 10, Lower) \in Seq(Chars)
      BY <2>1, <2>2, <3>1
    <3>3. <<"-">> \in Seq(Chars)
      BY <1>2, <1>3
    <3> QED
      BY <3>1, <3>2, <3>3, ConcatProperties
  <2>5. CASE t = <<"%", "c">>
    <3>0. \A b : Takes(<<"%", "c">>, b) => b \in Int
      BY DEF Takes
    <3>1. CharWord \in Nat \ {0} /\ a \in Int
      BY <1>5, <2>5, <3>0, ProgramsAssumption
    <3>2. ASSUME NEW w \in Nat \ {0}, NEW x \in Int
          PROVE  x % w \in Int /\ 0 <= x % w /\ x % w < w
      OBVIOUS
    <3>3. a % CharWord \in 0 .. (CharWord - 1)
      BY <3>1, <3>2
    <3>4. CharOf[a % CharWord] \in Chars
      BY <3>3, ProgramsAssumption DEF Chars
    <3> QED
      BY <1>2, <1>5, <2>5, <3>4, DirectiveMeaning
  <2>6. CASE t = <<"%", "s">>
    <3>1. a \in Seq(Alphabet)
      BY <1>5, <2>6 DEF Takes, Strings
    <3> QED
      BY <1>1, <1>5, <2>6, <3>1, DirectiveMeaning
  <2>7. CASE t \in {<<"%", "d">>, <<"%", "i">>, <<"%", "l", "d">>}
    <3>1. a \in SignedValues(IntWord) \/ a \in SignedValues(LongWord)
      BY <1>5, <2>7 DEF Takes
    <3>2. Meaning(p) = IF a < 0 THEN <<"-">> \o Numeral(-a, 10, Lower) ELSE Numeral(a, 10, Lower)
      BY <1>5, <2>7, DirectiveMeaning
    <3> QED
      BY <2>4, <3>1, <3>2
  <2>8. ASSUME t \in {<<"%", "u">>, <<"%", "x">>, <<"%", "X">>, <<"%", "l", "u">>,
                      <<"%", "l", "x">>, <<"%", "p">>}
        PROVE  Meaning(p) \in Seq(Chars)
    <3>1. a \in UnsignedValues(IntWord) \/ a \in UnsignedValues(LongWord)
      BY <1>5, <2>8 DEF Takes
    <3>2. a \in Nat /\ (a < IntWord \/ a < LongWord)
      BY <2>3, <3>1
    <3>3. /\ Numeral(a, 10, Lower) \in Seq(Chars) /\ Numeral(a, 16, Lower) \in Seq(Chars)
          /\ Numeral(a, 16, Upper) \in Seq(Chars)
      BY <2>1, <2>2, <3>2
    <3>4. <<"0", "x">> \o Numeral(a, 16, Lower) \in Seq(Chars)
      <4>1. <<"0", "x">> \in Seq(Chars)
        BY <1>3
      <4> QED
        BY <3>3, <4>1, ConcatProperties
    <3>5. CASE t \in {<<"%", "u">>, <<"%", "l", "u">>}
      BY <1>5, <3>3, <3>5, DirectiveMeaning
    <3>6. CASE t \in {<<"%", "x">>, <<"%", "l", "x">>}
      BY <1>5, <3>3, <3>6, DirectiveMeaning
    <3>7. CASE t = <<"%", "X">>
      BY <1>5, <3>3, <3>7, DirectiveMeaning
    <3>8. CASE t = <<"%", "p">>
      BY <1>5, <3>4, <3>8, DirectiveMeaning
    <3> QED
      BY <2>8, <3>5, <3>6, <3>7, <3>8
  <2> QED
    BY <1>5, <2>5, <2>6, <2>7, <2>8 DEF Takes
<1> QED
  BY <1>4, <1>5, PieceArgs

Whole(ps) == FlattenSeq(Meanings(ps))

(* The texts, the arguments and the meanings of a format's pieces          *)
LEMMA ListTypes ==
  ASSUME NEW ps, WellWritten(ps)
  PROVE  /\ Texts(ps) \in Lists(Chars) /\ Len(Texts(ps)) = Len(ps)
         /\ Arguments(ps) \in Lists(Values) /\ Len(Arguments(ps)) = Len(ps)
         /\ Meanings(ps) \in Lists(Chars) /\ Len(Meanings(ps)) = Len(ps)
         /\ \A i \in 1 .. Len(ps) : /\ Texts(ps)[i] = ps[i].text
                                    /\ Arguments(ps)[i] = ps[i].args
                                    /\ Meanings(ps)[i] = Meaning(ps[i])
<1>1. Len(ps) \in Nat /\ DOMAIN ps = 1 .. Len(ps) /\ \A i \in 1 .. Len(ps) : IsPiece(ps[i])
  BY FormatFacts
<1>2. \A p : IsPiece(p) => /\ p.text \in Seq(Chars) /\ p.args \in Seq(Values)
                           /\ Meaning(p) \in Seq(Chars)
  <2> SUFFICES ASSUME NEW p, IsPiece(p)
               PROVE  p.text \in Seq(Chars) /\ p.args \in Seq(Values) /\ Meaning(p) \in Seq(Chars)
    OBVIOUS
  <2>1. p.text \in Seq(Chars)
    <3>1. p.text \in Seq(Alphabet)
      BY PieceArgs
    <3> QED
      BY <3>1 DEF Chars
  <2>2. p.args \in Seq(Values)
    <3>1. p.args = <<>> \/ \E a \in Values : p.args = <<a>>
      BY PieceArgs
    <3>2. <<>> \in Seq(Values) /\ \A a \in Values : <<a>> \in Seq(Values)
      OBVIOUS
    <3> QED
      BY <3>1, <3>2
  <2> QED
    BY <2>1, <2>2, MeaningType
<1>3. ASSUME NEW S, NEW f, f = [i \in DOMAIN ps |-> f[i]],
             \A i \in 1 .. Len(ps) : f[i] \in Seq(S)
      PROVE  f \in Lists(S) /\ Len(f) = Len(ps)
  <2> DEFINE T == Seq(S)
  <2>1. \A i \in 1 .. Len(ps) : f[i] \in T
    BY <1>3
  <2> HIDE DEF T
  <2> DEFINE n == Len(ps)
  <2>2. f \in [1 .. n -> T] /\ n \in Nat
    BY <1>1, <1>3, <2>1
  <2> HIDE DEF n
  <2>3. f \in Seq(T)
    BY <2>2
  <2>4. Len(f) = n
    BY <1>1, <1>3, <2>2 DEF n
  <2> QED
    BY <2>3, <2>4 DEF Lists, T, n
<1>4. /\ \A i \in 1 .. Len(ps) : ps[i].text \in Seq(Chars)
      /\ \A i \in 1 .. Len(ps) : ps[i].args \in Seq(Values)
      /\ \A i \in 1 .. Len(ps) : Meaning(ps[i]) \in Seq(Chars)
  BY <1>1, <1>2
<1>5. Texts(ps) \in Lists(Chars) /\ Len(Texts(ps)) = Len(ps)
      /\ \A i \in 1 .. Len(ps) : Texts(ps)[i] = ps[i].text
  <2> DEFINE f == Texts(ps)
  <2>1. /\ f = [i \in DOMAIN ps |-> f[i]]
        /\ \A i \in 1 .. Len(ps) : f[i] = ps[i].text
    BY <1>1 DEF Texts
  <2> HIDE DEF f
  <2>2. \A i \in 1 .. Len(ps) : f[i] \in Seq(Chars)
    BY <1>4, <2>1
  <2>3. f \in Lists(Chars) /\ Len(f) = Len(ps)
    BY <1>3, <2>1, <2>2
  <2> QED
    BY <2>1, <2>3 DEF f
<1>6. Arguments(ps) \in Lists(Values) /\ Len(Arguments(ps)) = Len(ps)
      /\ \A i \in 1 .. Len(ps) : Arguments(ps)[i] = ps[i].args
  <2> DEFINE f == Arguments(ps)
  <2>1. /\ f = [i \in DOMAIN ps |-> f[i]]
        /\ \A i \in 1 .. Len(ps) : f[i] = ps[i].args
    BY <1>1 DEF Arguments
  <2> HIDE DEF f
  <2>2. \A i \in 1 .. Len(ps) : f[i] \in Seq(Values)
    BY <1>4, <2>1
  <2>3. f \in Lists(Values) /\ Len(f) = Len(ps)
    BY <1>3, <2>1, <2>2
  <2> QED
    BY <2>1, <2>3 DEF f
<1>7. Meanings(ps) \in Lists(Chars) /\ Len(Meanings(ps)) = Len(ps)
      /\ \A i \in 1 .. Len(ps) : Meanings(ps)[i] = Meaning(ps[i])
  <2> DEFINE f == Meanings(ps)
  <2>1. /\ f = [i \in DOMAIN ps |-> f[i]]
        /\ \A i \in 1 .. Len(ps) : f[i] = Meaning(ps[i])
    BY <1>1 DEF Meanings
  <2> HIDE DEF f
  <2>2. \A i \in 1 .. Len(ps) : f[i] \in Seq(Chars)
    BY <1>4, <2>1
  <2>3. f \in Lists(Chars) /\ Len(f) = Len(ps)
    BY <1>3, <2>1, <2>2
  <2> QED
    BY <2>1, <2>3 DEF f
<1> QED
  BY <1>5, <1>6, <1>7

-----------------------------------------------------------------------------
(* Places in a format *)

(* What comes after the same beginning is the same.                        *)
LEMMA Cancel ==
  ASSUME NEW S, NEW u \in Seq(S), NEW x \in Seq(S), NEW y \in Seq(S), u \o x = u \o y
  PROVE  x = y
BY ConcatSimplifications

(* Elements of the front and of the back of a sequence                     *)
LEMMA InFront ==
  ASSUME NEW S, NEW u \in Seq(S), NEW v \in Seq(S), NEW i \in 1 .. Len(u)
  PROVE  (u \o v)[i] = u[i] /\ i \in 1 .. Len(u \o v)
<1>1. Len(u) \in Nat /\ Len(v) \in Nat
  OBVIOUS
<1> QED
  BY <1>1, ConcatProperties

(* The characters of the second of two strings that are joined             *)
LEMMA InBack ==
  ASSUME NEW S, NEW u \in Seq(S), NEW v \in Seq(S), NEW i \in 1 .. Len(v)
  PROVE  (u \o v)[Len(u) + i] = v[i] /\ Len(u) + i \in 1 .. Len(u \o v)
<1> DEFINE l == Len(u)
           m == Len(v)
           k == l + i
<1>1. l \in Nat /\ m \in Nat /\ i \in 1 .. m
  OBVIOUS
<1>2. Len(u \o v) = l + m /\ \A n \in 1 .. l + m : (u \o v)[n] = IF n <= l THEN u[n] ELSE v[n - l]
  BY ConcatProperties
<1> HIDE DEF l, m
<1>3. k \in 1 .. l + m /\ ~(k <= l) /\ k - l = i
  BY <1>1
<1> HIDE DEF k
<1> QED
  BY <1>2, <1>3 DEF k, l

(* Characters of a piece in the middle of a text, and of what ends it      *)
LEMMA InTheMiddle ==
  ASSUME NEW S, NEW u \in Seq(S), NEW t \in Seq(S), NEW tail \in Seq(S), NEW c \in S,
         NEW b \in Seq(S), NEW i \in 1 .. Len(t)
  PROVE  /\ (((u \o (t \o tail)) \o <<c>>) \o b)[Len(u) + i] = t[i]
         /\ Len(u) + i <= Len(u \o (t \o tail))
<1> DEFINE v == t \o tail
           w == u \o v
           e == <<c>>
           x == w \o e
           n == Len(u) + i
<1>1. e \in Seq(S)
  OBVIOUS
<1> HIDE DEF e
<1>2. v \in Seq(S) /\ v[i] = t[i] /\ i \in 1 .. Len(v)
  BY InFront, ConcatProperties
<1> HIDE DEF v
<1>3. w \in Seq(S) /\ w[n] = v[i] /\ n \in 1 .. Len(w)
  BY <1>2, InBack, ConcatProperties
<1> HIDE DEF w, n
<1>4. x \in Seq(S) /\ x[n] = w[n] /\ n \in 1 .. Len(x)
  BY <1>1, <1>3, InFront, ConcatProperties
<1> HIDE DEF x
<1>5. (x \o b)[n] = x[n]
  BY <1>4, InFront
<1>6. n <= Len(w)
  BY <1>3
<1> QED
  BY <1>2, <1>3, <1>4, <1>5, <1>6 DEF e, v, w, x, n

(* The character between two strings                                       *)
LEMMA AtTheEnd ==
  ASSUME NEW S, NEW u \in Seq(S), NEW c \in S, NEW b \in Seq(S)
  PROVE  ((u \o <<c>>) \o b)[Len(u) + 1] = c
<1> DEFINE e == <<c>>
           x == u \o e
           n == Len(u) + 1
<1>1. e \in Seq(S) /\ e[1] = c /\ 1 \in 1 .. Len(e)
  OBVIOUS
<1> HIDE DEF e
<1>2. x \in Seq(S) /\ x[n] = e[1] /\ n \in 1 .. Len(x)
  BY <1>1, InBack, ConcatProperties
<1> HIDE DEF x, n
<1>3. (x \o b)[n] = x[n]
  BY <1>2, InFront
<1> QED
  BY <1>1, <1>2, <1>3 DEF e, x, n

(* A format in memory, with its terminator and what follows                *)
Memory(ps, b) == (Text(ps) \o <<NUL>>) \o b

(* The character at a place of a piece                                     *)
LEMMA PieceInMemory ==
  ASSUME NEW ps, WellWritten(ps), NEW b \in Seq(Chars), NEW k \in 0 .. (Len(ps) - 1),
         NEW i \in 1 .. Len(ps[k + 1].text)
  PROVE  /\ Memory(ps, b)[Len(Upto(Texts(ps), k)) + i] = ps[k + 1].text[i]
         /\ Len(Upto(Texts(ps), k)) + i <= Len(Text(ps))
<1> DEFINE seqs == Texts(ps)
           u == Upto(seqs, k)
           t == ps[k + 1].text
<1>1. /\ seqs \in Lists(Chars) /\ Len(seqs) = Len(ps) /\ Len(ps) \in Nat
      /\ k + 1 \in 1 .. Len(ps) /\ seqs[k + 1] = t
  BY ListTypes, FormatFacts
<1>2. Text(ps) = FlattenSeq(seqs)
  BY DEF Text, Texts
<1>3. k \in 0 .. (Len(seqs) - 1) /\ k \in 0 .. Len(seqs) /\ k + 1 \in 1 .. Len(seqs)
  BY <1>1
<1> HIDE DEF seqs
<1>4. u \in Seq(Chars)
  BY <1>1, <1>3, UptoType
<1>5. t \in Seq(Chars)
  BY <1>1, <1>3, ListFacts
<1>6. PICK tail \in Seq(Chars) : FlattenSeq(seqs) = u \o (seqs[k + 1] \o tail)
  BY <1>1, <1>3, UptoSplit
<1>7. Text(ps) = u \o (t \o tail)
  BY <1>1, <1>2, <1>6
<1>8. NUL \in Chars
  BY DEF Chars
<1> HIDE DEF u, t
<1>9. i \in 1 .. Len(t)
  BY DEF t
<1>10. /\ (((u \o (t \o tail)) \o <<NUL>>) \o b)[Len(u) + i] = t[i]
       /\ Len(u) + i <= Len(u \o (t \o tail))
  BY <1>4, <1>5, <1>8, <1>9, InTheMiddle
<1> QED
  BY <1>7, <1>10 DEF Memory, u, t, seqs

(* And the one behind all of them                                          *)
LEMMA EndOfMemory ==
  ASSUME NEW ps, WellWritten(ps), NEW b \in Seq(Chars)
  PROVE  /\ Text(ps) \in Seq(Chars) /\ Upto(Texts(ps), Len(ps)) = Text(ps)
         /\ Memory(ps, b)[Len(Text(ps)) + 1] = NUL
<1>1. Texts(ps) \in Lists(Chars) /\ Len(Texts(ps)) = Len(ps) /\ Len(ps) \in 0 .. Len(ps)
  BY ListTypes, FormatFacts
<1>2. Upto(Texts(ps), Len(ps)) = FlattenSeq(Texts(ps))
  BY <1>1, UptoAll DEF Lists
<1>3. Text(ps) = FlattenSeq(Texts(ps))
  BY DEF Text, Texts
<1>4. Text(ps) \in Seq(Chars)
  BY <1>1, <1>2, <1>3, UptoType
<1>5. NUL \in Chars
  BY DEF Chars
<1> QED
  BY <1>2, <1>3, <1>4, <1>5, AtTheEnd DEF Memory

(* Each piece takes its arguments from those that are left.                *)
LEMMA ArgsOfPiece ==
  ASSUME NEW ps, WellWritten(ps), NEW k \in 0 .. (Len(ps) - 1), NEW args \in Seq(Values),
         Args(ps) = Upto(Arguments(ps), k) \o args
  PROVE  \E rest \in Seq(Values) : /\ args = ps[k + 1].args \o rest
                                   /\ Args(ps) = Upto(Arguments(ps), k + 1) \o rest
<1> DEFINE seqs == Arguments(ps)
           a == ps[k + 1].args
<1>1. /\ seqs \in Lists(Values) /\ Len(seqs) = Len(ps) /\ Len(ps) \in Nat
      /\ k + 1 \in 1 .. Len(ps) /\ seqs[k + 1] = a
  BY ListTypes, FormatFacts
<1>2. Args(ps) = FlattenSeq(seqs)
  BY DEF Args, Arguments
<1>3. k \in 0 .. (Len(seqs) - 1) /\ k \in 0 .. Len(seqs) /\ k + 1 \in 1 .. Len(seqs)
      /\ k + 1 \in 0 .. Len(seqs)
  BY <1>1
<1> HIDE DEF seqs
<1>4. PICK rest \in Seq(Values) : FlattenSeq(seqs) = Upto(seqs, k + 1) \o rest
  BY <1>1, <1>3, UptoPrefix DEF Continues
<1>5. FlattenSeq(seqs) = Upto(seqs, k) \o (seqs[k + 1] \o rest)
  BY <1>1, <1>3, <1>4, ContinuesBack
<1>6. Upto(seqs, k) \in Seq(Values) /\ seqs[k + 1] \in Seq(Values)
  BY <1>1, <1>3, UptoType, ListFacts
<1> DEFINE x == seqs[k + 1] \o rest
           u == Upto(seqs, k)
<1>7. x \in Seq(Values)
  BY <1>6, ConcatProperties
<1>8. u \o args = u \o x
  BY <1>2, <1>5 DEF seqs
<1>9. u \in Seq(Values)
  BY <1>6
<1> HIDE DEF x, u
<1>10. args = x
  BY <1>7, <1>8, <1>9, Cancel
<1> QED
  BY <1>1, <1>2, <1>4, <1>10 DEF x, seqs

(* k pieces are done, and j characters of the next if that is text.        *)
Within(ps, k, j) ==
  /\ k \in 0 .. Len(ps) /\ j \in Nat
  /\ j # 0 => k < Len(ps) /\ IsText(ps[k + 1].text) /\ j < Len(ps[k + 1].text)

(* The scan is at a position, these arguments are left, and this is what   *)
(* was asked for so far.                                                   *)
PlaceIs(ps, k, j, at, args, said) ==
  /\ at = Len(Upto(Texts(ps), k)) + 1 + j
  /\ args \in Seq(Values)
  /\ Args(ps) = Upto(Arguments(ps), k) \o args
  /\ said = Upto(Meanings(ps), k) \o First(ps[k + 1].text, j)

Place(ps, at, args, said) ==
  \E k, j : Within(ps, k, j) /\ PlaceIs(ps, k, j, at, args, said)

(* A call begins at the first piece, with all its arguments.               *)
LEMMA PlaceStart ==
  ASSUME NEW ps, WellWritten(ps)
  PROVE  Place(ps, 1, Args(ps), <<>>)
<1>1. Len(ps) \in Nat /\ Within(ps, 0, 0)
  BY FormatFacts DEF Within
<1>2. Args(ps) \in Seq(Values)
  <2>1. Arguments(ps) \in Lists(Values) /\ Len(Arguments(ps)) = Len(ps) /\ Len(ps) \in 0 .. Len(ps)
    BY ListTypes, <1>1
  <2>2. Upto(Arguments(ps), Len(ps)) = FlattenSeq(Arguments(ps))
    BY <2>1, UptoAll DEF Lists
  <2>3. Upto(Arguments(ps), Len(ps)) \in Seq(Values)
    BY <2>1, UptoType
  <2> QED
    BY <2>2, <2>3 DEF Args, Arguments
<1>3. /\ Upto(Texts(ps), 0) = <<>> /\ Upto(Arguments(ps), 0) = <<>>
      /\ Upto(Meanings(ps), 0) = <<>> /\ First(ps[0 + 1].text, 0) = <<>>
  BY UptoNone DEF First
<1>4. /\ 1 = Len(<<>>) + 1 + 0 /\ Args(ps) = <<>> \o Args(ps) /\ <<>> = <<>> \o <<>>
  BY <1>2
<1>5. PlaceIs(ps, 0, 0, 1, Args(ps), <<>>)
  BY <1>2, <1>3, <1>4 DEF PlaceIs
<1> QED
  BY <1>1, <1>5 DEF Place

(* Beginnings of a sequence                                                *)
LEMMA FirstFacts ==
  ASSUME NEW S, NEW t \in Seq(S), NEW j \in 0 .. Len(t)
  PROVE  /\ First(t, j) \in Seq(S) /\ First(t, 0) = <<>> /\ First(t, Len(t)) = t
         /\ j < Len(t) => First(t, j + 1) = First(t, j) \o <<t[j + 1]>>
<1> DEFINE f == First(t, j)
<1>0. Len(t) \in Nat /\ j \in Nat
  OBVIOUS
<1>1. f \in Seq(S) /\ Len(f) = j /\ \A i \in 1 .. j : f[i] = t[i]
  BY DEF First
<1>2. First(t, 0) = <<>> /\ First(t, Len(t)) = t
  BY DEF First
<1> HIDE DEF f
<1>3. ASSUME j < Len(t) PROVE First(t, j + 1) = f \o <<t[j + 1]>>
  <2> DEFINE e == <<t[j + 1]>>
             g == First(t, j + 1)
  <2>1. t[j + 1] \in S
    BY <1>0, <1>3
  <2>2. e \in Seq(S) /\ Len(e) = 1 /\ e[1] = t[j + 1]
    BY <2>1
  <2>3. g \in Seq(S) /\ Len(g) = j + 1 /\ \A i \in 1 .. (j + 1) : g[i] = t[i]
    BY <1>0, <1>3 DEF First
  <2> HIDE DEF e, g
  <2> DEFINE fe == f \o e
  <2>4a. /\ fe \in Seq(S) /\ Len(fe) = Len(f) + Len(e)
         /\ \A i \in 1 .. Len(f) + Len(e) : fe[i] = IF i <= Len(f) THEN f[i] ELSE e[i - Len(f)]
    BY <1>1, <2>2, ConcatProperties
  <2>4. /\ f \o e \in Seq(S) /\ Len(f \o e) = j + 1
        /\ \A i \in 1 .. (j + 1) : (f \o e)[i] = IF i <= j THEN f[i] ELSE e[i - j]
    BY <1>1, <2>2, <2>4a
  <2>5. \A i \in 1 .. (j + 1) : (f \o e)[i] = g[i]
    <3> SUFFICES ASSUME NEW i \in 1 .. (j + 1) PROVE (f \o e)[i] = g[i]
      OBVIOUS
    <3>1. CASE i <= j
      <4>1. i \in 1 .. j
        BY <1>0, <3>1
      <4> QED
        BY <1>1, <2>3, <2>4, <3>1, <4>1
    <3>2. CASE ~(i <= j)
      <4>1. i = j + 1 /\ i - j = 1
        BY <1>0, <3>2
      <4>2. (f \o e)[i] = e[i - j]
        BY <2>4, <3>2
      <4> QED
        BY <2>2, <2>3, <4>1, <4>2
    <3> QED
      BY <3>1, <3>2
  <2> DEFINE h == f \o e
  <2>6. h \in Seq(S) /\ Len(h) = j + 1 /\ \A i \in 1 .. (j + 1) : h[i] = g[i]
    BY <2>4, <2>5
  <2> HIDE DEF h
  <2>7. h = g
    BY <2>3, <2>6, SeqEqual
  <2> QED
    BY <2>7 DEF e, g, h
<1> QED
  BY <1>1, <1>2, <1>3 DEF f

(* And what is left                                                        *)
LEMMA FirstAndRest ==
  ASSUME NEW S, NEW t \in Seq(S), NEW j \in 0 .. Len(t)
  PROVE  \E tail \in Seq(S) : t = First(t, j) \o tail
<1> DEFINE f == First(t, j)
<1>0. Len(t) \in Nat /\ j \in Nat
  OBVIOUS
<1>1. f \in Seq(S) /\ Len(f) = j /\ \A i \in 1 .. j : f[i] = t[i]
  BY DEF First
<1> HIDE DEF f
<1>2. \E tail \in Seq(S) : t = f \o tail
  <2> DEFINE r == SubSeq(t, j + 1, Len(t))
             n == Len(t)
  <2>1. r \in Seq(S) /\ Len(r) = n - j /\ \A i \in 1 .. (n - j) : r[i] = t[j + i]
    <3>1. /\ r \in Seq(S) /\ Len(r) = IF j + 1 <= Len(t) THEN Len(t) - (j + 1) + 1 ELSE 0
      BY <1>0
    <3>2. Len(r) = n - j
      BY <1>0, <3>1
    <3>3. \A i \in 1 .. (n - j) : r[i] = t[j + i]
      BY <1>0
    <3> QED
      BY <3>1, <3>2, <3>3
  <2>2. n \in Nat /\ j <= n
    BY <1>0
  <2> HIDE DEF r
  <2>3. /\ f \o r \in Seq(S) /\ Len(f \o r) = j + (n - j)
        /\ \A i \in 1 .. j + (n - j) : (f \o r)[i] = IF i <= j THEN f[i] ELSE r[i - j]
    BY <1>1, <2>1, ConcatProperties
  <2> DEFINE h == f \o r
  <2>4. \A i \in 1 .. n : h[i] = t[i]
    <3> SUFFICES ASSUME NEW i \in 1 .. n PROVE h[i] = t[i]
      OBVIOUS
    <3>0. i \in 1 .. j + (n - j)
      BY <1>0, <2>2
    <3>1. h[i] = IF i <= j THEN f[i] ELSE r[i - j]
      BY <2>3, <3>0
    <3> HIDE DEF h, n
    <3>2. CASE i <= j
      <4>1. i \in 1 .. j
        BY <1>0, <3>2
      <4> QED
        BY <1>1, <3>1, <3>2, <4>1
    <3>3. CASE ~(i <= j)
      <4>1. i - j \in 1 .. (n - j) /\ j + (i - j) = i
        BY <1>0, <2>2, <3>3
      <4> QED
        BY <2>1, <3>1, <3>3, <4>1
    <3> QED
      BY <3>2, <3>3
  <2>5. h \in Seq(S) /\ Len(h) = n
    BY <1>0, <2>2, <2>3
  <2> HIDE DEF h
  <2>6. h = t
    BY <2>4, <2>5, SeqEqual DEF n
  <2> QED
    BY <2>1, <2>6 DEF h
<1> QED
  BY <1>2 DEF f

(* Strings can be joined in any order.                                     *)
LEMMA Regroup ==
  \A x, y, z \in Seq(Chars) :
    x \o y \in Seq(Chars) /\ (x \o y) \o z = x \o (y \o z)
<1> DEFINE S == Chars
<1> HIDE DEF S
<1>1. ASSUME NEW x \in Seq(S), NEW y \in Seq(S), NEW z \in Seq(S)
      PROVE  x \o y \in Seq(S) /\ (x \o y) \o z = x \o (y \o z)
  BY ConcatProperties, ConcatAssociative
<1> QED
  BY <1>1 DEF S

(* What was asked for so far is the beginning of what is asked for.        *)
LEMMA PlaceSaid ==
  ASSUME NEW ps, WellWritten(ps), NEW at, NEW args, NEW said, Place(ps, at, args, said)
  PROVE  said \in Seq(Chars) /\ \E tail \in Seq(Chars) : Whole(ps) = said \o tail
<1>1. PICK k, j : Within(ps, k, j) /\ PlaceIs(ps, k, j, at, args, said)
  BY DEF Place
<1> DEFINE seqs == Meanings(ps)
           u == Upto(seqs, k)
           t == ps[k + 1].text
<1>2. /\ seqs \in Lists(Chars) /\ Len(seqs) = Len(ps) /\ Len(ps) \in Nat
      /\ \A i \in 1 .. Len(ps) : seqs[i] = Meaning(ps[i])
  BY ListTypes, FormatFacts
<1>3. /\ k \in 0 .. Len(seqs) /\ j \in Nat /\ said = u \o First(t, j) /\ k \in Nat
      /\ j # 0 => k + 1 \in 1 .. Len(ps) /\ k \in 0 .. (Len(seqs) - 1) /\ IsText(t) /\ j < Len(t)
  <2>1. k \in 0 .. Len(ps) /\ j \in Nat /\ said = u \o First(t, j)
    BY <1>1 DEF Within, PlaceIs
  <2>2. j # 0 => k < Len(ps) /\ IsText(t) /\ j < Len(t)
    BY <1>1 DEF Within
  <2> HIDE DEF seqs, t
  <2> QED
    BY <1>2, <2>1, <2>2
<1>4. Whole(ps) = FlattenSeq(seqs)
  BY DEF Whole
<1> HIDE DEF seqs
<1>5. u \in Seq(Chars)
  BY <1>2, <1>3, UptoType
<1>6. CASE j = 0
  <2>1. First(t, j) = <<>>
    BY <1>6 DEF First
  <2>2. said = u
    <3> HIDE DEF u
    <3> QED
      BY <1>3, <1>5, <2>1, ConcatEmptySeq
  <2> QED
    BY <1>2, <1>3, <1>4, <1>5, <2>2, UptoPrefix DEF Continues
<1>7. CASE j # 0
  <2>1. k + 1 \in 1 .. Len(ps) /\ k \in 0 .. (Len(seqs) - 1) /\ IsText(t) /\ j < Len(t)
    BY <1>3, <1>7
  <2>2. t \in Seq(Alphabet) /\ t \in Seq(Chars)
    <3>1. t \in Seq(Alphabet)
      BY <2>1, FormatFacts, PieceArgs
    <3> QED
      BY <3>1 DEF Chars
  <2>3. seqs[k + 1] = t
    <3>1. t # <<"%", "%">>
      BY <2>1 DEF IsText
    <3>2. Meaning(ps[k + 1]) = t
      BY <2>1, <2>2, <3>1, PlainMeaning
    <3> QED
      BY <1>2, <2>1, <3>2
  <2>4. PICK tail \in Seq(Chars) : FlattenSeq(seqs) = u \o (t \o tail)
    <3>1. \E tail \in Seq(Chars) : FlattenSeq(seqs) = Upto(seqs, k) \o (seqs[k + 1] \o tail)
      <4>1. seqs \in Lists(Chars) /\ k \in 0 .. (Len(seqs) - 1)
        BY <1>2, <2>1
      <4> QED
        BY <4>1, UptoSplit, Zenon
    <3> QED
      BY <2>3, <3>1
  <2> DEFINE f == First(t, j)
  <2>5. j \in 0 .. Len(t)
    BY <1>3, <2>1, <2>2
  <2>6. f \in Seq(Chars)
    <3> HIDE DEF t, u
    <3> QED
      BY <2>2, <2>5, FirstFacts
  <2>7. PICK r \in Seq(Chars) : t = f \o r
    <3> HIDE DEF t, u
    <3>1. \E r \in Seq(Chars) : t = First(t, j) \o r
      BY <2>2, <2>5, FirstAndRest
    <3> QED
      BY <3>1
  <2>8. said = u \o f
    BY <1>3
  <2> HIDE DEF u, f, t
  <2>9. r \o tail \in Seq(Chars) /\ (f \o r) \o tail = f \o (r \o tail)
    BY <2>6, Regroup
  <2>10. u \o (f \o (r \o tail)) = (u \o f) \o (r \o tail) /\ u \o f \in Seq(Chars)
    <3> DEFINE x == r \o tail
    <3>1. x \in Seq(Chars)
      BY <2>9
    <3> HIDE DEF x
    <3>2. u \o (f \o x) = (u \o f) \o x /\ u \o f \in Seq(Chars)
      <4>1. \A y, z \in Seq(Chars) :
              u \o y \in Seq(Chars) /\ (u \o y) \o z = u \o (y \o z)
        BY <1>5, Regroup, Zenon
      <4> QED
        BY <2>6, <3>1, <4>1, Zenon
    <3> QED
      BY <3>2 DEF x
  <2>11. Whole(ps) = said \o (r \o tail)
    BY <1>4, <2>4, <2>7, <2>8, <2>9, <2>10
  <2> QED
    BY <2>8, <2>9, <2>10, <2>11
<1> QED
  BY <1>6, <1>7

Spelled(memory, at, t) == \A i \in 1 .. Len(t) : memory[at + (i - 1)] = t[i]

Completes(t, j, new, meaning) == First(t, j) \o new = meaning

(* The next piece is done, its arguments taken, and this printed for it.   *)
Done(ps, k, at, args, said) ==
  \E rest \in Seq(Values) : args = ps[k + 1].args \o rest /\ Place(ps, at, rest, said)

(* A piece that is done                                                    *)
LEMMA PieceDone ==
  ASSUME NEW ps, WellWritten(ps), NEW k \in 0 .. (Len(ps) - 1), NEW j, NEW at, NEW args, NEW said,
         Within(ps, k, j), PlaceIs(ps, k, j, at, args, said),
         NEW new \in Seq(Chars), Completes(ps[k + 1].text, j, new, Meaning(ps[k + 1]))
  PROVE  Done(ps, k, at + (Len(ps[k + 1].text) - j), args, said \o new)
<1> DEFINE t == ps[k + 1].text
           texts == Texts(ps)
           asked == Meanings(ps)
           n == Len(ps)
<1>1. /\ texts \in Lists(Chars) /\ Len(texts) = n /\ n \in Nat
      /\ asked \in Lists(Chars) /\ Len(asked) = n
      /\ \A i \in 1 .. n : texts[i] = ps[i].text /\ asked[i] = Meaning(ps[i])
  BY ListTypes, FormatFacts
<1>2. k \in 0 .. (n - 1) /\ k + 1 \in 1 .. n /\ k + 1 \in 0 .. n /\ k \in 0 .. n /\ k \in Nat
  BY <1>1
<1>3. /\ j \in Nat /\ at = Len(Upto(texts, k)) + 1 + j /\ args \in Seq(Values)
      /\ Args(ps) = Upto(Arguments(ps), k) \o args
      /\ said = Upto(asked, k) \o First(t, j)
  BY DEF Within, PlaceIs
<1>4. PICK rest \in Seq(Values) : args = ps[k + 1].args \o rest
                                  /\ Args(ps) = Upto(Arguments(ps), k + 1) \o rest
  BY <1>2, <1>3, ArgsOfPiece
<1>5. t \in Seq(Alphabet) /\ t \in Seq(Chars)
  <2>1. t \in Seq(Alphabet)
    BY <1>2, FormatFacts, PieceArgs
  <2> QED
    BY <2>1 DEF Chars
<1>6. at + (Len(t) - j) = Len(Upto(texts, k + 1)) + 1 + 0
  <2> DEFINE u == Upto(texts, k)
             l == Len(t)
             m == Len(u)
  <2>1. Upto(texts, k + 1) = u \o t
    BY <1>1, <1>2, UptoNext
  <2>2. u \in Seq(Chars)
    BY <1>1, <1>2, UptoType
  <2>3. at = m + 1 + j /\ l \in Nat
    BY <1>3, <1>5
  <2> HIDE DEF u, t
  <2>4. Len(u \o t) = m + l /\ m \in Nat
    BY <1>5, <2>2, ConcatProperties
  <2> HIDE DEF l, m
  <2>5. at + (l - j) = m + l + 1 + 0
    <3>1. \A x, y, z \in Nat : (x + 1 + z) + (y - z) = x + y + 1 + 0
      OBVIOUS
    <3>2. j \in Nat
      BY <1>3
    <3> QED
      BY <2>3, <2>4, <3>1, <3>2
  <2> QED
    BY <2>1, <2>4, <2>5 DEF l
<1>7. said \o new = Upto(asked, k + 1) \o First(ps[(k + 1) + 1].text, 0)
  <2> DEFINE u == Upto(asked, k)
             f == First(t, j)
             v == Upto(asked, k + 1)
             e == First(ps[(k + 1) + 1].text, 0)
  <2>1. Upto(asked, k + 1) = u \o Meaning(ps[k + 1])
    BY <1>1, <1>2, UptoNext
  <2>2. u \in Seq(Chars) /\ v \in Seq(Chars)
    BY <1>1, <1>2, UptoType
  <2>3. f \in Seq(Chars)
    <3>1. j \in 0 .. Len(t)
      <4>1. j = 0 \/ j < Len(t)
        BY DEF Within
      <4>2. Len(t) \in Nat
        BY <1>5
      <4> HIDE DEF t
      <4> QED
        BY <1>3, <4>1, <4>2
    <3> QED
      BY <1>5, <3>1, FirstFacts
  <2>4. e = <<>>
    BY DEF First
  <2>5. said = u \o f /\ v = u \o (f \o new)
    BY <1>3, <2>1 DEF Completes
  <2> HIDE DEF u, f, v, e
  <2>6. (u \o f) \o new = u \o (f \o new)
    <3>1. u \in Seq(Chars)
      BY <2>2
    <3>2. f \in Seq(Chars)
      BY <2>3
    <3>3. new \in Seq(Chars)
      OBVIOUS
    <3>4. \A y, z \in Seq(Chars) : (u \o y) \o z = u \o (y \o z)
      BY <3>1, Regroup, Zenon
    <3> QED
      BY <3>2, <3>3, <3>4, Zenon
  <2>7. v \o <<>> = v
    BY <2>2, ConcatEmptySeq
  <2>8. said \o new = v \o e
    BY <2>4, <2>5, <2>6, <2>7
  <2> QED
    BY <2>8 DEF v, e
<1>8. Within(ps, k + 1, 0)
  BY <1>2 DEF Within
<1>9. PlaceIs(ps, k + 1, 0, at + (Len(t) - j), rest, said \o new)
  BY <1>4, <1>6, <1>7 DEF PlaceIs
<1>10. Place(ps, at + (Len(t) - j), rest, said \o new)
  BY <1>8, <1>9 DEF Place
<1> QED
  BY <1>4, <1>10 DEF Done

(* A piece that is text is printed character by character.                 *)
LEMMA PlaceText ==
  ASSUME NEW ps, WellWritten(ps), NEW k \in 0 .. (Len(ps) - 1), NEW j, NEW at, NEW args, NEW said,
         Within(ps, k, j), PlaceIs(ps, k, j, at, args, said), NEW b \in Seq(Chars),
         IsText(ps[k + 1].text)
  PROVE  \E c \in Alphabet \ {"%"} : /\ Memory(ps, b)[at] = c
                                     /\ Place(ps, at + 1, args, said \o <<c>>)
<1> DEFINE t == ps[k + 1].text
           c == t[j + 1]
           n == Len(t)
<1>1. k + 1 \in 1 .. Len(ps) /\ k \in 0 .. Len(ps) /\ k < Len(ps)
  BY FormatFacts
<1>2. t \in Seq(Alphabet) /\ t \in Seq(Chars)
  <2>1. t \in Seq(Alphabet)
    BY <1>1, FormatFacts, PieceArgs
  <2> QED
    BY <2>1 DEF Chars
<1>3. n \in Nat /\ n # 0 /\ j \in Nat /\ j < n
  <2>1. n \in Nat /\ n # 0
    BY <1>2 DEF IsText
  <2>2. j \in Nat /\ (j # 0 => j < n)
    BY DEF Within
  <2> HIDE DEF n
  <2> QED
    BY <2>1, <2>2
<1>4. j + 1 \in 1 .. n /\ j \in 0 .. n
  <2> HIDE DEF n
  <2> QED
    BY <1>3
<1>5. c \in Alphabet /\ c # "%"
  <2> HIDE DEF t
  <2>1. t[j + 1] \in Alphabet /\ j + 1 \in DOMAIN t
    BY <1>2, <1>4
  <2> QED
    BY <2>1 DEF IsText, t
<1>6. /\ at = Len(Upto(Texts(ps), k)) + 1 + j /\ args \in Seq(Values)
      /\ Args(ps) = Upto(Arguments(ps), k) \o args
      /\ said = Upto(Meanings(ps), k) \o First(t, j)
  BY DEF PlaceIs
<1>7. at = Len(Upto(Texts(ps), k)) + (j + 1) /\ at + 1 = Len(Upto(Texts(ps), k)) + 1 + (j + 1)
      /\ at \in Nat
  <2> DEFINE u == Upto(Texts(ps), k)
             m == Len(u)
  <2>1. Texts(ps) \in Lists(Chars) /\ Len(Texts(ps)) = Len(ps)
    BY ListTypes
  <2>2. u \in Seq(Chars)
    BY <1>1, <2>1, UptoType
  <2> HIDE DEF u
  <2>3. m \in Nat
    BY <2>2
  <2>4. at = m + 1 + j
    BY <1>6 DEF u
  <2> HIDE DEF m
  <2>5. at = m + (j + 1) /\ at + 1 = m + 1 + (j + 1) /\ at \in Nat
    BY <1>3, <2>3, <2>4
  <2> QED
    BY <2>5 DEF m, u
<1>8. Memory(ps, b)[at] = c
  BY <1>4, <1>7, PieceInMemory
<1> DEFINE e == <<c>>
<1>9. e \in Seq(Chars)
  <2> HIDE DEF c
  <2>1. c \in Chars
    BY <1>5 DEF Chars
  <2> QED
    BY <2>1
<1>10. First(t, j + 1) = First(t, j) \o e /\ First(t, j) \in Seq(Chars)
  <2> HIDE DEF t
  <2> QED
    BY <1>2, <1>3, <1>4, FirstFacts
<1>11. CASE j + 1 < n
  <2>1. Within(ps, k, j + 1)
    BY <1>1, <1>3, <1>11 DEF Within
  <2>2. said \o e = Upto(Meanings(ps), k) \o First(t, j + 1)
    <3> DEFINE u == Upto(Meanings(ps), k)
               f == First(t, j)
    <3>1. Meanings(ps) \in Lists(Chars) /\ Len(Meanings(ps)) = Len(ps)
      BY ListTypes
    <3>2. u \in Seq(Chars)
      BY <1>1, <3>1, UptoType
    <3>3. f \in Seq(Chars)
      BY <1>10
    <3>4. said = u \o f /\ First(t, j + 1) = f \o e
      BY <1>6, <1>10
    <3> HIDE DEF u, f, e
    <3>5. (u \o f) \o e = u \o (f \o e)
      <4>1. \A y, z \in Seq(Chars) : (u \o y) \o z = u \o (y \o z)
        BY <3>2, Regroup, Zenon
      <4> QED
        BY <1>9, <3>3, <4>1, Zenon
    <3> QED
      BY <3>4, <3>5, Zenon DEF u
  <2>3. PlaceIs(ps, k, j + 1, at + 1, args, said \o e)
    BY <1>6, <1>7, <2>2 DEF PlaceIs
  <2>4. Place(ps, at + 1, args, said \o e)
    BY <2>1, <2>3 DEF Place
  <2> QED
    BY <1>5, <1>8, <2>4
<1>12. CASE ~(j + 1 < n)
  <2>1. j + 1 = n /\ n - j = 1
    <3> HIDE DEF n
    <3> QED
      BY <1>3, <1>12
  <2>2. First(t, n) = t
    <3> HIDE DEF t
    <3> QED
      BY <1>2, <1>4, FirstFacts
  <2>3. Meaning(ps[k + 1]) = t
    <3>1. t # <<"%", "%">>
      BY DEF IsText
    <3> QED
      BY <1>2, <3>1, PlainMeaning
  <2>4. Completes(t, j, e, Meaning(ps[k + 1]))
    BY <1>10, <2>1, <2>2, <2>3 DEF Completes
  <2>5. Done(ps, k, at + (n - j), args, said \o e)
    <3> HIDE DEF e
    <3> QED
      BY <1>9, <2>4, PieceDone
  <2>6. PICK rest : args = ps[k + 1].args \o rest /\ rest \in Seq(Values)
                    /\ Place(ps, at + (n - j), rest, said \o e)
    BY <2>5 DEF Done
  <2>7. args = rest
    <3>1. ps[k + 1].args = <<>>
      <4>1. ps[k + 1].args = <<>> \/ \E a \in Values : Takes(t, a)
        BY <1>1, FormatFacts, PieceArgs
      <4>2. \A a : ~Takes(t, a)
        <5>1. \A i \in DOMAIN t : t[i] # "%"
          BY DEF IsText
        <5>2. \A a : Takes(t, a) => 1 \in DOMAIN t /\ t[1] = "%"
          <6> HIDE DEF t
          <6> QED
            BY DEF Takes
        <5> QED
          BY <5>1, <5>2
      <4> QED
        BY <4>1, <4>2
    <3>2. <<>> \o rest = rest
      OBVIOUS
    <3> QED
      BY <2>6, <3>1, <3>2, Zenon
  <2>8. Place(ps, at + 1, args, said \o e)
    BY <2>1, <2>6, <2>7
  <2> QED
    BY <1>5, <1>8, <2>8
<1> QED
  BY <1>11, <1>12

(* A directive, or what only looks like one, is done at once.              *)
LEMMA PlaceDirective ==
  ASSUME NEW ps, WellWritten(ps), NEW k \in 0 .. (Len(ps) - 1), NEW j, NEW at, NEW args, NEW said,
         Within(ps, k, j), PlaceIs(ps, k, j, at, args, said), NEW b \in Seq(Chars),
         ~IsText(ps[k + 1].text)
  PROVE  /\ Spelled(Memory(ps, b), at, ps[k + 1].text)
         /\ Done(ps, k, at + Len(ps[k + 1].text), args, said \o Meaning(ps[k + 1]))
<1> DEFINE t == ps[k + 1].text
           u == Upto(Texts(ps), k)
           m == Len(u)
<1>1. k + 1 \in 1 .. Len(ps) /\ k \in 0 .. Len(ps)
  BY FormatFacts
<1>2. j = 0
  BY DEF Within
<1>3. m \in Nat
  <2>1. Texts(ps) \in Lists(Chars) /\ Len(Texts(ps)) = Len(ps)
    BY ListTypes
  <2>2. u \in Seq(Chars)
    BY <1>1, <2>1, UptoType
  <2> HIDE DEF u
  <2> QED
    BY <2>2
<1>4. at = m + 1
  <2>1. at = m + 1 + j
    BY DEF PlaceIs
  <2> HIDE DEF m
  <2> QED
    BY <1>2, <1>3, <2>1
<1>5. Len(t) \in Nat
  <2>1. t \in Seq(Alphabet)
    BY <1>1, FormatFacts, PieceArgs
  <2> QED
    BY <2>1
<1>6. ASSUME NEW i \in 1 .. Len(t) PROVE Memory(ps, b)[at + (i - 1)] = t[i]
  <2>1. at + (i - 1) = m + i
    <3>1. i \in Nat
      BY <1>5
    <3> HIDE DEF m
    <3> QED
      BY <1>3, <1>4, <3>1
  <2>2. Memory(ps, b)[m + i] = t[i]
    BY PieceInMemory
  <2> QED
    BY <2>1, <2>2
<1>7. Spelled(Memory(ps, b), at, t)
  BY <1>6 DEF Spelled
<1> DEFINE e == Meaning(ps[k + 1])
<1>8. e \in Seq(Chars)
  BY <1>1, FormatFacts, MeaningType
<1>9. Completes(t, j, e, e)
  <2>1. First(t, j) = <<>>
    BY <1>2 DEF First
  <2> HIDE DEF e
  <2>2. <<>> \o e = e
    BY <1>8
  <2> QED
    BY <2>1, <2>2 DEF Completes
<1>10. Done(ps, k, at + (Len(t) - j), args, said \o e)
  BY <1>8, <1>9, PieceDone
<1>11. Len(t) - j = Len(t)
  BY <1>2, <1>5
<1> QED
  BY <1>7, <1>10, <1>11

(* Nothing is left behind the last piece.                                  *)
LEMMA PlaceLast ==
  ASSUME NEW ps, WellWritten(ps), NEW at, NEW args, NEW said, NEW j,
         Within(ps, Len(ps), j), PlaceIs(ps, Len(ps), j, at, args, said)
  PROVE  at = Len(Text(ps)) + 1 /\ args = <<>> /\ said = Whole(ps)
<1> DEFINE n == Len(ps)
<1>1. n \in Nat /\ j = 0 /\ n \in 0 .. n
  <2>1. n \in Nat
    BY FormatFacts
  <2>2. j # 0 => n < n
    BY DEF Within
  <2> HIDE DEF n
  <2> QED
    BY <2>1, <2>2
<1>2. /\ at = Len(Upto(Texts(ps), n)) + 1 + j /\ args \in Seq(Values)
      /\ Args(ps) = Upto(Arguments(ps), n) \o args
      /\ said = Upto(Meanings(ps), n) \o First(ps[n + 1].text, j)
  BY DEF PlaceIs
<1>3. at = Len(Text(ps)) + 1
  <2>1. Text(ps) \in Seq(Chars) /\ Upto(Texts(ps), n) = Text(ps)
    <3>1. <<>> \in Seq(Chars)
      OBVIOUS
    <3> QED
      BY <3>1, EndOfMemory
  <2>2. Len(Text(ps)) \in Nat
    BY <2>1
  <2> QED
    BY <1>1, <1>2, <2>1, <2>2
<1>4. args = <<>>
  <2> DEFINE u == Upto(Arguments(ps), n)
  <2>1. Arguments(ps) \in Lists(Values) /\ Len(Arguments(ps)) = n
    BY ListTypes
  <2>2. u \in Seq(Values)
    BY <1>1, <2>1, UptoType
  <2>3. Args(ps) = u
    BY <2>1, UptoAll DEF Args, Arguments, Lists
  <2>4. u = u \o args
    BY <1>2, <2>3
  <2> HIDE DEF u
  <2> QED
    BY <1>2, <2>2, <2>4, ConcatSimplifications
<1>5. said = Whole(ps)
  <2> DEFINE u == Upto(Meanings(ps), n)
  <2>1. Meanings(ps) \in Lists(Chars) /\ Len(Meanings(ps)) = n
    BY ListTypes
  <2>2. u \in Seq(Chars)
    BY <1>1, <2>1, UptoType
  <2>3. Whole(ps) = u
    BY <2>1, UptoAll DEF Whole, Lists
  <2>4. First(ps[n + 1].text, j) = <<>>
    BY <1>1 DEF First
  <2>5. said = u \o <<>>
    BY <1>2, <2>4
  <2> HIDE DEF u
  <2> QED
    BY <2>2, <2>3, <2>5, ConcatEmptySeq
<1> QED
  BY <1>3, <1>4, <1>5

(* Where a scan can be: at the end, in a text or before a directive        *)
LEMMA PlaceMoves ==
  ASSUME NEW ps, WellWritten(ps), NEW at, NEW args, NEW said, Place(ps, at, args, said),
         NEW b \in Seq(Chars)
  PROVE  \/ /\ Memory(ps, b)[at] = NUL
            /\ args = <<>> /\ said = Whole(ps)
         \/ \E c \in Alphabet \ {"%"} : /\ Memory(ps, b)[at] = c
                                        /\ Place(ps, at + 1, args, said \o <<c>>)
         \/ \E k \in 0 .. (Len(ps) - 1) :
              /\ ~IsText(ps[k + 1].text)
              /\ Spelled(Memory(ps, b), at, ps[k + 1].text)
              /\ Done(ps, k, at + Len(ps[k + 1].text), args, said \o Meaning(ps[k + 1]))
<1>1. PICK k, j : Within(ps, k, j) /\ PlaceIs(ps, k, j, at, args, said)
  BY DEF Place
<1>2. CASE k = Len(ps)
  <2>1. at = Len(Text(ps)) + 1 /\ args = <<>> /\ said = Whole(ps)
    BY <1>1, <1>2, PlaceLast
  <2>2. Memory(ps, b)[at] = NUL
    BY <2>1, EndOfMemory
  <2> QED
    BY <2>1, <2>2
<1>3. CASE k # Len(ps)
  <2>1. k \in 0 .. (Len(ps) - 1)
    <3>1. k \in 0 .. Len(ps) /\ Len(ps) \in Nat
      BY <1>1, FormatFacts DEF Within
    <3> QED
      BY <1>3, <3>1
  <2>2. CASE IsText(ps[k + 1].text)
    <3>1. \E c \in Alphabet \ {"%"} : /\ Memory(ps, b)[at] = c
                                      /\ Place(ps, at + 1, args, said \o <<c>>)
      BY <1>1, <2>1, <2>2, PlaceText
    <3> QED
      BY <3>1
  <2>3. CASE ~IsText(ps[k + 1].text)
    <3>1. /\ Spelled(Memory(ps, b), at, ps[k + 1].text)
          /\ Done(ps, k, at + Len(ps[k + 1].text), args, said \o Meaning(ps[k + 1]))
      BY <1>1, <2>1, <2>3, PlaceDirective
    <3> QED
      BY <2>1, <2>3, <3>1
  <2> QED
    BY <2>2, <2>3
<1> QED
  BY <1>2, <1>3

(* No place is behind the terminator.                                      *)
LEMMA PlaceBound ==
  ASSUME NEW ps, WellWritten(ps), NEW at, NEW args, NEW said, Place(ps, at, args, said)
  PROVE  at <= Len(Text(ps)) + 1
<1>1. PICK k, j : Within(ps, k, j) /\ PlaceIs(ps, k, j, at, args, said)
  BY DEF Place
<1>2. <<>> \in Seq(Chars)
  OBVIOUS
<1>3. Len(Text(ps)) \in Nat
  <2>1. Text(ps) \in Seq(Chars)
    BY <1>2, EndOfMemory
  <2> QED
    BY <2>1
<1>4. CASE k = Len(ps)
  <2>1. at = Len(Text(ps)) + 1
    BY <1>1, <1>4, PlaceLast
  <2> QED
    BY <1>3, <2>1
<1>5. CASE k # Len(ps)
  <2> DEFINE u == Upto(Texts(ps), k)
             m == Len(u)
             t == ps[k + 1].text
             n == Len(ps)
  <2>1. k \in 0 .. (n - 1) /\ k \in 0 .. n /\ k + 1 \in 1 .. n
    <3>1. k \in 0 .. n /\ n \in Nat
      BY <1>1, FormatFacts DEF Within
    <3> HIDE DEF n
    <3>2. k # n
      BY <1>5 DEF n
    <3> QED
      BY <3>1, <3>2
  <2>2. Texts(ps) \in Lists(Chars) /\ Len(Texts(ps)) = n
    BY ListTypes
  <2>3. m \in Nat
    <3>1. u \in Seq(Chars)
      BY <2>1, <2>2, UptoType
    <3> HIDE DEF u
    <3> QED
      BY <3>1
  <2>4. j \in Nat /\ (j # 0 => j < Len(t)) /\ at = m + 1 + j
    BY <1>1 DEF Within, PlaceIs
  <2>5. CASE j = 0
    <3>1. t # <<>> /\ t \in Seq(Alphabet)
      <4>1. t \in Seq(Alphabet) /\ (IsText(t) \/ IsPercent(t) \/ \E a \in Values : Takes(t, a))
        BY <2>1, FormatFacts, PieceArgs
      <4>2. ~IsText(<<>>) /\ ~IsPercent(<<>>) /\ \A a : ~Takes(<<>>, a)
        BY DEF IsText, IsPercent, Takes
      <4> HIDE DEF t
      <4> QED
        BY <4>1, <4>2
    <3>2. 1 \in 1 .. Len(t)
      <4> HIDE DEF t
      <4> QED
        BY <3>1
    <3>3. m + 1 <= Len(Text(ps))
      BY <1>2, <2>1, <3>2, PieceInMemory
    <3> HIDE DEF m
    <3> QED
      BY <1>3, <2>3, <2>4, <2>5, <3>3
  <2>6. CASE j # 0
    <3>1. j \in 1 .. Len(t)
      <4>1. t \in Seq(Alphabet)
        BY <2>1, FormatFacts, PieceArgs
      <4> HIDE DEF t
      <4> QED
        BY <2>4, <2>6, <4>1
    <3>2. m + j <= Len(Text(ps))
      BY <1>2, <2>1, <3>1, PieceInMemory
    <3> HIDE DEF m
    <3> QED
      BY <1>3, <2>3, <2>4, <3>2
  <2> QED
    BY <2>5, <2>6
<1> QED
  BY <1>4, <1>5

-----------------------------------------------------------------------------
(* Calls that have not returned *)

(* The scan goes k characters on and n arguments are taken.                *)
Onward(f, k, n) == [f EXCEPT !.at = @ + k, !.args = SubSeq(@, n + 1, Len(@))]

(* A call of kprintf with this format, and what it was asked for so far    *)
Runs(ps, f, said) ==
  /\ \E b \in Seq(Chars) : f = [text |-> Memory(ps, b), at |-> f.at, args |-> f.args]
  /\ Place(ps, f.at, f.args, said)

(* Next is a piece that is no text.                                        *)
Directs(ps, f, said, p) ==
  /\ p \in Range(ps) /\ IsPiece(p) /\ ~IsText(p.text)
  /\ Spelled(f.text, f.at, p.text)
  /\ p.args # <<>> => Head(f.args) = p.args[1]
  /\ Runs(ps, Onward(f, Len(p.text), Len(p.args)), said \o Meaning(p))

(* Moving on from the beginning of a piece                                 *)
LEMMA RunsOn ==
  ASSUME NEW ps, NEW f, NEW said, Runs(ps, f, said), NEW k \in Nat, NEW n \in Nat, NEW rest, NEW next,
         SubSeq(f.args, n + 1, Len(f.args)) = rest, Place(ps, f.at + k, rest, next)
  PROVE  Runs(ps, Onward(f, k, n), next)
<1>1. PICK b \in Seq(Chars) : f = [text |-> Memory(ps, b), at |-> f.at, args |-> f.args]
  BY DEF Runs
<1> DEFINE m == Memory(ps, b)
           g == Onward(f, k, n)
<1> HIDE DEF m
<1>2. f = [text |-> m, at |-> f.at, args |-> f.args]
  BY <1>1 DEF m
<1>3. g = [text |-> m, at |-> f.at + k, args |-> rest]
  <2> DEFINE x == f.at
             y == f.args
  <2>1. f = [text |-> m, at |-> x, args |-> y] /\ SubSeq(y, n + 1, Len(y)) = rest
    BY <1>2
  <2>2. g = [f EXCEPT !.at = x + k, !.args = SubSeq(y, n + 1, Len(y))]
    BY DEF Onward
  <2> HIDE DEF x, y, g
  <2>3. g = [f EXCEPT !.at = x + k, !.args = rest]
    BY <2>1, <2>2
  <2>4. g = [text |-> m, at |-> x + k, args |-> rest]
    BY <2>1, <2>3
  <2> QED
    BY <2>4 DEF x, y
<1> HIDE DEF g
<1>4. g = [text |-> m, at |-> g.at, args |-> g.args] /\ g.at = f.at + k /\ g.args = rest
  BY <1>3
<1>5. Place(ps, g.at, g.args, next)
  BY <1>4
<1>6. g = [text |-> Memory(ps, b), at |-> g.at, args |-> g.args]
  BY <1>4 DEF m
<1> QED
  BY <1>5, <1>6 DEF Runs, g

(* Taking arguments                                                        *)
LEMMA ArgsTaken ==
  /\ \A args \in Seq(Values) : SubSeq(args, 0 + 1, Len(args)) = args
  /\ \A rest \in Seq(Values) : \A a \in Values :
       /\ SubSeq(<<a>> \o rest, 1 + 1, Len(<<a>> \o rest)) = rest
       /\ Head(<<a>> \o rest) = a
<1> DEFINE S == Values
<1> HIDE DEF S
<1>1. ASSUME NEW args \in Seq(S) PROVE SubSeq(args, 0 + 1, Len(args)) = args
  OBVIOUS
<1>2. ASSUME NEW rest \in Seq(S), NEW a \in S
      PROVE  /\ SubSeq(<<a>> \o rest, 1 + 1, Len(<<a>> \o rest)) = rest
             /\ Head(<<a>> \o rest) = a
  <2> DEFINE l == Len(rest)
             e == <<a>>
             s == e \o rest
  <2>1. e \in Seq(S) /\ Len(e) = 1 /\ e[1] = a /\ l \in Nat
    OBVIOUS
  <2> HIDE DEF e
  <2>2. s \in Seq(S) /\ Len(s) = Len(e) + l
        /\ \A i \in 1 .. Len(e) + l : s[i] = IF i <= Len(e) THEN e[i] ELSE rest[i - Len(e)]
    BY <2>1, ConcatProperties
  <2> HIDE DEF s
  <2>3. /\ s \in Seq(S) /\ Len(s) = 1 + l /\ s[1] = a
        /\ \A i \in 1 .. l : s[i + 1] = rest[i]
    <3>1. s[1] = a
      BY <2>1, <2>2
    <3>2. ASSUME NEW i \in 1 .. l PROVE s[i + 1] = rest[i]
      <4>1. i + 1 \in 1 .. 1 + l /\ ~(i + 1 <= 1) /\ (i + 1) - 1 = i
        BY <2>1
      <4> QED
        BY <2>1, <2>2, <4>1
    <3> QED
      BY <2>1, <2>2, <3>1, <3>2
  <2> DEFINE r == SubSeq(s, 1 + 1, Len(s))
  <2>4. r \in Seq(S) /\ Len(r) = l
    BY <2>1, <2>3
  <2>5. \A i \in 1 .. l : r[i] = s[i + 1]
    BY <2>1, <2>3
  <2>6. \A i \in 1 .. Len(r) : r[i] = rest[i]
    BY <2>3, <2>4, <2>5
  <2> HIDE DEF r
  <2>7. r = rest
    BY <2>4, <2>6, SeqEqual
  <2>8. Head(s) = a
    BY <2>1, <2>3
  <2> QED
    BY <2>7, <2>8 DEF r, s, e
<1> QED
  BY <1>1, <1>2 DEF S

(* What the scan comes to next                                             *)
LEMMA FrameMoves ==
  ASSUME NEW ps, WellWritten(ps), NEW f, NEW said, Runs(ps, f, said)
  PROVE  \/ f.text[f.at] = NUL /\ f.args = <<>> /\ said = Whole(ps)
         \/ \E c \in Alphabet \ {"%"} : /\ f.text[f.at] = c
                                        /\ Runs(ps, Onward(f, 1, 0), said \o <<c>>)
         \/ \E p : Directs(ps, f, said, p)
<1>1. PICK b \in Seq(Chars) : f = [text |-> Memory(ps, b), at |-> f.at, args |-> f.args]
  BY DEF Runs
<1>2. Place(ps, f.at, f.args, said)
  BY DEF Runs
<1>3. f.text = Memory(ps, b)
  BY <1>1
<1>4. f.args \in Seq(Values)
  BY <1>2 DEF Place, PlaceIs
<1>5. ASSUME NEW c \in Alphabet \ {"%"}, Memory(ps, b)[f.at] = c, Place(ps, f.at + 1, f.args, said \o <<c>>)
      PROVE  f.text[f.at] = c /\ Runs(ps, Onward(f, 1, 0), said \o <<c>>)
  <2>1. SubSeq(f.args, 0 + 1, Len(f.args)) = f.args
    BY <1>4, ArgsTaken
  <2> DEFINE next == said \o <<c>>
             rest == f.args
  <2>2. Place(ps, f.at + 1, rest, next)
    BY <1>5
  <2> HIDE DEF next
  <2>3. Runs(ps, Onward(f, 1, 0), next)
    BY <2>1, <2>2, RunsOn
  <2> QED
    BY <1>3, <1>5, <2>3 DEF next
<1>6. ASSUME NEW k \in 0 .. (Len(ps) - 1), ~IsText(ps[k + 1].text),
             Spelled(Memory(ps, b), f.at, ps[k + 1].text),
             Done(ps, k, f.at + Len(ps[k + 1].text), f.args, said \o Meaning(ps[k + 1]))
      PROVE  Directs(ps, f, said, ps[k + 1])
  <2> DEFINE p == ps[k + 1]
             l == Len(p.text)
             next == said \o Meaning(p)
  <2>1. p \in Range(ps) /\ IsPiece(p) /\ k + 1 \in 1 .. Len(ps)
    <3>1. k + 1 \in 1 .. Len(ps) /\ k + 1 \in DOMAIN ps
      BY FormatFacts
    <3> QED
      BY <3>1, FormatFacts DEF Range
  <2>2. l \in Nat
    <3>1. p.text \in Seq(Alphabet)
      BY <2>1, PieceArgs
    <3> QED
      BY <3>1
  <2>3. PICK rest : /\ rest \in Seq(Values) /\ f.args = p.args \o rest
                    /\ Place(ps, f.at + l, rest, next)
    BY <1>6 DEF Done
  <2> HIDE DEF next, l
  <2>4. \/ p.args = <<>>
        \/ \E a \in Values : p.args = <<a>>
    BY <2>1, PieceArgs
  <2>5. CASE p.args = <<>>
    <3>1. f.args = rest /\ Len(p.args) = 0
      <4>1. <<>> \o rest = rest /\ Len(<<>>) = 0
        BY <2>3
      <4> QED
        BY <2>3, <2>5, <4>1
    <3>2. SubSeq(f.args, 0 + 1, Len(f.args)) = rest
      BY <2>3, <3>1, ArgsTaken
    <3>3. Runs(ps, Onward(f, l, 0), next)
      BY <2>2, <2>3, <3>2, RunsOn
    <3> QED
      BY <1>3, <1>6, <2>1, <2>5, <3>1, <3>3 DEF Directs, l, next
  <2>6. ASSUME NEW a \in Values, p.args = <<a>> PROVE Directs(ps, f, said, p)
    <3>1. f.args = <<a>> \o rest
      BY <2>3, <2>6
    <3>2. SubSeq(f.args, 1 + 1, Len(f.args)) = rest /\ Head(f.args) = a
      BY <2>3, <3>1, ArgsTaken
    <3>3. Runs(ps, Onward(f, l, 1), next)
      BY <2>2, <2>3, <3>2, RunsOn
    <3>4. Len(p.args) = 1 /\ p.args[1] = a
      BY <2>6
    <3> QED
      BY <1>3, <1>6, <2>1, <3>2, <3>3, <3>4 DEF Directs, l, next
  <2> QED
    BY <2>4, <2>5, <2>6
<1>7. \/ /\ Memory(ps, b)[f.at] = NUL
         /\ f.args = <<>> /\ said = Whole(ps)
      \/ \E c \in Alphabet \ {"%"} : /\ Memory(ps, b)[f.at] = c
                                     /\ Place(ps, f.at + 1, f.args, said \o <<c>>)
      \/ \E k \in 0 .. (Len(ps) - 1) :
           /\ ~IsText(ps[k + 1].text)
           /\ Spelled(Memory(ps, b), f.at, ps[k + 1].text)
           /\ Done(ps, k, f.at + Len(ps[k + 1].text), f.args, said \o Meaning(ps[k + 1]))
  BY <1>2, PlaceMoves, Zenon
<1> QED
  BY <1>3, <1>5, <1>6, <1>7, Zenon

(* Places are positions.                                                   *)
LEMMA PlaceNat ==
  ASSUME NEW ps, WellWritten(ps), NEW at, NEW args, NEW said, Place(ps, at, args, said)
  PROVE  at \in Nat
<1>1. PICK k, j : Within(ps, k, j) /\ PlaceIs(ps, k, j, at, args, said)
  BY DEF Place
<1> DEFINE u == Upto(Texts(ps), k)
           m == Len(u)
<1>2. k \in 0 .. Len(ps) /\ j \in Nat /\ at = m + 1 + j
  BY <1>1 DEF Within, PlaceIs
<1>3. Texts(ps) \in Lists(Chars) /\ Len(Texts(ps)) = Len(ps)
  BY ListTypes
<1>4. u \in Seq(Chars)
  BY <1>2, <1>3, UptoType
<1> HIDE DEF u
<1>5. m \in Nat
  BY <1>4
<1> HIDE DEF m
<1> QED
  BY <1>2, <1>5

(* Sequences of two and of three                                           *)
LEMMA TwoAndThree ==
  ASSUME NEW S, NEW t \in Seq(S)
  PROVE  /\ Len(t) = 2 => t = <<t[1], t[2]>>
         /\ Len(t) = 3 => t = <<t[1], t[2], t[3]>>
<1>1. ASSUME Len(t) = 2 PROVE t = <<t[1], t[2]>>
  <2> DEFINE s == <<t[1], t[2]>>
  <2>1. t[1] \in S /\ t[2] \in S
    <3>1. 1 \in 1 .. Len(t) /\ 2 \in 1 .. Len(t)
      BY <1>1
    <3> QED
      BY <3>1, ElementOfSeq
  <2>2. s \in Seq(S) /\ Len(s) = 2 /\ s[1] = t[1] /\ s[2] = t[2]
    BY <2>1
  <2> HIDE DEF s
  <2>3. \A i \in 1 .. Len(s) : s[i] = t[i]
    BY <2>2
  <2>4. s = t
    BY <1>1, <2>2, <2>3, SeqEqual
  <2> QED
    BY <2>4 DEF s
<1>2. ASSUME Len(t) = 3 PROVE t = <<t[1], t[2], t[3]>>
  <2> DEFINE s == <<t[1], t[2], t[3]>>
  <2>1. t[1] \in S /\ t[2] \in S /\ t[3] \in S
    <3>1. 1 \in 1 .. Len(t) /\ 2 \in 1 .. Len(t) /\ 3 \in 1 .. Len(t)
      BY <1>2
    <3> QED
      BY <3>1, ElementOfSeq
  <2>2. s \in Seq(S) /\ Len(s) = 3 /\ s[1] = t[1] /\ s[2] = t[2] /\ s[3] = t[3]
    BY <2>1
  <2> HIDE DEF s
  <2>3. \A i \in 1 .. Len(s) : s[i] = t[i]
    BY <2>2
  <2>4. s = t
    BY <1>2, <2>2, <2>3, SeqEqual
  <2> QED
    BY <2>4 DEF s
<1> QED
  BY <1>1, <1>2

(* How directives are spelled                                              *)
LEMMA Spelling ==
  ASSUME NEW p, IsPiece(p), ~IsText(p.text)
  PROVE  \/ \E c : p.text = <<"%", c>> /\ c # "l"
         \/ \E c : p.text = <<"%", "l", c>>
<1> DEFINE t == p.text
<1>1. t \in Seq(Alphabet) /\ (IsPercent(t) \/ \E a \in Values : Takes(t, a))
  BY PieceArgs
<1> HIDE DEF t
<1>2. Len(t) = 2 => t = <<t[1], t[2]>>
  BY <1>1, TwoAndThree
<1>3. Len(t) = 3 => t = <<t[1], t[2], t[3]>>
  BY <1>1, TwoAndThree
<1>4. ASSUME IsPercent(t)
      PROVE  \/ \E c : t = <<"%", c>> /\ c # "l"
             \/ \E c : t = <<"%", "l", c>>
  <2>1. ASSUME NEW x, NEW y, NEW z, t = <<x, y, z>>, x = "%", y = "l"
        PROVE  \E c : t = <<"%", "l", c>>
    BY <2>1
  <2>2. ASSUME NEW x, NEW y, t = <<x, y>>, x = "%", y \notin Known
        PROVE  \E c : t = <<"%", c>> /\ c # "l"
    BY <2>2 DEF Known
  <2>3. CASE t = <<"%", "%">>
    <3>1. "%" # "l"
      OBVIOUS
    <3>2. \E c : t = <<"%", c>> /\ c # "l"
      BY <2>3, <3>1, Zenon
    <3> QED
      BY <3>2, Zenon
  <2>4. CASE Len(t) = 2 /\ t[1] = "%" /\ t[2] \notin Known
    <3>1. \E c : t = <<"%", c>> /\ c # "l"
      BY <1>2, <2>2, <2>4
    <3> QED
      BY <3>1, Zenon
  <2>5. CASE Len(t) = 3 /\ t[1] = "%" /\ t[2] = "l"
    <3>1. \E c : t = <<"%", "l", c>>
      BY <1>3, <2>1, <2>5
    <3> QED
      BY <3>1, Zenon
  <2> QED
    BY <1>4, <2>3, <2>4, <2>5 DEF IsPercent
<1>5. ASSUME NEW a \in Values, Takes(t, a)
      PROVE  \/ \E c : t = <<"%", c>> /\ c # "l"
             \/ \E c : t = <<"%", "l", c>>
  BY <1>5 DEF Takes
<1> QED
  BY <1>1, <1>4, <1>5 DEF t

(* What a directive reads like in memory                                   *)
LEMMA DirectsReads ==
  ASSUME NEW ps, NEW f, NEW said, NEW p, Directs(ps, f, said, p)
  PROVE  /\ f.text[f.at + 0] = "%" /\ f.text[f.at + 1] = p.text[2]
         /\ Len(p.text) = 3 => f.text[f.at + 2] = p.text[3]
<1> DEFINE t == p.text
           m == f.text
           at == f.at
<1>1. (\E c : t = <<"%", c>>) \/ \E c : t = <<"%", "l", c>>
  BY Spelling DEF Directs
<1>2. \A i \in 1 .. Len(t) : m[at + (i - 1)] = t[i]
  BY DEF Directs, Spelled
<1> HIDE DEF t, m, at
<1>3. 1 \in 1 .. Len(t) /\ 2 \in 1 .. Len(t) /\ t[1] = "%" /\ (Len(t) = 3 => 3 \in 1 .. Len(t))
  <2>1. t[1] = "%" /\ Len(t) \in {2, 3}
    BY <1>1
  <2>2. 1 \in 1 .. Len(t) /\ 2 \in 1 .. Len(t) /\ (Len(t) = 3 => 3 \in 1 .. Len(t))
    BY <2>1
  <2> QED
    BY <2>1, <2>2
<1>4. m[at + 0] = t[1]
  BY <1>2, <1>3
<1>5. m[at + 1] = t[2]
  BY <1>2, <1>3
<1>6. Len(t) = 3 => m[at + 2] = t[3]
  BY <1>2, <1>3
<1> QED
  BY <1>3, <1>4, <1>5, <1>6 DEF t, m, at

-----------------------------------------------------------------------------
(* The innermost call *)

(* At most one call is below the innermost.                                *)
Low(low) == low = <<>> \/ \E f : low = <<f>>

Over(f, low) == <<f>> \o low

IsFrame(f) == f = [text |-> f.text, at |-> f.at, args |-> f.args]

(* One in front of another                                                 *)
LEMMA Pair ==
  ASSUME NEW x, NEW y
  PROVE  <<x>> \o <<y>> = <<x, y>> /\ Tail(<<x, y>>) = <<y>>
<1> DEFINE S == {x, y}
           u == <<x>>
           v == <<y>>
           w == <<x, y>>
           r == Tail(w)
<1>1. x \in S /\ y \in S
  OBVIOUS
<1> HIDE DEF S
<1>2. /\ u \in Seq(S) /\ v \in Seq(S) /\ w \in Seq(S) /\ Len(u) = 1 /\ Len(v) = 1 /\ Len(w) = 2
      /\ u[1] = x /\ v[1] = y /\ w[1] = x /\ w[2] = y
  BY <1>1
<1>3. u \o v = w
  <2> DEFINE z == u \o v
  <2> HIDE DEF u, v, w
  <2>1. z \in Seq(S) /\ Len(z) = 2 /\ z[1] = x /\ z[2] = y
    BY <1>2, ConcatProperties
  <2> HIDE DEF z
  <2>2. \A i \in 1 .. Len(z) : z[i] = w[i]
    BY <1>2, <2>1
  <2>3. z = w
    BY <1>2, <2>1, <2>2, SeqEqual
  <2> QED
    BY <2>3 DEF z
<1>4. r = v
  <2> HIDE DEF v, w
  <2>1. r \in Seq(S) /\ Len(r) = 1 /\ r[1] = y
    BY <1>2
  <2> HIDE DEF r
  <2>2. \A i \in 1 .. Len(r) : r[i] = v[i]
    BY <1>2, <2>1
  <2> QED
    BY <1>2, <2>1, <2>2, SeqEqual
<1> QED
  BY <1>3, <1>4 DEF u, v, w, r

(* The innermost call can be replaced and removed.                         *)
LEMMA OverFacts ==
  ASSUME NEW f, NEW low, Low(low), NEW g
  PROVE  /\ Over(f, low) # <<>> /\ Over(f, low)[1] = f /\ Tail(Over(f, low)) = low
         /\ [Over(f, low) EXCEPT ![1] = g] = Over(g, low)
<1>1. CASE low = <<>>
  <2> DEFINE S == {f, g}
             s == <<f>>
             t == <<g>>
  <2>1. f \in S /\ g \in S
    OBVIOUS
  <2> HIDE DEF S
  <2>2. s \in Seq(S) /\ t \in Seq(S) /\ Len(s) = 1 /\ s[1] = f /\ Tail(s) = <<>> /\ s # <<>>
        /\ [s EXCEPT ![1] = g] = t
    BY <2>1
  <2> HIDE DEF s, t
  <2>3. s \o <<>> = s /\ t \o <<>> = t
    BY <2>2, ConcatEmptySeq
  <2> QED
    BY <1>1, <2>2, <2>3 DEF Over, s, t
<1>2. ASSUME NEW h, low = <<h>>
      PROVE  /\ Over(f, low) # <<>> /\ Over(f, low)[1] = f /\ Tail(Over(f, low)) = low
             /\ [Over(f, low) EXCEPT ![1] = g] = Over(g, low)
  <2>1. Over(f, low) = <<f, h>> /\ Over(g, low) = <<g, h>>
    BY <1>2, Pair DEF Over
  <2>2. Tail(<<f, h>>) = <<h>>
    BY Pair
  <2>3. /\ <<f, h>> # <<>> /\ <<f, h>>[1] = f
        /\ [<<f, h>> EXCEPT ![1] = g] = <<g, h>>
    OBVIOUS
  <2> QED
    BY <1>2, <2>1, <2>2, <2>3
<1> QED
  BY <1>1, <1>2 DEF Low

(* What the scan does with the innermost call                              *)
LEMMA TopFacts ==
  ASSUME NEW f, IsFrame(f), NEW low, Low(low), stack = Over(f, low)
  PROVE  /\ stack # <<>> /\ Tail(stack) = low /\ Arg = Head(f.args)
         /\ \A k : Char(k) = f.text[f.at + k]
         /\ \A k, n : Moved(k, n) = Over(Onward(f, k, n), low)
<1>1. stack # <<>> /\ stack[1] = f /\ Tail(stack) = low
  BY OverFacts
<1>2. ASSUME NEW k, NEW n PROVE Moved(k, n) = Over(Onward(f, k, n), low)
  <2> DEFINE x == f.text
             y == f.at
             z == f.args
             s == SubSeq(z, n + 1, Len(z))
             g == [f EXCEPT !.at = y + k]
             h == [g EXCEPT !.args = s]
  <2>1. f = [text |-> x, at |-> y, args |-> z]
    BY DEF IsFrame
  <2>2. g.args = z
    <3> HIDE DEF x, y, z
    <3> QED
      BY <2>1
  <2>3. Onward(f, k, n) = h
    BY <2>2 DEF Onward
  <2>4. [stack EXCEPT ![1] = g] = Over(g, low) /\ Over(g, low)[1] = g
    <3> HIDE DEF g
    <3> QED
      BY OverFacts
  <2>5. [Over(g, low) EXCEPT ![1] = h] = Over(h, low)
    <3> HIDE DEF g, h
    <3> QED
      BY OverFacts
  <2>6. Moved(k, n) = [[stack EXCEPT ![1] = g] EXCEPT ![1] = h]
    BY <1>1, <2>2, <2>4 DEF Moved
  <2> HIDE DEF g, h
  <2> QED
    BY <2>3, <2>4, <2>5, <2>6
<1> QED
  BY <1>1, <1>2 DEF Arg, Char

(* What the digit loop is going to print                                   *)
Converts(r) ==
  \/ number = <<>> /\ r = <<>>
  \/ number # <<>> /\ \E v : Converting(v) /\ r = Numeral(v, number.base, number.table)

(* What is going to be printed before the scan goes on                     *)
ToPrint(new) == \E r \in Seq(Chars) : new = pending \o r /\ Converts(r)

(* The innermost call goes on, and what it is asked for next is going to   *)
(* be printed.                                                             *)
Advances(ps, low, said) ==
  \E g, new : /\ new \in Seq(Chars) /\ pending' \in Seq(Chars)
              /\ stack' = Over(g, low) /\ Runs(ps, g, said \o new)
              /\ ToPrint(new)'
              /\ UNCHANGED <<program, panicking, pieces, put>>

(* A directive that prints its characters                                  *)
LEMMA EmitAdvances ==
  ASSUME NEW ps, NEW f, IsFrame(f), NEW low, Low(low), stack = Over(f, low), NEW said, number = <<>>,
         NEW chars \in Seq(Chars), NEW k, NEW n, Emit(chars, k, n),
         Runs(ps, Onward(f, k, n), said \o chars)
  PROVE  Advances(ps, low, said)
<1> DEFINE g == Onward(f, k, n)
<1>1. Moved(k, n) = Over(g, low)
  BY TopFacts
<1>2. /\ pending' = chars /\ number' = <<>> /\ stack' = Over(g, low)
      /\ UNCHANGED <<program, panicking, pieces, put>>
  BY <1>1 DEF Emit
<1>3. chars = chars \o <<>> /\ <<>> \in Seq(Chars)
  BY ConcatEmptySeq
<1>4. ToPrint(chars)'
  BY <1>2, <1>3 DEF ToPrint, Converts
<1> HIDE DEF g
<1>5. Runs(ps, g, said \o chars)
  BY DEF g
<1> QED
  BY <1>2, <1>4, <1>5 DEF Advances

(* A directive that prints a numeral                                       *)
LEMMA ConvertAdvances ==
  ASSUME NEW ps, NEW f, IsFrame(f), NEW low, Low(low), stack = Over(f, low), NEW said,
         NEW sign \in Seq(Chars), NEW v \in Nat, NEW base \in Bases, NEW table \in {Lower, Upper},
         NEW room \in {IntRoom, LongRoom}, v < Power(base, room[base]), NEW k,
         Convert(sign, v, base, table, room, k),
         NEW meaning, meaning = sign \o Numeral(v, base, table),
         Runs(ps, Onward(f, k, 1), said \o meaning)
  PROVE  Advances(ps, low, said)
<1> DEFINE g == Onward(f, k, 1)
           r == Numeral(v, base, table)
<1>1. Moved(k, 1) = Over(g, low)
  BY TopFacts
<1>2. /\ pending' = sign /\ stack' = Over(g, low)
      /\ number' = [v |-> v, base |-> base, table |-> table, room |-> room[base], buf |-> <<>>]
      /\ UNCHANGED <<program, panicking, pieces, put>>
  BY <1>1 DEF Convert
<1>3. room[base] \in {IntRoom[base], LongRoom[base]}
  OBVIOUS
<1>4. room[base] \in Nat \ {0} /\ Power(base, 0) = 1
  BY <1>3, RoomFacts
<1>5. r \in Seq(Chars)
  <2> DEFINE p == Power(base, room[base])
             l == Power(base, LongRoom[base])
  <2>1. p \in Nat /\ l \in Nat /\ p <= l /\ v < p
    BY <1>3, PowerType, RoomsOrdered
  <2> HIDE DEF p, l
  <2>2. v < l
    BY <2>1
  <2> QED
    BY <2>2, NumeralType DEF l
<1>6. Converting(v)'
  <2>1. /\ number'.base = base /\ number'.room = room[base] /\ number'.v = v
        /\ number'.buf = <<>> /\ Len(<<>>) = 0
    BY <1>2
  <2>2. v \div 1 = v
    OBVIOUS
  <2> QED
    BY <1>4, <2>1, <2>2 DEF Converting
<1>7. number' # <<>> /\ number'.base = base /\ number'.table = table
  BY <1>2
<1> HIDE DEF g, r
<1>8. Converts(r)'
  <2>1. \E w : Converting(w)' /\ r = Numeral(w, base, table)
    BY <1>6 DEF r
  <2> QED
    BY <1>7, <2>1 DEF Converts
<1>9. meaning \in Seq(Chars) /\ meaning = sign \o r
  <2>1. meaning = sign \o r
    BY DEF r
  <2> QED
    BY <1>5, <2>1, ConcatProperties
<1>10. ToPrint(meaning)'
  BY <1>2, <1>5, <1>8, <1>9 DEF ToPrint
<1>11. Runs(ps, g, said \o meaning)
  BY DEF g
<1> QED
  BY <1>2, <1>9, <1>10, <1>11 DEF Advances

(* The innermost call and what it was asked for so far                     *)
Inner(ps, f, low, said) ==
  /\ WellWritten(ps) /\ Runs(ps, f, said)
  /\ Low(low) /\ stack = Over(f, low)

(* What the scan reads belongs to the innermost call.                      *)
LEMMA InnerFacts ==
  ASSUME NEW ps, NEW f, NEW low, NEW said, Inner(ps, f, low, said)
  PROVE  /\ IsFrame(f) /\ Low(low) /\ stack = Over(f, low)
         /\ stack # <<>> /\ Tail(stack) = low /\ Arg = Head(f.args)
         /\ Char(0) = f.text[f.at] /\ \A k : Char(k) = f.text[f.at + k]
<1>1. WellWritten(ps) /\ Runs(ps, f, said) /\ Low(low) /\ stack = Over(f, low)
  BY DEF Inner
<1>2. IsFrame(f)
  <2>1. PICK b \in Seq(Chars) : f = [text |-> Memory(ps, b), at |-> f.at, args |-> f.args]
    BY <1>1 DEF Runs
  <2> QED
    BY <2>1 DEF IsFrame
<1>3. f.at \in Nat
  BY <1>1, PlaceNat DEF Runs
<1>4. f.at + 0 = f.at
  BY <1>3
<1>5. \A k : Char(k) = f.text[f.at + k]
  BY <1>1, <1>2, TopFacts
<1>6. stack # <<>> /\ Tail(stack) = low /\ Arg = Head(f.args)
  BY <1>1, <1>2, TopFacts
<1>7. Char(0) = f.text[f.at]
  BY <1>4, <1>5
<1> QED
  BY <1>1, <1>2, <1>5, <1>6, <1>7

(* At the terminator everything was asked for.                             *)
LEMMA AtTerminator ==
  ASSUME NEW ps, NEW f, NEW low, NEW said, Inner(ps, f, low, said), Char(0) = NUL
  PROVE  f.args = <<>> /\ said = Whole(ps)
<1>1. WellWritten(ps) /\ Runs(ps, f, said)
  BY DEF Inner
<1>2. f.text[f.at] = NUL
  BY InnerFacts
<1>3. NUL \notin Alphabet /\ "%" \in Alphabet
  BY ProgramsAssumption DEF Known
<1>4. ASSUME NEW p, Directs(ps, f, said, p) PROVE f.text[f.at] = "%"
  <2>1. f.text[f.at + 0] = "%"
    BY <1>4, DirectsReads
  <2>2. f.at \in Nat
    BY <1>1, PlaceNat DEF Runs
  <2>3. f.at + 0 = f.at
    BY <2>2
  <2> QED
    BY <2>1, <2>3
<1> QED
  BY <1>1, <1>2, <1>3, <1>4, FrameMoves

(* Elsewhere what is no percent sign is text.                              *)
LEMMA AtLiteral ==
  ASSUME NEW ps, NEW f, NEW low, NEW said, Inner(ps, f, low, said), Char(0) \notin {"%", NUL}
  PROVE  Char(0) \in Alphabet /\ Runs(ps, Onward(f, 1, 0), said \o <<Char(0)>>)
<1>1. WellWritten(ps) /\ Runs(ps, f, said)
  BY DEF Inner
<1>2. Char(0) = f.text[f.at] /\ Char(0) = f.text[f.at + 0]
  BY InnerFacts
<1>3. ASSUME NEW p, Directs(ps, f, said, p) PROVE Char(0) = "%"
  BY <1>2, <1>3, DirectsReads
<1> QED
  BY <1>1, <1>2, <1>3, FrameMoves

(* And a percent sign begins a piece that is none.                         *)
LEMMA AtDirective ==
  ASSUME NEW ps, NEW f, NEW low, NEW said, Inner(ps, f, low, said), Char(0) = "%"
  PROVE  \E p : /\ Directs(ps, f, said, p)
                /\ \/ p.text = <<"%", Char(1)>> /\ Char(1) # "l"
                   \/ p.text = <<"%", "l", Char(2)>> /\ Char(1) = "l"
<1>1. WellWritten(ps) /\ Runs(ps, f, said)
  BY DEF Inner
<1>2. Char(0) = f.text[f.at] /\ Char(1) = f.text[f.at + 1] /\ Char(2) = f.text[f.at + 2]
  BY InnerFacts
<1>3. NUL # "%"
  BY ProgramsAssumption DEF Known
<1>4. PICK p : Directs(ps, f, said, p)
  BY <1>1, <1>2, <1>3, FrameMoves
<1>5. Char(1) = p.text[2] /\ (Len(p.text) = 3 => Char(2) = p.text[3])
  BY <1>2, <1>4, DirectsReads
<1>6. \/ \E c : p.text = <<"%", c>> /\ c # "l"
      \/ \E c : p.text = <<"%", "l", c>>
  BY <1>4, Spelling DEF Directs
<1>7. ASSUME NEW c, p.text = <<"%", c>>, c # "l"
      PROVE  p.text = <<"%", Char(1)>> /\ Char(1) # "l"
  BY <1>5, <1>7
<1>8. ASSUME NEW c, p.text = <<"%", "l", c>>
      PROVE  p.text = <<"%", "l", Char(2)>> /\ Char(1) = "l"
  BY <1>5, <1>8
<1> QED
  BY <1>4, <1>6, <1>7, <1>8

(* Directives that take an argument, and what only looks like one          *)
LEMMA Readings ==
  ASSUME NEW p, IsPiece(p), ~IsText(p.text), NEW c
  PROVE  /\ p.text = <<"%", c>> /\ c \notin Known \ {"%"} => p.args = <<>>
         /\ p.text = <<"%", "l", c>> /\ c \notin {"u", "x", "d"} => p.args = <<>>
         /\ p.text = <<"%", c>> /\ c \in Known \ {"%", "l"} =>
              \E a : p.args = <<a>> /\ Takes(p.text, a)
         /\ p.text = <<"%", "l", c>> /\ c \in {"u", "x", "d"} =>
              \E a : p.args = <<a>> /\ Takes(p.text, a)
<1>1. (p.args = <<>> /\ IsPercent(p.text)) \/ \E a : p.args = <<a>> /\ Takes(p.text, a)
  BY PieceArgs
<1>2. ASSUME NEW a, Takes(p.text, a)
      PROVE  /\ ~(p.text = <<"%", c>> /\ c \notin Known \ {"%"})
             /\ ~(p.text = <<"%", "l", c>> /\ c \notin {"u", "x", "d"})
  BY <1>2 DEF Takes, Known
<1>3. ASSUME IsPercent(p.text)
      PROVE  /\ ~(p.text = <<"%", c>> /\ c \in Known \ {"%", "l"})
             /\ ~(p.text = <<"%", "l", c>> /\ c \in {"u", "x", "d"})
  BY <1>3 DEF IsPercent, Known
<1> QED
  BY <1>1, <1>2, <1>3

(* Numbers of a word are below what its buffers hold.                      *)
LEMMA WordRooms ==
  ASSUME NEW base \in Bases
  PROVE  /\ \A v \in Nat : v < IntWord => v < Power(base, IntRoom[base])
         /\ \A v \in Nat : v < LongWord => v < Power(base, LongRoom[base])
<1>1. /\ IntWord \in Nat /\ LongWord \in Nat
      /\ IntWord <= Power(base, IntRoom[base]) /\ LongWord <= Power(base, LongRoom[base])
  BY KprintfAssumption DEF Bases, Room
<1>2. Power(base, IntRoom[base]) \in Nat /\ Power(base, LongRoom[base]) \in Nat
  BY PowerType
<1> QED
  BY <1>1, <1>2

(* An unsigned directive goes on with its numeral.                         *)
LEMMA UnsignedAdvances ==
  ASSUME NEW ps, NEW f, NEW low, NEW said, Inner(ps, f, low, said),
         NEW p, Directs(ps, f, said, p), NEW a, p.args = <<a>>,
         NEW base \in Bases, NEW table \in {Lower, Upper}, NEW k, Len(p.text) = k,
         Meaning(p) = Numeral(a, base, table),
         \/ Unsigned(IntWord, base, table, IntRoom, k)
         \/ Unsigned(LongWord, base, table, LongRoom, k)
  PROVE  Advances(ps, low, said)
<1> DEFINE m == Meaning(p)
<1>1. IsFrame(f) /\ Low(low) /\ stack = Over(f, low) /\ Arg = a
  BY InnerFacts DEF Directs
<1>2. Runs(ps, Onward(f, k, 1), said \o m)
  <2>1. Runs(ps, Onward(f, Len(p.text), Len(p.args)), said \o m) /\ Len(p.args) = 1
    BY DEF Directs
  <2> QED
    BY <2>1
<1>3. m = <<>> \o Numeral(a, base, table) /\ <<>> \in Seq(Chars)
  <2>1. m \in Seq(Chars)
    BY MeaningType DEF Directs
  <2> HIDE DEF m
  <2>2. m = <<>> \o m /\ <<>> \in Seq(Chars)
    BY <2>1
  <2> QED
    BY <2>2 DEF m
<1> HIDE DEF m
<1>4. ASSUME NEW word, NEW room \in {IntRoom, LongRoom}, Unsigned(word, base, table, room, k),
             word \in Nat \ {0}, \A v \in Nat : v < word => v < Power(base, room[base])
      PROVE  Advances(ps, low, said)
  <2>1. a \in UnsignedValues(word) /\ Convert(<<>>, a, base, table, room, k)
    BY <1>1, <1>4 DEF Unsigned
  <2>2. a \in Nat /\ a < word
    BY <1>4, <2>1 DEF UnsignedValues
  <2>3. a < Power(base, room[base])
    BY <1>4, <2>2
  <2> QED
    BY <1>1, <1>2, <1>3, <2>1, <2>2, <2>3, ConvertAdvances
<1> QED
  BY <1>4, WordRooms, WordsFit

(* So does a signed one, with its sign.                                    *)
LEMMA SignedAdvances ==
  ASSUME NEW ps, NEW f, NEW low, NEW said, Inner(ps, f, low, said),
         NEW p, Directs(ps, f, said, p), NEW a, p.args = <<a>>, NEW k, Len(p.text) = k,
         Meaning(p) = IF a < 0 THEN <<"-">> \o Numeral(-a, 10, Lower) ELSE Numeral(a, 10, Lower),
         Signed(IntWord, IntRoom, k) \/ Signed(LongWord, LongRoom, k)
  PROVE  Advances(ps, low, said)
<1> DEFINE m == Meaning(p)
<1>1. IsFrame(f) /\ Low(low) /\ stack = Over(f, low) /\ Arg = a
  BY InnerFacts DEF Directs
<1>2. Runs(ps, Onward(f, k, 1), said \o m)
  <2>1. Runs(ps, Onward(f, Len(p.text), Len(p.args)), said \o m) /\ Len(p.args) = 1
    BY DEF Directs
  <2> QED
    BY <2>1
<1>3. m \in Seq(Chars)
  BY MeaningType DEF Directs
<1>4. m = IF a < 0 THEN <<"-">> \o Numeral(-a, 10, Lower) ELSE Numeral(a, 10, Lower)
  OBVIOUS
<1> HIDE DEF m
<1>5. <<"-">> \in Seq(Chars) /\ <<>> \in Seq(Chars)
  <2>1. "-" \in Chars
    BY ProgramsAssumption DEF Chars
  <2> QED
    BY <2>1
<1>6. ASSUME NEW word \in {IntWord, LongWord}, NEW room \in {IntRoom, LongRoom}, Signed(word, room, k),
             \A v \in Nat : v < word => v < Power(10, room[10])
      PROVE  Advances(ps, low, said)
  <2> DEFINE sign == IF a < 0 THEN <<"-">> ELSE <<>>
             v == Magnitude(a, word)
  <2>1. a \in SignedValues(word) /\ Convert(sign, v, 10, Lower, room, k)
    BY <1>1, <1>6 DEF Signed
  <2>2. a \in Int /\ v \in Nat /\ v < word /\ v = IF a < 0 THEN -a ELSE a
    BY <2>1, SignedFit
  <2>3. v < Power(10, room[10])
    BY <1>6, <2>2
  <2>4. sign \in Seq(Chars)
    BY <1>5
  <2>5. m = sign \o Numeral(v, 10, Lower)
    <3>1. <<>> \o m = m
      BY <1>3
    <3> HIDE DEF v
    <3>2. CASE a < 0
      BY <1>4, <2>2, <3>2
    <3>3. CASE ~(a < 0)
      <4>1. m = Numeral(v, 10, Lower)
        BY <1>4, <2>2, <3>3
      <4>2. sign = <<>>
        BY <3>3
      <4> HIDE DEF sign
      <4> QED
        BY <3>1, <4>1, <4>2
    <3> QED
      BY <3>2, <3>3
  <2> HIDE DEF sign, v
  <2> QED
    BY <1>1, <1>2, <2>1, <2>2, <2>3, <2>4, <2>5, ConvertAdvances DEF Bases
<1> QED
  BY <1>6, WordRooms DEF Bases

(* Other directives print their characters.                                *)
LEMMA PrintAdvances ==
  ASSUME NEW ps, NEW f, NEW low, NEW said, Inner(ps, f, low, said), number = <<>>,
         NEW p, Directs(ps, f, said, p), NEW k, Len(p.text) = k, NEW n, Len(p.args) = n,
         Emit(Meaning(p), k, n)
  PROVE  Advances(ps, low, said)
<1> DEFINE m == Meaning(p)
<1>1. IsFrame(f) /\ Low(low) /\ stack = Over(f, low)
  BY InnerFacts
<1>2. Runs(ps, Onward(f, k, n), said \o m)
  BY DEF Directs
<1>3. m \in Seq(Chars)
  BY MeaningType DEF Directs
<1>4. Emit(m, k, n)
  OBVIOUS
<1> HIDE DEF m
<1> QED
  BY <1>1, <1>2, <1>3, <1>4, EmitAdvances

(* A character of a text                                                   *)
LEMMA LiteralAdvances ==
  ASSUME NEW ps, NEW f, NEW low, NEW said, Inner(ps, f, low, said), Literal
  PROVE  Advances(ps, low, said)
<1> DEFINE c == Char(0)
           chars == <<Char(0)>>
<1>1. number = <<>> /\ c \notin {"%", NUL} /\ Emit(chars, 1, 0)
  BY DEF Literal, Scanning
<1>2. c \in Alphabet /\ Runs(ps, Onward(f, 1, 0), said \o chars)
  BY <1>1, AtLiteral
<1>3. IsFrame(f) /\ Low(low) /\ stack = Over(f, low)
  BY InnerFacts
<1>4. chars \in Seq(Chars)
  <2> HIDE DEF c
  <2>1. c \in Chars
    BY <1>2 DEF Chars
  <2>2. <<c>> \in Seq(Chars)
    BY <2>1
  <2> QED
    BY <2>2 DEF c
<1> HIDE DEF c, chars
<1> QED
  BY <1>1, <1>2, <1>3, <1>4, EmitAdvances

(* Directives of two characters                                            *)
LEMMA ShortAdvances ==
  ASSUME NEW ps, NEW f, NEW low, NEW said, Inner(ps, f, low, said),
         Percent \/ Character \/ String \/ Decimal \/ UnsignedDecimal \/ Hex \/ UpperHex \/ Unknown
  PROVE  Advances(ps, low, said)
<1> DEFINE c == Char(1)
<1>1. number = <<>> /\ Char(0) = "%"
  BY DEF Percent, Character, String, Decimal, UnsignedDecimal, Hex, UpperHex, Unknown,
         Directive, Scanning
<1>2. PICK p : /\ Directs(ps, f, said, p)
               /\ \/ p.text = <<"%", Char(1)>> /\ Char(1) # "l"
                  \/ p.text = <<"%", "l", Char(2)>> /\ Char(1) = "l"
  BY <1>1, AtDirective
<1>3. c # "l"
  BY DEF Percent, Character, String, Decimal, UnsignedDecimal, Hex, UpperHex, Unknown,
         Directive, Known
<1>4. p.text = <<"%", c>> /\ Len(p.text) = 2 /\ IsPiece(p) /\ ~IsText(p.text)
  BY <1>2, <1>3 DEF Directs
<1>5. Arg = Head(f.args) /\ (p.args # <<>> => Arg = p.args[1])
  BY <1>2, InnerFacts DEF Directs
<1> HIDE DEF c
<1>6. p.text \in Seq(Alphabet)
  BY <1>4, PieceArgs
<1>7. ASSUME c \in Known \ {"%", "l"} PROVE \E a : p.args = <<a>> /\ Takes(p.text, a)
  BY <1>4, <1>7, Readings
<1>8. CASE Percent \/ Unknown
  <2>1. c \notin Known \ {"%"}
    BY <1>8 DEF Percent, Unknown, Directive, c
  <2>2. p.args = <<>>
    BY <1>4, <2>1, Readings
  <2>3. IsPercent(p.text)
    BY <1>4, <2>2, PieceArgs
  <2>4. Meaning(p) = IF p.text = <<"%", "%">> THEN <<"%">> ELSE p.text
    BY <1>6, <2>3, PlainMeaning
  <2>5. Len(p.args) = 0
    BY <2>2
  <2>6. CASE Percent
    <3>1. Emit(<<"%">>, 2, 0) /\ c = "%"
      BY <2>6 DEF Percent, Directive, c
    <3>2. Meaning(p) = <<"%">>
      BY <1>4, <2>4, <3>1
    <3> QED
      BY <1>1, <1>2, <1>4, <2>5, <3>1, <3>2, PrintAdvances
  <2>7. CASE Unknown
    <3>1. Emit(<<"%", c>>, 2, 0) /\ c # "%"
      BY <2>7 DEF Unknown, c, Known
    <3>2. Meaning(p) = <<"%", c>>
      BY <1>4, <2>4, <3>1
    <3> QED
      BY <1>1, <1>2, <1>4, <2>5, <3>1, <3>2, PrintAdvances
  <2> QED
    BY <1>8, <2>6, <2>7
<1>9. CASE Character \/ String
  <2>1. c \in Known \ {"%", "l"}
    BY <1>9 DEF Character, String, Directive, Known, c
  <2>2. PICK a : p.args = <<a>> /\ Takes(p.text, a)
    BY <1>7, <2>1
  <2>3. Len(p.args) = 1 /\ Arg = a
    BY <1>5, <2>2
  <2>4. CASE Character
    <3>1. Emit(<<CharOf[a % CharWord]>>, 2, 1) /\ c = "c"
      BY <2>3, <2>4 DEF Character, Directive, c
    <3>2. Meaning(p) = <<CharOf[a % CharWord]>>
      BY <1>4, <2>2, <3>1, DirectiveMeaning
    <3> QED
      BY <1>1, <1>2, <1>4, <2>3, <3>1, <3>2, PrintAdvances
  <2>5. CASE String
    <3>1. Emit(a, 2, 1) /\ c = "s"
      BY <2>3, <2>5 DEF String, Directive, c
    <3>2. Meaning(p) = a
      BY <1>4, <2>2, <3>1, DirectiveMeaning
    <3> QED
      BY <1>1, <1>2, <1>4, <2>3, <3>1, <3>2, PrintAdvances
  <2> QED
    BY <1>9, <2>4, <2>5
<1>10. CASE Decimal
  <2>1. c \in {"d", "i"} /\ Signed(IntWord, IntRoom, 2)
    BY <1>10 DEF Decimal, Directive, c
  <2>2. PICK a : p.args = <<a>> /\ Takes(p.text, a)
    BY <1>7, <2>1 DEF Known
  <2>3. Meaning(p) = IF a < 0 THEN <<"-">> \o Numeral(-a, 10, Lower) ELSE Numeral(a, 10, Lower)
    BY <1>4, <2>1, <2>2, DirectiveMeaning
  <2> QED
    BY <1>2, <1>4, <2>1, <2>2, <2>3, SignedAdvances
<1>11. ASSUME NEW base \in Bases, NEW table \in {Lower, Upper}, Unsigned(IntWord, base, table, IntRoom, 2),
              \/ c = "u" /\ base = 10 /\ table = Lower
              \/ c = "x" /\ base = 16 /\ table = Lower
              \/ c = "X" /\ base = 16 /\ table = Upper
       PROVE  Advances(ps, low, said)
  <2>1. c \in Known \ {"%", "l"}
    BY <1>11 DEF Known
  <2>2. PICK a : p.args = <<a>> /\ Takes(p.text, a)
    BY <1>7, <2>1
  <2>3. Meaning(p) = Numeral(a, base, table)
    <3>1. CASE c = "u" /\ base = 10 /\ table = Lower
      BY <1>4, <2>2, <3>1, DirectiveMeaning
    <3>2. CASE c = "x" /\ base = 16 /\ table = Lower
      BY <1>4, <2>2, <3>2, DirectiveMeaning
    <3>3. CASE c = "X" /\ base = 16 /\ table = Upper
      BY <1>4, <2>2, <3>3, DirectiveMeaning
    <3> QED
      BY <1>11, <3>1, <3>2, <3>3
  <2> QED
    BY <1>2, <1>4, <1>11, <2>2, <2>3, UnsignedAdvances
<1>12. CASE UnsignedDecimal \/ Hex \/ UpperHex
  <2>1. CASE UnsignedDecimal
    BY <1>11, <2>1 DEF UnsignedDecimal, Directive, c, Bases
  <2>2. CASE Hex
    BY <1>11, <2>2 DEF Hex, Directive, c, Bases
  <2>3. CASE UpperHex
    BY <1>11, <2>3 DEF UpperHex, Directive, c, Bases
  <2> QED
    BY <1>12, <2>1, <2>2, <2>3
<1> QED
  BY <1>8, <1>9, <1>10, <1>12

(* Directives of three characters                                          *)
LEMMA LongAdvances ==
  ASSUME NEW ps, NEW f, NEW low, NEW said, Inner(ps, f, low, said),
         LongUnsigned \/ LongHex \/ LongDecimal \/ LongUnknown
  PROVE  Advances(ps, low, said)
<1> DEFINE c == Char(2)
<1>1. number = <<>> /\ Char(0) = "%" /\ Char(1) = "l"
  BY DEF LongUnsigned, LongHex, LongDecimal, LongUnknown, LongDirective, Directive, Scanning
<1>2. PICK p : /\ Directs(ps, f, said, p)
               /\ \/ p.text = <<"%", Char(1)>> /\ Char(1) # "l"
                  \/ p.text = <<"%", "l", Char(2)>> /\ Char(1) = "l"
  BY <1>1, AtDirective
<1>3. p.text = <<"%", "l", c>> /\ Len(p.text) = 3 /\ IsPiece(p) /\ ~IsText(p.text)
  BY <1>1, <1>2 DEF Directs
<1> HIDE DEF c
<1>4. p.text \in Seq(Alphabet)
  BY <1>3, PieceArgs
<1>5. ASSUME c \in {"u", "x", "d"} PROVE \E a : p.args = <<a>> /\ Takes(p.text, a)
  BY <1>3, <1>5, Readings
<1>6. CASE LongUnknown
  <2>1. c \notin {"u", "x", "d"} /\ Emit(<<"%", "l", c>>, 3, 0)
    BY <1>6 DEF LongUnknown, c
  <2>2. p.args = <<>>
    BY <1>3, <2>1, Readings
  <2>3. IsPercent(p.text)
    BY <1>3, <2>2, PieceArgs
  <2>4. Meaning(p) = IF p.text = <<"%", "%">> THEN <<"%">> ELSE p.text
    BY <1>4, <2>3, PlainMeaning
  <2>5. Meaning(p) = <<"%", "l", c>>
    <3>1. <<"%", "l", c>> # <<"%", "%">>
      OBVIOUS
    <3> QED
      BY <1>3, <2>4, <3>1
  <2>6. Len(p.args) = 0
    BY <2>2
  <2> QED
    BY <1>1, <1>2, <1>3, <2>1, <2>5, <2>6, PrintAdvances
<1>7. CASE LongDecimal
  <2>1. c = "d" /\ Signed(LongWord, LongRoom, 3)
    BY <1>7 DEF LongDecimal, LongDirective, c
  <2>2. PICK a : p.args = <<a>> /\ Takes(p.text, a)
    BY <1>5, <2>1
  <2>3. Meaning(p) = IF a < 0 THEN <<"-">> \o Numeral(-a, 10, Lower) ELSE Numeral(a, 10, Lower)
    BY <1>3, <2>1, <2>2, DirectiveMeaning
  <2> QED
    BY <1>2, <1>3, <2>1, <2>2, <2>3, SignedAdvances
<1>8. CASE LongUnsigned
  <2>1. c = "u" /\ Unsigned(LongWord, 10, Lower, LongRoom, 3)
    BY <1>8 DEF LongUnsigned, LongDirective, c
  <2>2. PICK a : p.args = <<a>> /\ Takes(p.text, a)
    BY <1>5, <2>1
  <2>3. Meaning(p) = Numeral(a, 10, Lower)
    BY <1>3, <2>1, <2>2, DirectiveMeaning
  <2> QED
    BY <1>2, <1>3, <2>1, <2>2, <2>3, UnsignedAdvances DEF Bases
<1>9. CASE LongHex
  <2>1. c = "x" /\ Unsigned(LongWord, 16, Lower, LongRoom, 3)
    BY <1>9 DEF LongHex, LongDirective, c
  <2>2. PICK a : p.args = <<a>> /\ Takes(p.text, a)
    BY <1>5, <2>1
  <2>3. Meaning(p) = Numeral(a, 16, Lower)
    BY <1>3, <2>1, <2>2, DirectiveMeaning
  <2> QED
    BY <1>2, <1>3, <2>1, <2>2, <2>3, UnsignedAdvances DEF Bases
<1> QED
  BY <1>6, <1>7, <1>8, <1>9

-----------------------------------------------------------------------------
(* The formats kprintf and panic make themselves                           *)

(* "0x%lx", which %p prints its argument with                              *)
PointerPieces(a) ==
  <<[text |-> <<"0", "x">>, args |-> <<>>], [text |-> <<"%", "l", "x">>, args |-> <<a>>]>>

(* Two sequences joined                                                    *)
LEMMA FlattenTwo ==
  ASSUME NEW S, NEW seqs \in Lists(S), Len(seqs) = 2
  PROVE  FlattenSeq(seqs) = seqs[1] \o seqs[2]
<1> DEFINE u == seqs[1]
           v == seqs[2]
<1>1. u \in Seq(S) /\ v \in Seq(S)
  <2>1. 1 \in 1 .. Len(seqs) /\ 2 \in 1 .. Len(seqs)
    OBVIOUS
  <2> QED
    BY <2>1, ListFacts
<1>2. Upto(seqs, 0) = <<>>
  BY UptoNone
<1>3. Upto(seqs, 1) = Upto(seqs, 0) \o u
  <2>1. 0 \in 0 .. (Len(seqs) - 1) /\ 0 + 1 = 1
    OBVIOUS
  <2>2. Upto(seqs, 0 + 1) = Upto(seqs, 0) \o seqs[0 + 1]
    BY <2>1, UptoNext
  <2> QED
    BY <2>1, <2>2
<1>4. Upto(seqs, 2) = Upto(seqs, 1) \o v
  <2>1. 1 \in 0 .. (Len(seqs) - 1) /\ 1 + 1 = 2
    OBVIOUS
  <2>2. Upto(seqs, 1 + 1) = Upto(seqs, 1) \o seqs[1 + 1]
    BY <2>1, UptoNext
  <2> QED
    BY <2>1, <2>2
<1>5. Upto(seqs, 2) = FlattenSeq(seqs)
  <2>1. Upto(seqs, Len(seqs)) = FlattenSeq(seqs)
    BY UptoAll DEF Lists
  <2> QED
    BY <2>1
<1> HIDE DEF u, v
<1>6. <<>> \o u = u
  BY <1>1
<1>7. FlattenSeq(seqs) = u \o v
  BY <1>2, <1>3, <1>4, <1>5, <1>6
<1> QED
  BY <1>7 DEF u, v

(* The two pieces of the format %p uses are its text.                      *)
LEMMA PointerSpelled == <<"0", "x">> \o <<"%", "l", "x">> = <<"0", "x", "%", "l", "x">>
<1> DEFINE S == {"0", "x", "%", "l"}
           u == <<"0", "x">>
           v == <<"%", "l", "x">>
           w == <<"0", "x", "%", "l", "x">>
           z == u \o v
<1>1. /\ u \in Seq(S) /\ Len(u) = 2 /\ u[1] = "0" /\ u[2] = "x"
      /\ v \in Seq(S) /\ Len(v) = 3 /\ v[1] = "%" /\ v[2] = "l" /\ v[3] = "x"
      /\ w \in Seq(S) /\ Len(w) = 5 /\ w[1] = "0" /\ w[2] = "x" /\ w[3] = "%" /\ w[4] = "l" /\ w[5] = "x"
  OBVIOUS
<1> HIDE DEF S, u, v, w
<1>2. /\ z \in Seq(S) /\ Len(z) = 5
      /\ \A i \in 1 .. 5 : z[i] = IF i <= 2 THEN u[i] ELSE v[i - 2]
  <2>1. /\ z \in Seq(S) /\ Len(z) = Len(u) + Len(v)
        /\ \A i \in 1 .. Len(u) + Len(v) : z[i] = IF i <= Len(u) THEN u[i] ELSE v[i - Len(u)]
    BY <1>1, ConcatProperties
  <2>2. Len(u) = 2 /\ Len(v) = 3
    BY <1>1
  <2> HIDE DEF z
  <2> QED
    BY <2>1, <2>2
<1> HIDE DEF z
<1>3. z[1] = u[1] /\ z[2] = u[2] /\ z[3] = v[1] /\ z[4] = v[2] /\ z[5] = v[3]
  BY <1>2
<1>4. \A i \in 1 .. Len(z) : z[i] = w[i]
  <2>1. \A i \in 1 .. 5 : i = 1 \/ i = 2 \/ i = 3 \/ i = 4 \/ i = 5
    OBVIOUS
  <2> QED
    BY <1>1, <1>2, <1>3, <2>1
<1>5. z = w
  BY <1>1, <1>2, <1>4, SeqEqual
<1> QED
  BY <1>5 DEF z, u, v, w

(* What %p asks itself for is what was asked for.                          *)
LEMMA PointerFormat ==
  ASSUME NEW a \in UnsignedValues(LongWord)
  PROVE  /\ WellWritten(PointerPieces(a))
         /\ Text(PointerPieces(a)) = <<"0", "x", "%", "l", "x">>
         /\ Args(PointerPieces(a)) = <<a>>
         /\ Whole(PointerPieces(a)) = <<"0", "x">> \o Numeral(a, 16, Lower)
         /\ \A p \in Range(PointerPieces(a)) : p.text # <<"%", "p">>
<1> DEFINE p == [text |-> <<"0", "x">>, args |-> <<>>]
           q == [text |-> <<"%", "l", "x">>, args |-> <<a>>]
           ps == PointerPieces(a)
<1>1. "0" \in Alphabet /\ "x" \in Alphabet /\ "%" \in Alphabet /\ "l" \in Alphabet
  <2>1. Known \subseteq Alphabet /\ Range(Lower) \subseteq Alphabet
    BY ProgramsAssumption
  <2>2. "x" \in Known /\ "%" \in Known /\ "l" \in Known /\ Lower[1] = "0" /\ 1 \in DOMAIN Lower
    BY DEF Known, Lower
  <2> QED
    BY <2>1, <2>2 DEF Range
<1>2. IsPiece(p)
  <2>1. p.text = <<"0", "x">> /\ p.args = <<>>
    OBVIOUS
  <2>2. <<"0", "x">> \in Seq(Alphabet)
    BY <1>1
  <2>3. IsText(<<"0", "x">>)
    <3>1. \A i \in DOMAIN <<"0", "x">> : i = 1 \/ i = 2
      OBVIOUS
    <3> QED
      BY <3>1 DEF IsText
  <2> HIDE DEF p
  <2> QED
    BY <2>1, <2>2, <2>3 DEF IsPiece, Strings
<1>3. IsPiece(q)
  <2>1. q.text = <<"%", "l", "x">> /\ q.args = <<a>> /\ q.args # <<>> /\ q.args[1] = a
    OBVIOUS
  <2>2. <<"%", "l", "x">> \in Seq(Alphabet)
    BY <1>1
  <2>3. Takes(<<"%", "l", "x">>, a)
    BY DEF Takes
  <2> HIDE DEF q
  <2> QED
    BY <2>1, <2>2, <2>3 DEF IsPiece, Strings
<1>4. p.text = <<"0", "x">> /\ p.args = <<>> /\ q.text = <<"%", "l", "x">> /\ q.args = <<a>>
  OBVIOUS
<1>5. ps = <<p, q>>
  BY DEF PointerPieces
<1> HIDE DEF p, q, ps
<1>6. ps[1] = p /\ ps[2] = q /\ Len(ps) = 2 /\ DOMAIN ps = 1 .. 2 /\ Range(ps) = {p, q}
  <2>1. \A i \in 1 .. 2 : i = 1 \/ i = 2
    OBVIOUS
  <2>2. ps[1] = p /\ ps[2] = q /\ Len(ps) = 2 /\ DOMAIN ps = 1 .. 2
    BY <1>5
  <2> QED
    BY <2>1, <2>2 DEF Range
<1>7. WellWritten(ps)
  <2>1. ps \in Seq({p, q})
    BY <1>5
  <2>2. \A i \in DOMAIN ps : IsPiece(ps[i])
    <3>1. \A i \in 1 .. 2 : i = 1 \/ i = 2
      OBVIOUS
    <3> QED
      BY <1>2, <1>3, <1>6, <3>1
  <2> QED
    BY <1>6, <2>1, <2>2 DEF WellWritten
<1>8. 1 \in 1 .. Len(ps) /\ 2 \in 1 .. Len(ps)
  BY <1>6
<1>9. Text(ps) = <<"0", "x", "%", "l", "x">>
  <2>1. Texts(ps) \in Lists(Chars) /\ Len(Texts(ps)) = 2 /\ Texts(ps)[1] = p.text /\ Texts(ps)[2] = q.text
    BY <1>6, <1>7, <1>8, ListTypes
  <2>2. Text(ps) = p.text \o q.text
    BY <2>1, FlattenTwo DEF Text, Texts
  <2> QED
    BY <1>4, <2>2, PointerSpelled
<1>10. Args(ps) = <<a>>
  <2>1. Arguments(ps) \in Lists(Values) /\ Len(Arguments(ps)) = 2
        /\ Arguments(ps)[1] = p.args /\ Arguments(ps)[2] = q.args
    BY <1>6, <1>7, <1>8, ListTypes
  <2>2. Args(ps) = p.args \o q.args
    BY <2>1, FlattenTwo DEF Args, Arguments
  <2>3. <<>> \o <<a>> = <<a>>
    OBVIOUS
  <2> QED
    BY <1>4, <2>2, <2>3
<1>11. Whole(ps) = <<"0", "x">> \o Numeral(a, 16, Lower)
  <2>1. Meanings(ps) \in Lists(Chars) /\ Len(Meanings(ps)) = 2
        /\ Meanings(ps)[1] = Meaning(p) /\ Meanings(ps)[2] = Meaning(q)
    BY <1>6, <1>7, <1>8, ListTypes
  <2>2. Whole(ps) = Meaning(p) \o Meaning(q)
    BY <2>1, FlattenTwo DEF Whole
  <2>3. Meaning(q) = Numeral(a, 16, Lower)
    BY <1>4, DirectiveMeaning
  <2>4. Meaning(p) = <<"0", "x">>
    <3>1. p.text \in Seq(Alphabet)
      BY <1>2, PieceArgs
    <3>2. IsText(<<"0", "x">>)
      <4>1. \A i \in DOMAIN <<"0", "x">> : i = 1 \/ i = 2
        OBVIOUS
      <4> QED
        BY <4>1 DEF IsText
    <3>3. <<"0", "x">> # <<"%", "%">>
      OBVIOUS
    <3> QED
      BY <1>4, <3>1, <3>2, <3>3, PlainMeaning
  <2> QED
    BY <2>2, <2>3, <2>4
<1>12. \A x \in Range(ps) : x.text # <<"%", "p">>
  <2>1. <<"0", "x">> # <<"%", "p">> /\ <<"%", "l", "x">> # <<"%", "p">>
    OBVIOUS
  <2> QED
    BY <1>4, <1>6, <2>1
<1> QED
  BY <1>7, <1>9, <1>10, <1>11, <1>12 DEF ps

(* What panic prints is a format.                                          *)
LEMMA PanicFormat ==
  ASSUME NEW msg \in Strings
  PROVE  WellWritten(PanicPieces(msg))
<1> DEFINE p == [text |-> <<"P", "A", "N", "I", "C", ":", " ">>, args |-> <<>>]
           q == [text |-> <<"%", "s">>, args |-> <<msg>>]
           r == [text |-> <<"newline">>, args |-> <<>>]
           ps == PanicPieces(msg)
<1>1. IsPiece(p)
  <2> DEFINE t == <<"P", "A", "N", "I", "C", ":", " ">>
  <2>1. p.text = t /\ p.args = <<>>
    OBVIOUS
  <2>2. t \in Seq({"P", "A", "N", "I", "C", ":", " "})
    OBVIOUS
  <2>3. t # <<>>
    OBVIOUS
  <2> HIDE DEF t, p
  <2>4. t \in Seq(Alphabet)
    <3>1. {"P", "A", "N", "I", "C", ":", " "} \subseteq Alphabet
      BY ProgramsAssumption
    <3> DEFINE S == {"P", "A", "N", "I", "C", ":", " "}
    <3>2. S \subseteq Alphabet /\ t \in Seq(S)
      BY <2>2, <3>1
    <3> HIDE DEF S
    <3> QED
      BY <3>2
  <2>5. IsText(t)
    <3>1. \A i \in DOMAIN t : t[i] \in {"P", "A", "N", "I", "C", ":", " "}
      <4> DEFINE S == {"P", "A", "N", "I", "C", ":", " "}
      <4>1. t \in Seq(S)
        BY <2>2
      <4> HIDE DEF S
      <4>2. \A i \in DOMAIN t : t[i] \in S
        BY <4>1
      <4> QED
        BY <4>2 DEF S
    <3>2. "%" \notin {"P", "A", "N", "I", "C", ":", " "}
      OBVIOUS
    <3> QED
      BY <2>3, <3>1, <3>2 DEF IsText
  <2> QED
    BY <2>1, <2>4, <2>5 DEF IsPiece, Strings
<1>2. IsPiece(q)
  <2>1. q.text = <<"%", "s">> /\ q.args = <<msg>> /\ q.args # <<>> /\ q.args[1] = msg
    OBVIOUS
  <2>2. <<"%", "s">> \in Seq(Alphabet)
    <3>1. "%" \in Alphabet /\ "s" \in Alphabet
      BY ProgramsAssumption DEF Known
    <3> QED
      BY <3>1
  <2>3. Takes(<<"%", "s">>, msg)
    BY DEF Takes
  <2> HIDE DEF q
  <2> QED
    BY <2>1, <2>2, <2>3 DEF IsPiece, Strings
<1>3. IsPiece(r)
  <2>1. r.text = <<"newline">> /\ r.args = <<>>
    OBVIOUS
  <2>2. <<"newline">> \in Seq(Alphabet)
    <3>1. "newline" \in Alphabet
      BY ProgramsAssumption
    <3> QED
      BY <3>1
  <2>3. IsText(<<"newline">>)
    BY DEF IsText
  <2> HIDE DEF r
  <2> QED
    BY <2>1, <2>2, <2>3 DEF IsPiece, Strings
<1>4. ps = <<p, q, r>>
  BY DEF PanicPieces
<1> HIDE DEF p, q, r, ps
<1>5. ps[1] = p /\ ps[2] = q /\ ps[3] = r /\ DOMAIN ps = 1 .. 3 /\ ps \in Seq({p, q, r})
  BY <1>4
<1>6. \A i \in 1 .. 3 : i = 1 \/ i = 2 \/ i = 3
  OBVIOUS
<1>7. Range(ps) = {p, q, r}
  BY <1>5, <1>6 DEF Range
<1>8. \A i \in DOMAIN ps : IsPiece(ps[i])
  BY <1>1, <1>2, <1>3, <1>5, <1>6
<1> QED
  BY <1>5, <1>7, <1>8 DEF WellWritten, ps

(* A call begins.                                                          *)
LEMMA FrameRuns ==
  ASSUME NEW ps, WellWritten(ps), NEW beyond \in Seq(Chars)
  PROVE  Runs(ps, Frame(Text(ps), Args(ps), beyond), <<>>)
<1> DEFINE f == Frame(Text(ps), Args(ps), beyond)
           m == Memory(ps, beyond)
           a == Args(ps)
<1>1. f = [text |-> m, at |-> 1, args |-> a]
  BY DEF Frame, Memory
<1> HIDE DEF f, m
<1>2. f.at = 1 /\ f.args = a /\ f = [text |-> m, at |-> f.at, args |-> f.args]
  BY <1>1
<1>3. Place(ps, f.at, f.args, <<>>)
  BY <1>2, PlaceStart
<1>4. \E b \in Seq(Chars) : f = [text |-> Memory(ps, b), at |-> f.at, args |-> f.args]
  BY <1>2 DEF m
<1> QED
  BY <1>3, <1>4 DEF Runs, f

(* %p calls kprintf for its number.                                        *)
LEMMA PointerCalls ==
  ASSUME NEW ps, NEW f, NEW low, NEW said, Inner(ps, f, low, said), Pointer
  PROVE  \E a, g, h :
           /\ a \in UnsignedValues(LongWord)
           /\ stack' = <<g>> \o Over(h, low)
           /\ Runs(PointerPieces(a), g, <<>>)
           /\ Runs(ps, h, said \o Whole(PointerPieces(a)))
           /\ \E p \in Range(ps) : p.text = <<"%", "p">>
<1>1. Char(0) = "%" /\ Char(1) = "p"
  BY DEF Pointer, Directive
<1>2. PICK p : /\ Directs(ps, f, said, p)
               /\ \/ p.text = <<"%", Char(1)>> /\ Char(1) # "l"
                  \/ p.text = <<"%", "l", Char(2)>> /\ Char(1) = "l"
  BY <1>1, AtDirective
<1>3. p.text = <<"%", "p">> /\ Len(p.text) = 2 /\ IsPiece(p) /\ ~IsText(p.text) /\ p \in Range(ps)
  BY <1>1, <1>2 DEF Directs
<1>4. PICK a : p.args = <<a>> /\ Takes(p.text, a)
  BY <1>3, Readings DEF Known
<1>5. a \in UnsignedValues(LongWord)
  <2>1. \A b : Takes(<<"%", "p">>, b) => b \in UnsignedValues(LongWord)
    BY DEF Takes
  <2> QED
    BY <1>3, <1>4, <2>1
<1> DEFINE pp == PointerPieces(a)
           h == Onward(f, 2, 1)
           g == Frame(<<"0", "x", "%", "l", "x">>, <<a>>, <<>>)
<1>6. Whole(pp) = Meaning(p)
  BY <1>3, <1>4, <1>5, PointerFormat, DirectiveMeaning
<1>7. Len(p.args) = 1 /\ Arg = a
  BY <1>2, <1>4, InnerFacts DEF Directs
<1>8. Runs(ps, h, said \o Whole(pp))
  <2>1. Runs(ps, Onward(f, Len(p.text), Len(p.args)), said \o Meaning(p))
    BY <1>2 DEF Directs
  <2> HIDE DEF pp
  <2> QED
    BY <1>3, <1>6, <1>7, <2>1
<1>9. Runs(pp, g, <<>>)
  <2>1. <<>> \in Seq(Chars)
    OBVIOUS
  <2>2. g = Frame(Text(pp), Args(pp), <<>>) /\ WellWritten(pp)
    BY <1>5, PointerFormat
  <2> HIDE DEF pp, g
  <2> QED
    BY <2>1, <2>2, FrameRuns
<1>10. stack' = <<g>> \o Over(h, low)
  <2>1. Moved(2, 1) = Over(h, low)
    BY InnerFacts, TopFacts
  <2> QED
    BY <1>7, <2>1 DEF Pointer
<1> HIDE DEF pp, g, h
<1>11. /\ stack' = <<g>> \o Over(h, low) /\ Runs(pp, g, <<>>) /\ Runs(ps, h, said \o Whole(pp))
       /\ \E q \in Range(ps) : q.text = <<"%", "p">>
  BY <1>3, <1>8, <1>9, <1>10
<1> QED
  BY <1>5, <1>11 DEF pp

-----------------------------------------------------------------------------
(* The inductive invariant *)

(* All that was asked for so far, of the calls that have not returned and  *)
(* of the one that did                                                     *)
Nested(ps, st, out, g, f, a, s, said) ==
  /\ a \in UnsignedValues(LongWord) /\ st = <<g, f>>
  /\ s \in Seq(Chars) /\ said \in Seq(Chars) /\ out = s \o said
  /\ Runs(PointerPieces(a), g, said)
  /\ Runs(ps, f, s \o Whole(PointerPieces(a)))

Scans(ps, st, out) ==
  \/ st = <<>> /\ out = Whole(ps)
  \/ \E f : st = <<f>> /\ Runs(ps, f, out)
  \/ \E g, f, a, s, said : Nested(ps, st, out, g, f, a, s, said)

(* What was printed and is going to be is what was asked for so far.       *)
Sensible ==
  /\ put \in Seq(Chars) /\ pending \in Seq(Chars)
  /\ \E new \in Seq(Chars) : ToPrint(new) /\ Scans(pieces, stack, put \o new)

(* A format that does not break off is well written.                       *)
Written == ~ Unfinished => WellWritten(pieces)

Stacked ==
  /\ \E T : stack \in Seq(T)
  /\ stack = <<>> => number = <<>>

ScanInv ==
  /\ program \in Seq(Calls)
  /\ Stacked
  /\ Written
  /\ WellWritten(pieces) => Sensible

(* One call, and a call made by another                                    *)
LEMMA OverIs ==
  /\ \A f : <<f>> = Over(f, <<>>)
  /\ \A g, f : <<g, f>> = Over(g, <<f>>)
<1>1. ASSUME NEW f PROVE <<f>> = Over(f, <<>>)
  <2> DEFINE S == {f}
             s == <<f>>
  <2>1. s \in Seq(S)
    OBVIOUS
  <2> HIDE DEF s, S
  <2>2. s \o <<>> = s
    BY <2>1, ConcatEmptySeq
  <2> QED
    BY <2>2 DEF Over, s
<1>2. ASSUME NEW g, NEW f PROVE <<g, f>> = Over(g, <<f>>)
  BY Pair DEF Over
<1> QED
  BY <1>1, <1>2

(* The innermost call of a scan                                            *)
LEMMA ScansInner ==
  ASSUME NEW ps, WellWritten(ps), NEW out, Scans(ps, stack, out), stack # <<>>
  PROVE  \/ \E f : stack = <<f>> /\ Inner(ps, f, <<>>, out)
         \/ \E g, f, a, s, said : /\ Nested(ps, stack, out, g, f, a, s, said)
                                  /\ Inner(PointerPieces(a), g, <<f>>, said)
<1>1. ASSUME NEW f, stack = <<f>>, Runs(ps, f, out) PROVE Inner(ps, f, <<>>, out)
  BY <1>1, OverIs DEF Inner, Low
<1>2. ASSUME NEW g, NEW f, NEW a, NEW s, NEW said, Nested(ps, stack, out, g, f, a, s, said)
      PROVE  Inner(PointerPieces(a), g, <<f>>, said)
  <2>1. /\ a \in UnsignedValues(LongWord) /\ stack = <<g, f>>
        /\ Runs(PointerPieces(a), g, said)
    BY <1>2 DEF Nested
  <2>2. stack = Over(g, <<f>>)
    BY <2>1, OverIs
  <2>3. Low(<<f>>)
    BY DEF Low
  <2> QED
    BY <2>1, <2>2, <2>3, PointerFormat DEF Inner
<1> QED
  BY <1>1, <1>2 DEF Scans

(* Between two directives nothing is going to be printed.                  *)
LEMMA NothingPending ==
  ASSUME number = <<>>, pending = <<>>, Sensible
  PROVE  put \in Seq(Chars) /\ Scans(pieces, stack, put)
<1>1. PICK new \in Seq(Chars) : ToPrint(new) /\ Scans(pieces, stack, put \o new)
  BY DEF Sensible
<1>2. new = <<>>
  <2>1. PICK r \in Seq(Chars) : new = pending \o r /\ Converts(r)
    BY <1>1 DEF ToPrint
  <2>2. r = <<>>
    BY <2>1 DEF Converts
  <2>3. <<>> \o <<>> = <<>>
    OBVIOUS
  <2> QED
    BY <2>1, <2>2, <2>3
<1>3. put \in Seq(Chars)
  BY DEF Sensible
<1>4. put \o <<>> = put
  BY <1>3, ConcatEmptySeq
<1> QED
  BY <1>1, <1>2, <1>3, <1>4

(* And the next of it follows.                                             *)
LEMMA SensibleNext ==
  ASSUME NEW ps, pieces' = ps, NEW out \in Seq(Chars), put' = out, pending' \in Seq(Chars),
         NEW new \in Seq(Chars), ToPrint(new)', Scans(ps, stack', out \o new)
  PROVE  Sensible'
BY DEF Sensible

(* Nothing to print yet                                                    *)
LEMMA SensibleEmpty ==
  ASSUME NEW ps, pieces' = ps, NEW out \in Seq(Chars), put' = out, pending' = <<>>, number' = <<>>,
         Scans(ps, stack', out)
  PROVE  Sensible'
<1>1. <<>> \in Seq(Chars) /\ <<>> \o <<>> = <<>>
  OBVIOUS
<1>2. out \o <<>> = out
  BY ConcatEmptySeq
<1>3. ToPrint(<<>>)'
  BY <1>1 DEF ToPrint, Converts
<1>4. Scans(ps, stack', out \o <<>>)
  BY <1>2
<1> QED
  BY <1>1, <1>3, <1>4, SensibleNext

(* The innermost call goes on.                                             *)
LEMMA ConversionSensible ==
  ASSUME WellWritten(pieces), Sensible, Conversion, ~Pointer
  PROVE  Sensible'
<1>1. stack # <<>> /\ number = <<>> /\ pending = <<>>
  BY DEF Conversion, Literal, Percent, Character, String, Decimal, UnsignedDecimal, Hex, UpperHex,
         LongUnsigned, LongHex, LongDecimal, Unknown, LongUnknown, LongDirective, Directive, Scanning
<1>2. PICK ps : ps = pieces
  OBVIOUS
<1>3. PICK out : out = put
  OBVIOUS
<1>4. out \in Seq(Chars) /\ Scans(ps, stack, out) /\ WellWritten(ps)
  BY <1>1, <1>2, <1>3, NothingPending
<1>5. ASSUME NEW qs, NEW f, NEW low, NEW said, Inner(qs, f, low, said)
      PROVE  Advances(qs, low, said)
  <2>1. CASE Literal
    BY <1>5, <2>1, LiteralAdvances
  <2>2. CASE Percent \/ Character \/ String \/ Decimal \/ UnsignedDecimal \/ Hex \/ UpperHex \/ Unknown
    BY <1>5, <2>2, ShortAdvances
  <2>3. CASE LongUnsigned \/ LongHex \/ LongDecimal \/ LongUnknown
    BY <1>5, <2>3, LongAdvances
  <2> QED
    BY <2>1, <2>2, <2>3 DEF Conversion
<1>6. ASSUME NEW f, Inner(ps, f, <<>>, out) PROVE Sensible'
  <2>1. PICK g, new : /\ new \in Seq(Chars) /\ pending' \in Seq(Chars)
                      /\ stack' = Over(g, <<>>) /\ Runs(ps, g, out \o new)
                      /\ ToPrint(new)' /\ UNCHANGED <<program, panicking, pieces, put>>
    BY <1>5, <1>6 DEF Advances
  <2>2. stack' = <<g>>
    BY <2>1, OverIs
  <2>3. Scans(ps, stack', out \o new)
    BY <2>1, <2>2 DEF Scans
  <2> QED
    BY <1>2, <1>3, <1>4, <2>1, <2>3, SensibleNext
<1>7. ASSUME NEW g, NEW f, NEW a, NEW s, NEW said, Nested(ps, stack, out, g, f, a, s, said),
             Inner(PointerPieces(a), g, <<f>>, said)
      PROVE  Sensible'
  <2>1. PICK h, new : /\ new \in Seq(Chars) /\ pending' \in Seq(Chars)
                      /\ stack' = Over(h, <<f>>) /\ Runs(PointerPieces(a), h, said \o new)
                      /\ ToPrint(new)' /\ UNCHANGED <<program, panicking, pieces, put>>
    BY <1>5, <1>7 DEF Advances
  <2>2. stack' = <<h, f>>
    BY <2>1, OverIs
  <2>3. /\ a \in UnsignedValues(LongWord) /\ s \in Seq(Chars) /\ said \in Seq(Chars) /\ out = s \o said
        /\ Runs(ps, f, s \o Whole(PointerPieces(a)))
    BY <1>7 DEF Nested
  <2>4. said \o new \in Seq(Chars) /\ (s \o said) \o new = s \o (said \o new)
    <3>1. \A y, z \in Seq(Chars) : (s \o y) \o z = s \o (y \o z)
      <4>1. s \in Seq(Chars)
        BY <2>3
      <4> QED
        BY <4>1, Regroup, Zenon
    <3>2. said \in Seq(Chars) /\ new \in Seq(Chars)
      BY <2>1, <2>3
    <3>3. said \o new \in Seq(Chars)
      BY <3>2, ConcatProperties
    <3> QED
      BY <3>1, <3>2, <3>3, Zenon
  <2> DEFINE next == said \o new
  <2>5. next \in Seq(Chars) /\ out \o new = s \o next /\ Runs(PointerPieces(a), h, next)
    BY <2>1, <2>3, <2>4
  <2> HIDE DEF next
  <2>6. Nested(ps, stack', out \o new, h, f, a, s, next)
    BY <2>2, <2>3, <2>5 DEF Nested
  <2>7. Scans(ps, stack', out \o new)
    BY <2>6 DEF Scans
  <2> QED
    BY <1>2, <1>3, <1>4, <2>1, <2>7, SensibleNext
<1> QED
  BY <1>1, <1>4, <1>6, <1>7, ScansInner

(* %p calls kprintf, but not for what it calls it with.                    *)
LEMMA PointerSensible ==
  ASSUME WellWritten(pieces), Sensible, Pointer
  PROVE  Sensible'
<1>1. stack # <<>> /\ number = <<>> /\ pending = <<>>
  BY DEF Pointer, Directive, Scanning
<1>2. PICK ps : ps = pieces
  OBVIOUS
<1>3. PICK out : out = put
  OBVIOUS
<1>4. out \in Seq(Chars) /\ Scans(ps, stack, out) /\ WellWritten(ps)
  BY <1>1, <1>2, <1>3, NothingPending
<1>5. pieces' = ps /\ put' = out /\ pending' = <<>> /\ number' = <<>>
  BY <1>1, <1>2, <1>3 DEF Pointer
<1>6. ASSUME NEW f, Inner(ps, f, <<>>, out) PROVE Sensible'
  <2>1. PICK a, g, h :
           /\ a \in UnsignedValues(LongWord)
           /\ stack' = <<g>> \o Over(h, <<>>)
           /\ Runs(PointerPieces(a), g, <<>>)
           /\ Runs(ps, h, out \o Whole(PointerPieces(a)))
    BY <1>6, PointerCalls
  <2>2. stack' = <<g, h>>
    BY <2>1, OverIs, Pair
  <2>3. <<>> \in Seq(Chars) /\ out = out \o <<>>
    BY <1>4, ConcatEmptySeq
  <2>4. Nested(ps, stack', out, g, h, a, out, <<>>)
    BY <1>4, <2>1, <2>2, <2>3 DEF Nested
  <2>5. Scans(ps, stack', out)
    BY <2>4 DEF Scans
  <2> QED
    BY <1>4, <1>5, <2>5, SensibleEmpty
<1>7. ASSUME NEW g, NEW f, NEW a, NEW s, NEW said, Nested(ps, stack, out, g, f, a, s, said),
             Inner(PointerPieces(a), g, <<f>>, said)
      PROVE  FALSE
  <2>1. \E p \in Range(PointerPieces(a)) : p.text = <<"%", "p">>
    BY <1>7, PointerCalls
  <2>2. a \in UnsignedValues(LongWord)
    BY <1>7 DEF Nested
  <2> QED
    BY <2>1, <2>2, PointerFormat
<1> QED
  BY <1>1, <1>4, <1>6, <1>7, ScansInner

(* A call returns when everything it was asked for is printed.             *)
LEMMA ReturnSensible ==
  ASSUME WellWritten(pieces), Sensible, Return
  PROVE  Sensible'
<1>1. stack # <<>> /\ number = <<>> /\ pending = <<>> /\ Char(0) = NUL /\ stack' = Tail(stack)
  BY DEF Return, Scanning
<1>2. PICK ps : ps = pieces
  OBVIOUS
<1>3. PICK out : out = put
  OBVIOUS
<1>4. out \in Seq(Chars) /\ Scans(ps, stack, out) /\ WellWritten(ps)
  BY <1>1, <1>2, <1>3, NothingPending
<1>5. pieces' = ps /\ put' = out /\ pending' = <<>> /\ number' = <<>>
  BY <1>1, <1>2, <1>3 DEF Return
<1>6. ASSUME NEW f, Inner(ps, f, <<>>, out) PROVE Sensible'
  <2>1. out = Whole(ps) /\ stack' = <<>>
    BY <1>1, <1>6, AtTerminator, InnerFacts
  <2>2. Scans(ps, stack', out)
    BY <2>1 DEF Scans
  <2> QED
    BY <1>4, <1>5, <2>2, SensibleEmpty
<1>7. ASSUME NEW g, NEW f, NEW a, NEW s, NEW said, Nested(ps, stack, out, g, f, a, s, said),
             Inner(PointerPieces(a), g, <<f>>, said)
      PROVE  Sensible'
  <2>1. said = Whole(PointerPieces(a)) /\ stack' = <<f>>
    BY <1>1, <1>7, AtTerminator, InnerFacts
  <2>2. Runs(ps, f, out)
    BY <1>7, <2>1 DEF Nested
  <2>3. Scans(ps, stack', out)
    BY <2>1, <2>2 DEF Scans
  <2> QED
    BY <1>4, <1>5, <2>3, SensibleEmpty
<1> QED
  BY <1>1, <1>4, <1>6, <1>7, ScansInner

(* A round of the digit loop                                               *)
LEMMA DivideSensible ==
  ASSUME Sensible, NumberFits, Divide
  PROVE  Sensible'
<1>1. number # <<>> /\ pending = <<>> /\ UNCHANGED <<program, panicking, stack, pieces, put>>
  BY DEF Divide
<1>2. PICK ps : ps = pieces
  OBVIOUS
<1>3. PICK out : out = put
  OBVIOUS
<1>4. PICK st : st = stack
  OBVIOUS
<1>5. PICK new \in Seq(Chars) : ToPrint(new) /\ Scans(ps, st, out \o new)
  BY <1>2, <1>3, <1>4 DEF Sensible
<1>6. PICK r \in Seq(Chars) : new = pending \o r /\ Converts(r)
  BY <1>5 DEF ToPrint
<1>7. new = r
  <2>1. <<>> \o r = r
    OBVIOUS
  <2> QED
    BY <1>1, <1>6, <2>1
<1>8. PICK v : Converting(v) /\ r = Numeral(v, number.base, number.table)
  BY <1>1, <1>6 DEF Converts
<1>9. <<>> \in Seq(Chars) /\ new \o <<>> = new /\ <<>> \o new = new
  BY ConcatEmptySeq
<1>10. pending' \in Seq(Chars) /\ ToPrint(new)'
  <2>1. CASE number' = <<>> /\ pending' = Numeral(v, number.base, number.table)
    <3>1. pending' = new
      BY <1>7, <1>8, <2>1
    <3> QED
      BY <1>9, <2>1, <3>1 DEF ToPrint, Converts
  <2>2. CASE /\ number' # <<>> /\ Converting(v)' /\ pending' = pending
             /\ number'.base = number.base /\ number'.table = number.table
    <3>1. pending' = <<>> /\ r = Numeral(v, number'.base, number'.table)
      BY <1>1, <1>8, <2>2
    <3>2. Converts(r)'
      BY <2>2, <3>1 DEF Converts
    <3> QED
      BY <1>7, <1>9, <3>1, <3>2 DEF ToPrint
  <2> QED
    BY <1>8, <2>1, <2>2, DivideConverts
<1>11. out \in Seq(Chars)
  BY <1>3 DEF Sensible
<1>12. pieces' = ps /\ put' = out /\ stack' = st
  BY <1>1, <1>2, <1>3, <1>4
<1> QED
  BY <1>5, <1>10, <1>11, <1>12, SensibleNext

(* A character moves from what is going to be printed to what is.          *)
LEMMA OnePut ==
  ASSUME NEW S, NEW u \in Seq(S), NEW p \in Seq(S), p # <<>>, NEW r \in Seq(S)
  PROVE  /\ Append(u, Head(p)) \in Seq(S) /\ Tail(p) \in Seq(S)
         /\ Joined(Tail(p), r) \in Seq(S)
         /\ Joined(Append(u, Head(p)), Joined(Tail(p), r)) = Joined(u, Joined(p, r))
<1> DEFINE h == Head(p)
           t == Tail(p)
           e == <<h>>
<1>1. h \in S /\ t \in Seq(S)
  OBVIOUS
<1>2. e \in Seq(S) /\ Append(u, h) = u \o e /\ Append(u, h) \in Seq(S)
  <2> HIDE DEF h
  <2> QED
    BY <1>1, AppendIsConcat, AppendProperties
<1>3. e \o t = p
  <2>1. /\ Len(e) = 1 /\ e[1] = p[1] /\ Len(t) = Len(p) - 1 /\ Len(p) \in Nat
        /\ \A i \in 1 .. Len(t) : t[i] = p[i + 1]
    BY HeadTailProperties
  <2>2. t \in Seq(S)
    BY <1>1
  <2> HIDE DEF h, t, e
  <2>3. /\ e \o t \in Seq(S) /\ Len(e \o t) = Len(e) + Len(t)
        /\ \A i \in 1 .. Len(e) + Len(t) : (e \o t)[i] = IF i <= Len(e) THEN e[i] ELSE t[i - Len(e)]
    BY <1>2, <2>2, ConcatProperties
  <2> DEFINE x == e \o t
  <2>4. x \in Seq(S) /\ Len(x) = Len(p)
    BY <2>1, <2>3
  <2>5. ASSUME NEW i \in 1 .. Len(p) PROVE x[i] = p[i]
    <3>1. i \in 1 .. Len(e) + Len(t) /\ x[i] = IF i <= Len(e) THEN e[i] ELSE t[i - Len(e)]
      BY <2>1, <2>3
    <3> HIDE DEF x
    <3>2. CASE i = 1
      BY <2>1, <3>1, <3>2
    <3>3. CASE i # 1
      <4>1. i - 1 \in 1 .. Len(t) /\ i > 1
        BY <2>1, <3>3
      <4>2. x[i] = t[i - 1]
        BY <2>1, <3>1, <4>1
      <4>3. t[i - 1] = p[(i - 1) + 1] /\ (i - 1) + 1 = i
        BY <2>1, <4>1
      <4> QED
        BY <4>2, <4>3
    <3> QED
      BY <3>2, <3>3
  <2> HIDE DEF x
  <2>6. x = p
    BY <2>4, <2>5, SeqEqual
  <2> QED
    BY <2>6 DEF x
<1> HIDE DEF h, t, e
<1>4. /\ Joined(t, r) \in Seq(S)
      /\ Joined(Joined(u, e), Joined(t, r)) = Joined(u, Joined(Joined(e, t), r))
  BY <1>1, <1>2, JoinedFacts
<1>5. Append(u, h) = Joined(u, e) /\ p = Joined(e, t)
  BY <1>2, <1>3 DEF Joined
<1> QED
  BY <1>1, <1>2, <1>4, <1>5 DEF h, t

(* kputc                                                                   *)
LEMMA PutSensible ==
  ASSUME Sensible, Put
  PROVE  Sensible'
<1>1. /\ pending # <<>> /\ put' = Append(put, Head(pending)) /\ pending' = Tail(pending)
      /\ UNCHANGED <<program, panicking, stack, number, pieces>>
  BY DEF Put
<1>2. PICK ps : ps = pieces
  OBVIOUS
<1>3. PICK out : out = put
  OBVIOUS
<1>4. PICK st : st = stack
  OBVIOUS
<1>5. PICK p : p = pending
  OBVIOUS
<1>6. PICK new \in Seq(Chars) : ToPrint(new) /\ Scans(ps, st, out \o new)
  BY <1>2, <1>3, <1>4 DEF Sensible
<1>7. PICK r \in Seq(Chars) : new = p \o r /\ Converts(r)
  BY <1>5, <1>6 DEF ToPrint
<1>8. out \in Seq(Chars) /\ p \in Seq(Chars) /\ p # <<>>
  BY <1>1, <1>3, <1>5 DEF Sensible
<1> DEFINE more == Append(out, Head(p))
           less == Tail(p)
           next == less \o r
<1>9. /\ more \in Seq(Chars) /\ less \in Seq(Chars) /\ next \in Seq(Chars)
      /\ more \o next = out \o new
  <2>1. /\ more \in Seq(Chars) /\ less \in Seq(Chars) /\ Joined(less, r) \in Seq(Chars)
        /\ Joined(more, Joined(less, r)) = Joined(out, Joined(p, r))
    BY <1>7, <1>8, OnePut
  <2>2. next = Joined(less, r) /\ new = Joined(p, r)
    BY <1>7 DEF Joined
  <2> HIDE DEF more, less, next
  <2>3. next \in Seq(Chars) /\ Joined(more, next) = Joined(out, new)
    BY <2>1, <2>2
  <2> QED
    BY <2>1, <2>3 DEF Joined
<1>10. put' = more /\ pending' = less /\ pieces' = ps /\ stack' = st /\ number' = number
  BY <1>1, <1>2, <1>3, <1>4, <1>5
<1>11. next = less \o r
  OBVIOUS
<1> HIDE DEF more, less, next
<1>12. Converts(r)'
  <2>1. ASSUME NEW v, Converting(v) PROVE Converting(v)'
    BY <1>10, <2>1 DEF Converting
  <2> QED
    BY <1>7, <1>10, <2>1 DEF Converts
<1>13. ToPrint(next)'
  BY <1>10, <1>11, <1>12 DEF ToPrint
<1>14. Scans(ps, stack', more \o next)
  BY <1>6, <1>9, <1>10
<1> QED
  BY <1>9, <1>10, <1>13, <1>14, SensibleNext

(* Nothing happens to the call.                                            *)
LEMMA SensibleStays ==
  ASSUME Sensible, UNCHANGED <<stack, number, pending, pieces, put>>
  PROVE  Sensible'
BY DEF Sensible, ToPrint, Converts, Converting

(* A call begins with nothing printed.                                     *)
LEMMA StartSensible ==
  ASSUME NEW ps, WellWritten(ps), NEW beyond \in Seq(Chars), Start(ps, beyond), Idle, number = <<>>
  PROVE  Sensible'
<1> DEFINE f == Frame(Text(ps), Args(ps), beyond)
<1>1. /\ stack' = <<f>> /\ pieces' = ps /\ put' = <<>> /\ pending' = <<>> /\ number' = <<>>
  BY DEF Start, Idle
<1>2. Runs(ps, f, <<>>)
  BY FrameRuns
<1>3. <<>> \in Seq(Chars)
  OBVIOUS
<1> HIDE DEF f
<1>4. Scans(ps, stack', <<>>)
  BY <1>1, <1>2 DEF Scans
<1> QED
  BY <1>1, <1>3, <1>4, SensibleEmpty

(* Between calls no number is converted, and a call that goes on is one.   *)
LEMMA MovedStacked ==
  ASSUME Stacked, stack # <<>>, NEW k, NEW n
  PROVE  Moved(k, n) # <<>> /\ \E T : Moved(k, n) \in Seq(T)
<1>1. PICK T : stack \in Seq(T)
  BY DEF Stacked
<1>2. 1 \in 1 .. Len(stack)
  BY <1>1
<1>3. ASSUME NEW S, NEW s \in Seq(S), 1 \in 1 .. Len(s), NEW e
      PROVE  /\ [s EXCEPT ![1] = e] \in Seq(S \cup {e}) /\ Len([s EXCEPT ![1] = e]) = Len(s)
  <2> DEFINE U == S \cup {e}
  <2>1. s \in Seq(U) /\ e \in U
    OBVIOUS
  <2> HIDE DEF U
  <2>2. [s EXCEPT ![1] = e] \in Seq(U) /\ Len([s EXCEPT ![1] = e]) = Len(s)
    BY <1>3, <2>1, ExceptSeq
  <2> QED
    BY <2>2 DEF U
<1> DEFINE g == [stack[1] EXCEPT !.at = @ + k]
           s == [stack EXCEPT ![1] = g]
           h == [s[1] EXCEPT !.args = SubSeq(@, n + 1, Len(@))]
           t == [s EXCEPT ![1] = h]
<1>4. Moved(k, n) = t
  BY DEF Moved
<1> HIDE DEF g
<1>5. s \in Seq(T \cup {g}) /\ Len(s) = Len(stack)
  BY <1>1, <1>2, <1>3
<1> HIDE DEF s, h
<1>6. t \in Seq((T \cup {g}) \cup {h}) /\ Len(t) = Len(s)
  BY <1>2, <1>3, <1>5
<1> HIDE DEF t
<1>7. t # <<>>
  BY <1>2, <1>5, <1>6
<1> QED
  BY <1>4, <1>6, <1>7

-----------------------------------------------------------------------------
(* The invariant is inductive *)

(* The list of calls that have not returned stays a list, and a number is  *)
(* converted only by one of them.                                          *)
LEMMA StackedStays ==
  ASSUME Stacked, [Next]_vars
  PROVE  Stacked'
<1>1. ASSUME stack # <<>>, NEW k, NEW n, stack' = Moved(k, n) PROVE Stacked'
  <2>1. PICK st : st = Moved(k, n)
    OBVIOUS
  <2>2. st # <<>> /\ \E T : st \in Seq(T)
    BY <1>1, <2>1, MovedStacked
  <2>3. stack' = st
    BY <1>1, <2>1
  <2> QED
    BY <2>2, <2>3 DEF Stacked
<1>2. ASSUME NEW f, stack' = <<f>>, number' = number, number = <<>> PROVE Stacked'
  <2>1. <<f>> \in Seq({f})
    OBVIOUS
  <2> QED
    BY <1>2, <2>1 DEF Stacked
<1>3. ASSUME stack' = stack, stack = <<>> => number' = <<>> PROVE Stacked'
  BY <1>3 DEF Stacked
<1>4. CASE kprintf \/ panic
  <2>1. stack = <<>> /\ number = <<>>
    BY <1>4 DEF kprintf, panic, CallerRuns, Idle, Stacked
  <2>2. number' = number /\ \E f : stack' = <<f>>
    BY <1>4 DEF kprintf, panic, Start
  <2> QED
    BY <1>2, <2>1, <2>2
<1>5. CASE Conversion
  <2>1. stack # <<>>
    BY <1>5 DEF Conversion, Literal, Percent, Character, String, Decimal, UnsignedDecimal, Hex, UpperHex,
         LongUnsigned, LongHex, LongDecimal, Pointer, Unknown, LongUnknown, LongDirective, Directive, Scanning
  <2>2. CASE Literal \/ Percent \/ Character \/ String \/ Unknown \/ LongUnknown
    <3>1. \E k, n : stack' = Moved(k, n)
      BY <2>2 DEF Literal, Percent, Character, String, Unknown, LongUnknown, Emit
    <3> QED
      BY <1>1, <2>1, <3>1
  <2>3. CASE \/ Decimal \/ UnsignedDecimal \/ Hex \/ UpperHex \/ LongUnsigned \/ LongHex \/ LongDecimal
    <3>1. \E k, n : stack' = Moved(k, n)
      BY <2>3 DEF Decimal, UnsignedDecimal, Hex, UpperHex, LongUnsigned, LongHex, LongDecimal,
           Signed, Unsigned, Convert
    <3> QED
      BY <1>1, <2>1, <3>1
  <2>4. CASE Pointer
    <3>1. PICK f : stack' = <<f>> \o Moved(2, 1)
      BY <2>4 DEF Pointer
    <3>2. PICK st : st = Moved(2, 1)
      OBVIOUS
    <3>3. PICK T : st \in Seq(T)
      BY <2>1, <3>2, MovedStacked
    <3> DEFINE S == T \cup {f}
               x == <<f>>
    <3>4. x \in Seq(S) /\ st \in Seq(S) /\ Len(x) = 1
      <4>1. x \in Seq(S) /\ Len(x) = 1
        OBVIOUS
      <4>2. T \subseteq S
        OBVIOUS
      <4> HIDE DEF S, x
      <4>3. st \in Seq(S)
        BY <3>3, <4>2
      <4> QED
        BY <4>1, <4>3
    <3> HIDE DEF S, x
    <3>5. x \o st \in Seq(S) /\ Len(x \o st) = Len(x) + Len(st) /\ Len(st) \in Nat
      <4>1. ASSUME NEW U, NEW v \in Seq(U), NEW w \in Seq(U)
            PROVE  v \o w \in Seq(U) /\ Len(v \o w) = Len(v) + Len(w) /\ Len(w) \in Nat
        BY ConcatProperties
      <4> QED
        BY <3>4, <4>1
    <3> DEFINE y == x \o st
    <3>6. y \in Seq(S) /\ Len(y) > 0
      BY <3>4, <3>5
    <3>7. stack' = y
      BY <3>1, <3>2 DEF x
    <3> HIDE DEF y
    <3>8. y # <<>>
      BY <3>6
    <3> QED
      BY <3>6, <3>7, <3>8 DEF Stacked
  <2> QED
    BY <1>5, <2>2, <2>3, <2>4 DEF Conversion
<1>6. CASE Divide
  BY <1>3, <1>6 DEF Divide, Stacked
<1>7. CASE Put
  BY <1>3, <1>7 DEF Put, Stacked
<1>8. CASE Return
  <2>1. PICK T : stack \in Seq(T)
    BY DEF Stacked
  <2>2. stack # <<>> /\ stack' = Tail(stack) /\ number' = number /\ number = <<>>
    BY <1>8 DEF Return, Scanning
  <2>3. Tail(stack) \in Seq(T)
    BY <2>1, <2>2
  <2> QED
    BY <2>2, <2>3 DEF Stacked
<1>9. CASE UNCHANGED vars
  BY <1>3, <1>9 DEF vars, Stacked
<1> QED
  BY <1>4, <1>5, <1>6, <1>7, <1>8, <1>9 DEF Next

(* The calls a caller makes are well written, or break off at their end.   *)
LEMMA CallWritten ==
  ASSUME NEW c \in Calls, c.call = "kprintf",
         c.pieces = <<>> \/ Last(c.pieces).text \notin {<<"%">>, <<"%", "l">>}
  PROVE  WellWritten(c.pieces)
<1> DEFINE ps == c.pieces
<1>1. IsCall(c)
  BY ProgramsAssumption
<1>2. /\ ps \in Seq(Range(ps))
      /\ \A i \in DOMAIN ps : IsPiece(ps[i]) \/ (i = Len(ps) /\ BreaksOff(ps[i]))
  BY <1>1 DEF IsCall
<1>3. ASSUME NEW i \in DOMAIN ps PROVE IsPiece(ps[i])
  <2>1. CASE i = Len(ps) /\ BreaksOff(ps[i])
    <3>1. ps # <<>>
      BY <1>3
    <3>2. Last(ps) = ps[i]
      BY <2>1 DEF Last
    <3> QED
      BY <2>1, <3>1, <3>2 DEF BreaksOff
  <2> QED
    BY <1>2, <2>1
<1> QED
  BY <1>2, <1>3 DEF WellWritten

(* A call begins.                                                          *)
LEMMA ScanBegins ==
  ASSUME ScanInv, kprintf \/ panic
  PROVE  ScanInv'
<1>1. /\ program \in Seq(Calls) /\ program # <<>> /\ Idle /\ number = <<>>
  BY DEF ScanInv, Stacked, kprintf, panic, CallerRuns, Idle
<1>2. Head(program) \in Calls /\ Tail(program) \in Seq(Calls)
  BY <1>1
<1>3. Stacked'
  BY StackedStays DEF ScanInv, Next
<1>4. ASSUME NEW ps, NEW beyond \in Seq(Chars), Start(ps, beyond),
             ps = <<>> \/ Last(ps).text \notin {<<"%">>, <<"%", "l">>} => WellWritten(ps)
      PROVE  ScanInv'
  <2>1. pieces' = ps /\ program' = Tail(program)
    BY <1>4 DEF Start
  <2>2. Written'
    BY <1>4, <2>1 DEF Written, Unfinished
  <2>3. WellWritten(pieces') => Sensible'
    BY <1>1, <1>4, <2>1, StartSensible
  <2> QED
    BY <1>2, <1>3, <2>1, <2>2, <2>3 DEF ScanInv
<1>5. CASE kprintf
  <2>1. PICK beyond \in Beyond : Start(Head(program).pieces, beyond)
    BY <1>5 DEF kprintf
  <2>2. PICK c : c = Head(program)
    OBVIOUS
  <2>3. beyond \in Seq(Chars)
    BY <2>1, ProgramsAssumption DEF Chars
  <2>4. c \in Calls /\ c.call = "kprintf" /\ Start(c.pieces, beyond)
    BY <1>2, <1>5, <2>1, <2>2 DEF kprintf
  <2> QED
    BY <1>4, <2>3, <2>4, CallWritten
<1>6. CASE panic
  <2>1. PICK c : c = Head(program)
    OBVIOUS
  <2>2. c \in Calls /\ c.call = "panic" /\ Start(PanicPieces(c.msg), <<>>)
    BY <1>2, <1>6, <2>1 DEF panic
  <2>3. c.msg \in Strings
    BY <2>2, ProgramsAssumption DEF IsCall
  <2>4. <<>> \in Seq(Chars) /\ WellWritten(PanicPieces(c.msg))
    BY <2>3, PanicFormat
  <2> QED
    BY <1>4, <2>2, <2>4
<1> QED
  BY <1>5, <1>6

(* A step of the call that runs                                            *)
LEMMA ScanGoesOn ==
  ASSUME ScanInv, NumberFits, Conversion \/ Divide \/ Put \/ Return \/ UNCHANGED vars
  PROVE  ScanInv'
<1>1. UNCHANGED <<program, pieces>>
  BY DEF Conversion, Literal, Percent, Character, String, Decimal, UnsignedDecimal, Hex, UpperHex,
         LongUnsigned, LongHex, LongDecimal, Pointer, Unknown, LongUnknown, Emit, Signed, Unsigned, Convert,
         Divide, Put, Return, vars
<1>2. Stacked'
  BY StackedStays DEF ScanInv, Next
<1>3. Written'
  BY <1>1 DEF ScanInv, Written, Unfinished, WellWritten
<1>4. ASSUME WellWritten(pieces) PROVE Sensible'
  <2>1. Sensible
    BY <1>4 DEF ScanInv
  <2>2. CASE Conversion /\ ~Pointer
    BY <1>4, <2>1, <2>2, ConversionSensible
  <2>3. CASE Pointer
    BY <1>4, <2>1, <2>3, PointerSensible
  <2>4. CASE Divide
    BY <2>1, <2>4, DivideSensible
  <2>5. CASE Put
    BY <2>1, <2>5, PutSensible
  <2>6. CASE Return
    BY <1>4, <2>1, <2>6, ReturnSensible
  <2>7. CASE UNCHANGED vars
    BY <2>1, <2>7, SensibleStays DEF vars
  <2> QED
    BY <2>2, <2>3, <2>4, <2>5, <2>6, <2>7
<1>5. WellWritten(pieces') => Sensible'
  BY <1>1, <1>4
<1> QED
  BY <1>1, <1>2, <1>3, <1>5 DEF ScanInv

(* Nothing was called yet.                                                 *)
LEMMA ScanInit ==
  ASSUME Init
  PROVE  ScanInv
<1>1. /\ program \in Programs /\ stack = <<>> /\ number = <<>> /\ pending = <<>>
      /\ pieces = <<>> /\ put = <<>>
  BY DEF Init
<1>2. program \in Seq(Calls)
  BY <1>1, ProgramsAssumption
<1>3. \E T : stack \in Seq(T)
  BY <1>1
<1>4. WellWritten(<<>>)
  BY DEF WellWritten
<1>5. Whole(<<>>) = <<>>
  <2>1. PICK m : m = Meanings(<<>>)
    OBVIOUS
  <2>2. m \in Lists(Chars) /\ Len(m) = Len(<<>>)
    BY <1>4, <2>1, ListTypes
  <2>3. Len(m) = 0 /\ m = <<>>
    BY <2>2 DEF Lists
  <2>4. FlattenSeq(m) = m
    BY <2>3 DEF FlattenSeq
  <2> QED
    BY <2>1, <2>3, <2>4 DEF Whole
<1>6. Sensible
  <2>1. <<>> \in Seq(Chars) /\ <<>> \o <<>> = <<>>
    OBVIOUS
  <2>2. ToPrint(<<>>) /\ Scans(<<>>, stack, <<>>)
    BY <1>1, <1>5, <2>1 DEF ToPrint, Converts, Scans
  <2>3. Scans(<<>>, stack, <<>> \o <<>>)
    BY <2>1, <2>2
  <2> QED
    BY <1>1, <2>1, <2>2, <2>3 DEF Sensible
<1> QED
  BY <1>1, <1>2, <1>3, <1>4, <1>6 DEF ScanInv, Stacked, Written

(* What was printed is what was asked for so far, in every state of a run. *)
LEMMA ScanInvariant == Spec => []ScanInv
<1>1. Init => ScanInv
  BY ScanInit
<1>2. ScanInv /\ NumberFits /\ [Next]_vars => ScanInv'
  BY ScanBegins, ScanGoesOn DEF Next
<1> QED
  BY <1>1, <1>2, NumberFitsInvariant, PTL DEF Spec

-----------------------------------------------------------------------------
(* The properties *)

(* What is printed so far is a prefix of what was asked for.               *)
LEMMA ScansPrefix ==
  ASSUME NEW ps, WellWritten(ps), NEW st, NEW out, Scans(ps, st, out)
  PROVE  Whole(ps) = out \/ \E tail \in Seq(Chars) : Whole(ps) = out \o tail
<1>1. CASE st = <<>> /\ out = Whole(ps)
  BY <1>1
<1>2. ASSUME NEW f, Runs(ps, f, out)
      PROVE  \E tail \in Seq(Chars) : Whole(ps) = out \o tail
  BY <1>2, PlaceSaid DEF Runs
<1>3. ASSUME NEW g, NEW f, NEW a, NEW s, NEW said, Nested(ps, st, out, g, f, a, s, said)
      PROVE  \E tail \in Seq(Chars) : Whole(ps) = out \o tail
  <2>1. PICK w : w = Whole(PointerPieces(a))
    OBVIOUS
  <2>2. PICK v : v = Whole(ps)
    OBVIOUS
  <2>3. a \in UnsignedValues(LongWord) /\ s \in Seq(Chars) /\ said \in Seq(Chars) /\ out = s \o said
    BY <1>3 DEF Nested
  <2>4. PICK t \in Seq(Chars) : w = said \o t
    <3>1. WellWritten(PointerPieces(a)) /\ \E at, args : Place(PointerPieces(a), at, args, said)
      BY <1>3, <2>3, PointerFormat DEF Nested, Runs
    <3> QED
      BY <2>1, <3>1, PlaceSaid
  <2>5. PICK u \in Seq(Chars) : v = (s \o w) \o u
    <3>1. \E at, args : Place(ps, at, args, s \o w)
      BY <1>3, <2>1 DEF Nested, Runs
    <3> QED
      BY <2>2, <3>1, PlaceSaid
  <2>6. /\ Joined(t, u) \in Seq(Chars)
        /\ Joined(Joined(s, Joined(said, t)), u) = Joined(Joined(s, said), Joined(t, u))
    <3>1. s \in Seq(Chars) /\ said \in Seq(Chars) /\ t \in Seq(Chars) /\ u \in Seq(Chars)
      BY <2>3, <2>4, <2>5
    <3> QED
      BY <3>1, JoinedFacts
  <2>7. t \o u \in Seq(Chars) /\ (s \o (said \o t)) \o u = (s \o said) \o (t \o u)
    BY <2>6 DEF Joined
  <2>8. v = out \o (t \o u)
    BY <2>3, <2>4, <2>5, <2>7, Zenon
  <2> QED
    BY <2>2, <2>7, <2>8, Zenon
<1> QED
  BY <1>1, <1>2, <1>3 DEF Scans

(* The front of a string is a prefix of it.                                *)
LEMMA FrontIsPrefix ==
  ASSUME NEW u \in Seq(Chars), NEW v \in Seq(Chars)
  PROVE  IsPrefix(u, u \o v)
<1> DEFINE S == Chars
           t == u \o v
<1>1. u \in Seq(S) /\ v \in Seq(S)
  OBVIOUS
<1> HIDE DEF S
<1>2. /\ t \in Seq(S) /\ Len(t) = Len(u) + Len(v)
      /\ \A i \in 1 .. Len(u) + Len(v) : t[i] = IF i <= Len(u) THEN u[i] ELSE v[i - Len(u)]
  BY <1>1, ConcatProperties
<1> HIDE DEF t
<1>3. Len(u) \in Nat /\ Len(v) \in Nat /\ Len(u) <= Len(t)
  BY <1>1, <1>2
<1>4. \A i \in 1 .. Len(u) : t[i] = u[i]
  BY <1>2, <1>3
<1>5. SubSeq(u, 1, Len(u)) = SubSeq(t, 1, Len(u))
  <2>1. SubSeq(u, 1, Len(u)) = u
    BY <1>1
  <2> DEFINE w == SubSeq(t, 1, Len(u))
  <2>2. w \in Seq(S) /\ Len(w) = Len(u) /\ \A i \in 1 .. Len(u) : w[i] = t[i]
    BY <1>2, <1>3, SubSeqProperties
  <2> HIDE DEF w
  <2>3. w = u
    BY <1>1, <1>4, <2>2, SeqEqual
  <2> QED
    BY <2>1, <2>3 DEF w
<1>6. IsPrefix(u, t)
  BY <1>3, <1>5 DEF IsPrefix
<1> QED
  BY <1>6 DEF t

(* What was asked for so far is the front of all that is.                  *)
LEMMA ScanPrints == ScanInv => PrintsAsAsked
<1> SUFFICES ASSUME ScanInv, ~ Unfinished
             PROVE  IsPrefix(put, Asked) /\ (Idle => put = Asked)
  BY DEF PrintsAsAsked
<1>1. WellWritten(pieces) /\ Sensible
  BY DEF ScanInv, Written
<1>2. Asked = Whole(pieces)
  BY DEF Asked, Whole, Meanings
<1>3. PICK new \in Seq(Chars) : ToPrint(new) /\ Scans(pieces, stack, put \o new)
  BY <1>1 DEF Sensible
<1>4. put \in Seq(Chars)
  BY <1>1 DEF Sensible
<1>5. \E tail \in Seq(Chars) : Asked = put \o tail
  <2>1. PICK v : v = Whole(pieces)
    OBVIOUS
  <2>2. PICK out : out = put \o new
    OBVIOUS
  <2>3. v = out \/ \E tail \in Seq(Chars) : v = out \o tail
    BY <1>1, <1>3, <2>1, <2>2, ScansPrefix
  <2>4. ASSUME NEW tail \in Seq(Chars), v = out \o tail
        PROVE  new \o tail \in Seq(Chars) /\ v = put \o (new \o tail)
    BY <1>4, <2>2, <2>4, Regroup, Zenon
  <2> QED
    BY <1>2, <2>1, <2>2, <2>3, <2>4, Zenon
<1>6. IsPrefix(put, Asked)
  BY <1>4, <1>5, FrontIsPrefix
<1>7. ASSUME Idle PROVE put = Asked
  <2>1. stack = <<>> /\ number = <<>> /\ pending = <<>>
    BY <1>7 DEF Idle, ScanInv, Stacked
  <2>2. Scans(pieces, stack, put)
    BY <1>1, <2>1, NothingPending
  <2> QED
    BY <1>2, <2>1, <2>2 DEF Scans, Nested
<1> QED
  BY <1>6, <1>7

(* The places of a format are not behind its terminator, and at the        *)
(* terminator no argument is left.                                         *)
LEMMA ScanStays == ScanInv => StaysInFormat
<1> SUFFICES ASSUME ScanInv, ~ Unfinished
             PROVE  /\ stack # <<>> => Last(stack).at <= Len(Text(pieces)) + 1
                    /\ Scanning /\ Char(0) = NUL => stack[1].args = <<>>
  BY DEF StaysInFormat
<1>1. WellWritten(pieces) /\ Sensible
  BY DEF ScanInv, Written
<1>2. ASSUME stack # <<>> PROVE Last(stack).at <= Len(Text(pieces)) + 1
  <2>1. PICK out : Scans(pieces, stack, out)
    BY <1>1 DEF Sensible
  <2>2. PICK ps : ps = pieces
    OBVIOUS
  <2>3. ASSUME NEW f, NEW said, Runs(ps, f, said) PROVE f.at <= Len(Text(ps)) + 1
    BY <1>1, <2>2, <2>3, PlaceBound DEF Runs
  <2>4. ASSUME NEW f, stack = <<f>>, Runs(ps, f, out) PROVE Last(stack).at <= Len(Text(ps)) + 1
    <3>1. Last(stack) = f
      BY <2>4 DEF Last
    <3> QED
      BY <2>3, <2>4, <3>1
  <2>5. ASSUME NEW g, NEW f, NEW a, NEW s, NEW said, Nested(ps, stack, out, g, f, a, s, said)
        PROVE  Last(stack).at <= Len(Text(ps)) + 1
    <3>1. stack = <<g, f>> /\ \E t : Runs(ps, f, t)
      BY <2>5 DEF Nested
    <3>2. Last(stack) = f
      BY <3>1 DEF Last
    <3> QED
      BY <2>3, <3>1, <3>2
  <2> QED
    BY <1>2, <2>1, <2>2, <2>4, <2>5 DEF Scans
<1>3. ASSUME Scanning, Char(0) = NUL PROVE stack[1].args = <<>>
  <2>1. stack # <<>> /\ number = <<>> /\ pending = <<>>
    BY <1>3 DEF Scanning
  <2>2. Scans(pieces, stack, put)
    BY <1>1, <2>1, NothingPending
  <2>3. \E qs, f, low, said : Inner(qs, f, low, said) /\ stack[1] = f
    <3>1. ASSUME NEW f, stack = <<f>> PROVE stack[1] = f
      BY <3>1
    <3>2. ASSUME NEW g, NEW f, stack = <<g, f>> PROVE stack[1] = g
      BY <3>2
    <3>3. \A out, g, f, a, s, said : Nested(pieces, stack, out, g, f, a, s, said) => stack = <<g, f>>
      BY DEF Nested
    <3> QED
      BY <1>1, <2>1, <2>2, <3>1, <3>2, <3>3, ScansInner
  <2> QED
    BY <1>3, <2>3, AtTerminator
<1> QED
  BY <1>2, <1>3

(* kprintf prints exactly what its format and arguments ask for, whatever  *)
(* the callers print and whatever the strings, the values and the widths   *)
(* of int and long are.                                                    *)
THEOREM PrintsAsAskedAlways == Spec => []PrintsAsAsked
BY ScanPrints, ScanInvariant, PTL

(* kprintf never reads behind the terminator of a format that does not     *)
(* break off, and takes exactly the arguments it was given.                *)
THEOREM StaysInFormatAlways == Spec => []StaysInFormat
BY ScanStays, ScanInvariant, PTL

=============================================================================
