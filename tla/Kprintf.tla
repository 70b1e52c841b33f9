------------------------------ MODULE Kprintf ------------------------------
(***************************************************************************)
(* kprintf and panic of console.cpp: the scan of the format, the digit     *)
(* loops and their buffers, and what kputc is called with (kputc itself is *)
(* module Console).  Integers have the width of the words they come in.    *)
(*                                                                         *)
(* A program is the list of calls its callers make.  A format is given as  *)
(* the list of pieces it was written from, [text, args], so that what it   *)
(* should print is known without reading it the way the code does.         *)
(*                                                                         *)
(* An operator named Op_Bug is Op with a plausible bug; the specification  *)
(* uses none of them, they show which properties would notice.             *)
(***************************************************************************)
EXTENDS Integers, Sequences, SequencesExt

CONSTANTS
  IntWord, LongWord,  \* 2^32 and 2^64, the unsigned values of the words
  IntRoom, LongRoom,  \* size of the digit buffers: base -> length
  Power(_, _),        \* base to the power of n
  CharWord, CharOf,   \* 2^8, and the character of each of its codes
  Alphabet, NUL,      \* characters of strings, and the one that ends them
  Beyond,             \* strings that may follow a format in memory
  Programs            \* sequences of Kprintf and Panic records

(* The buffers have room for the longest numeral of their word.            *)
Room(word, base, room) ==
  /\ room \in Nat \ {0}
  /\ Power(base, 0) = 1
  /\ \A n \in 1 .. room : Power(base, n - 1) \in Nat /\ Power(base, n) = base * Power(base, n - 1)
  /\ word <= Power(base, room)

ASSUME KprintfAssumption ==
  /\ IntWord \in Nat \ {0} /\ LongWord \in Nat \ {0}
  /\ \A base \in {10, 16} :
       /\ Room(IntWord, base, IntRoom[base]) /\ Room(LongWord, base, LongRoom[base])
       /\ IntRoom[base] <= LongRoom[base]

VARIABLES
  program,    \* calls still to be made
  panicking,  \* panic was called
  stack,      \* calls of kprintf that have not returned, innermost first:
              \* text in memory, position, arguments left
  number,     \* digit loop: <<>>, or what is being converted
  pending,    \* characters on their way to kputc
  pieces,     \* format of the outermost call (ghost)
  put         \* what kputc got since that call (ghost)

vars == <<program, panicking, stack, number, pending, pieces, put>>

-----------------------------------------------------------------------------
Lower == <<"0","1","2","3","4","5","6","7","8","9","a","b","c","d","e","f">>
Upper == <<"0","1","2","3","4","5","6","7","8","9","A","B","C","D","E","F">>

Known == {"%", "c", "s", "d", "i", "u", "x", "X", "l", "p"}

Strings == Seq(Alphabet)

SignedValues(word) == -(word \div 2) .. (word \div 2 - 1)

UnsignedValues(word) == 0 .. (word - 1)

(* The values of the type a directive stands for                           *)
Takes(t, a) ==
  \/ t = <<"%", "c">> /\ a \in Int
  \/ t = <<"%", "s">> /\ a \in Strings
  \/ t \in {<<"%", "d">>, <<"%", "i">>} /\ a \in SignedValues(IntWord)
  \/ t \in {<<"%", "u">>, <<"%", "x">>, <<"%", "X">>} /\ a \in UnsignedValues(IntWord)
  \/ t = <<"%", "l", "d">> /\ a \in SignedValues(LongWord)
  \/ t \in {<<"%", "l", "u">>, <<"%", "l", "x">>, <<"%", "p">>} /\ a \in UnsignedValues(LongWord)

IsText(t) == t # <<>> /\ \A i \in DOMAIN t : t[i] # "%"

(* A percent sign that is doubled, or that no directive follows            *)
IsPercent(t) ==
  \/ t = <<"%", "%">>
  \/ Len(t) = 2 /\ t[1] = "%" /\ t[2] \notin Known
  \/ Len(t) = 3 /\ t[1] = "%" /\ t[2] = "l" /\ t[3] \notin {"u", "x", "d"}

(* What a format is written from                                           *)
IsPiece(p) ==
  /\ p.text \in Strings
  /\ \/ p.args = <<>> /\ (IsText(p.text) \/ IsPercent(p.text))
     \/ p.args # <<>> /\ p.args = <<p.args[1]>> /\ Takes(p.text, p.args[1])

BreaksOff(p) == p.text \in {<<"%">>, <<"%", "l">>} /\ p.args = <<>>

IsCall(c) ==
  \/ /\ c.call = "kprintf"
     /\ c.pieces \in Seq(Range(c.pieces))
     /\ \A i \in DOMAIN c.pieces :
          IsPiece(c.pieces[i]) \/ (i = Len(c.pieces) /\ BreaksOff(c.pieces[i]))
  \/ c.call = "panic" /\ c.msg \in Strings

Calls == UNION {Range(p) : p \in Programs}

(* Strings and formats have no terminator inside them, and programs are    *)
(* lists of calls.                                                         *)
ASSUME ProgramsAssumption ==
  /\ NUL \notin Alphabet
  /\ Known \cup Range(Lower) \cup Range(Upper) \subseteq Alphabet
  /\ {"-", "P", "A", "N", "I", "C", ":", " ", "newline"} \subseteq Alphabet
  /\ CharWord \in Nat \ {0}
  /\ \A n \in 0 .. (CharWord - 1) : CharOf[n] \in Alphabet \cup {NUL}
  /\ Beyond \subseteq Seq(Alphabet \cup {NUL})
  /\ Programs \subseteq Seq(Calls)
  /\ \A c \in Calls : IsCall(c)

Text(ps) == FlattenSeq([i \in DOMAIN ps |-> ps[i].text])
Args(ps) == FlattenSeq([i \in DOMAIN ps |-> ps[i].args])

PanicPieces(msg) ==
  <<[text |-> <<"P", "A", "N", "I", "C", ":", " ">>, args |-> <<>>],
    [text |-> <<"%", "s">>, args |-> <<msg>>],
    [text |-> <<"newline">>, args |-> <<>>]>>

(* The literal is followed in memory by whatever the linker put there. *)
Frame(text, args, beyond) ==
  [text |-> text \o <<NUL>> \o beyond, at |-> 1, args |-> args]

Idle == stack = <<>> /\ pending = <<>>

Scanning == stack # <<>> /\ number = <<>> /\ pending = <<>>

Char(k) == stack[1].text[stack[1].at + k]

Arg == Head(stack[1].args)

Moved_ArgKept(k, n) == [stack EXCEPT ![1].at = @ + k]

(* The loop goes k characters on and n arguments are taken. *)
Moved(k, n) ==
  [stack EXCEPT ![1].at = @ + k, ![1].args = SubSeq(@, n + 1, Len(@))]

Directive(c) == Scanning /\ Char(0) = "%" /\ Char(1) = c
LongDirective(c) == Directive("l") /\ Char(2) = c

Emit(chars, k, n) ==
  /\ pending' = chars
  /\ stack' = Moved(k, n)
  /\ UNCHANGED <<program, panicking, number, pieces, put>>

Convert(sign, v, base, table, room, k) ==
  /\ pending' = sign
  /\ number' = [v |-> v, base |-> base, table |-> table, room |-> room[base], buf |-> <<>>]
  /\ stack' = Moved(k, 1)
  /\ UNCHANGED <<program, panicking, pieces, put>>

(* Callers pass arguments of the types their directives take.              *)
Unsigned(word, base, table, room, k) ==
  \E v \in {Arg} \cap UnsignedValues(word) : Convert(<<>>, v, base, table, room, k)

Magnitude_Kept(num, word) == num % word

(* -num, which wraps for the smallest, read as unsigned *)
Magnitude(num, word) == IF num < 0 THEN (-num) % word ELSE num

Signed(word, room, k) ==
  \E num \in {Arg} \cap SignedValues(word) :
    Convert(IF num < 0 THEN <<"-">> ELSE <<>>, Magnitude(num, word), 10, Lower, room, k)

-----------------------------------------------------------------------------
(* The cases of kprintf *)

Literal ==
  /\ Scanning /\ Char(0) \notin {"%", NUL}
  /\ Emit(<<Char(0)>>, 1, 0)

Percent == Directive("%") /\ Emit(<<"%">>, 2, 0)

Character == Directive("c") /\ Emit(<<CharOf[Arg % CharWord]>>, 2, 1)

String == Directive("s") /\ Emit(Arg, 2, 1)

Decimal == (Directive("d") \/ Directive("i")) /\ Signed(IntWord, IntRoom, 2)

UnsignedDecimal == Directive("u") /\ Unsigned(IntWord, 10, Lower, IntRoom, 2)

Hex == Directive("x") /\ Unsigned(IntWord, 16, Lower, IntRoom, 2)

UpperHex == Directive("X") /\ Unsigned(IntWord, 16, Upper, IntRoom, 2)

LongUnsigned == LongDirective("u") /\ Unsigned(LongWord, 10, Lower, LongRoom, 3)

LongHex == LongDirective("x") /\ Unsigned(LongWord, 16, Lower, LongRoom, 3)

LongDecimal == LongDirective("d") /\ Signed(LongWord, LongRoom, 3)

(* kprintf("0x%lx", ptr) *)
Pointer ==
  /\ Directive("p")
  /\ stack' = <<Frame(<<"0", "x", "%", "l", "x">>, <<Arg>>, <<>>)>> \o Moved(2, 1)
  /\ UNCHANGED <<program, panicking, number, pending, pieces, put>>

(* An unknown directive is printed as it stands.  The terminator is        *)
(* unknown too, and the loop then goes on behind it.                       *)
Unknown ==
  /\ Scanning /\ Char(0) = "%" /\ Char(1) \notin Known
  /\ Emit(<<"%", Char(1)>>, 2, 0)

LongUnknown ==
  /\ Directive("l") /\ Char(2) \notin {"u", "x", "d"}
  /\ Emit(<<"%", "l", Char(2)>>, 3, 0)

(* One round of a digit loop; the digits are then printed last to first.   *)
Quotient_Signed(v, base) == IF v >= LongWord \div 2 THEN v ELSE v \div base

Quotient(v, base) == v \div base

Divide ==
  /\ number # <<>> /\ pending = <<>>
  /\ LET rest == Quotient(number.v, number.base)
         buf  == Append(number.buf, number.table[(number.v % number.base) + 1])
     IN  IF rest = 0
           THEN number' = <<>> /\ pending' = Reverse(buf)
           ELSE number' = [number EXCEPT !.v = rest, !.buf = buf] /\ UNCHANGED pending
  /\ UNCHANGED <<program, panicking, stack, pieces, put>>

(* kputc *)
Put ==
  /\ pending # <<>>
  /\ put' = Append(put, Head(pending))
  /\ pending' = Tail(pending)
  /\ UNCHANGED <<program, panicking, stack, number, pieces>>

Return_NotNested ==
  /\ Scanning /\ Char(0) = NUL /\ Len(stack) = 1
  /\ stack' = Tail(stack)
  /\ UNCHANGED <<program, panicking, number, pending, pieces, put>>

Return ==
  /\ Scanning /\ Char(0) = NUL
  /\ stack' = Tail(stack)
  /\ UNCHANGED <<program, panicking, number, pending, pieces, put>>

-----------------------------------------------------------------------------
Start(ps, beyond) ==
  /\ stack' = <<Frame(Text(ps), Args(ps), beyond)>>
  /\ pieces' = ps
  /\ put' = <<>>
  /\ program' = Tail(program)
  /\ UNCHANGED <<number, pending>>

CallerRuns_Always == program # <<>> /\ Idle

(* panic loops forever after its message: its caller never goes on. *)
CallerRuns == program # <<>> /\ Idle /\ ~panicking

kprintf ==
  /\ CallerRuns /\ Head(program).call = "kprintf"
  /\ \E beyond \in Beyond : Start(Head(program).pieces, beyond)
  /\ UNCHANGED panicking

panic ==
  /\ CallerRuns /\ Head(program).call = "panic"
  /\ Start(PanicPieces(Head(program).msg), <<>>)
  /\ panicking' = TRUE

Init ==
  /\ program \in Programs
  /\ panicking = FALSE
  /\ stack = <<>> /\ number = <<>> /\ pending = <<>>
  /\ pieces = <<>> /\ put = <<>>

Conversion ==
  \/ Literal \/ Percent \/ Character \/ String \/ Decimal \/ UnsignedDecimal \/ Hex \/ UpperHex
  \/ LongUnsigned \/ LongHex \/ LongDecimal \/ Pointer \/ Unknown \/ LongUnknown

Next == kprintf \/ panic \/ Conversion \/ Divide \/ Put \/ Return

Spec == Init /\ [][Next]_vars

FairSpec == Spec /\ WF_vars(Next)

-----------------------------------------------------------------------------
(* Properties *)

(* The base-b numeral of v: as many digits as needed, at least one. *)
Numeral(v, base, table) ==
  LET n == CHOOSE k \in 1 .. LongRoom[base] :
             v < Power(base, k) /\ (k = 1 \/ v >= Power(base, k - 1))
  IN  [i \in 1 .. n |-> table[((v \div Power(base, n - i)) % base) + 1]]

(* What a piece asks for; what is no directive is printed as it is. *)
Meaning(piece) ==
  LET t == piece.text
      a == IF piece.args = <<>> THEN 0 ELSE piece.args[1]
  IN  CASE t = <<"%", "%">> -> <<"%">>
        [] t = <<"%", "c">> -> <<CharOf[a % CharWord]>>
        [] t = <<"%", "s">> -> a
        [] t \in {<<"%", "d">>, <<"%", "i">>, <<"%", "l", "d">>} ->
             IF a < 0 THEN <<"-">> \o Numeral(-a, 10, Lower) ELSE Numeral(a, 10, Lower)
        [] t \in {<<"%", "u">>, <<"%", "l", "u">>} -> Numeral(a, 10, Lower)
        [] t \in {<<"%", "x">>, <<"%", "l", "x">>} -> Numeral(a, 16, Lower)
        [] t = <<"%", "X">> -> Numeral(a, 16, Upper)
        [] t = <<"%", "p">> -> <<"0", "x">> \o Numeral(a, 16, Lower)
        [] OTHER -> t

Asked == FlattenSeq([i \in DOMAIN pieces |-> Meaning(pieces[i])])

(* The format breaks off within a directive. *)
Unfinished == pieces # <<>> /\ Last(pieces).text \in {<<"%">>, <<"%", "l">>}

(* kprintf prints what its format and arguments ask for, character by      *)
(* character and no more, through every mix of directives, signs, bases    *)
(* and widths and through the call %p makes of itself.                     *)
PrintsAsAsked ==
  ~ Unfinished => /\ IsPrefix(put, Asked)
                  /\ Idle => put = Asked

(* No digit is stored behind the end of its buffer, and the value shrinks  *)
(* with the room that is left.                                             *)
BuffersHold ==
  number # <<>> =>
    /\ Len(number.buf) < number.room
    /\ number.v < Power(number.base, number.room - Len(number.buf))

(* The scan leaves the format behind its terminator only when the format   *)
(* breaks off within a directive, and each directive takes its argument:   *)
(* none is left and none is missing.                                       *)
StaysInFormat ==
  ~ Unfinished =>
    /\ stack # <<>> => Last(stack).at <= Len(Text(pieces)) + 1
    /\ Scanning /\ Char(0) = NUL => stack[1].args = <<>>

(* Every call of kprintf returns. *)
kprintfReturns == (stack # <<>>) ~> Idle

(* After panic its message stands, complete, and nothing is printed behind *)
(* it.                                                                     *)
PanicSaid ==
  /\ Idle /\ pieces # <<>>
  /\ pieces[1] = PanicPieces(<<>>)[1]
  /\ put = Asked

PanicHasLastWord == panicking ~> []PanicSaid

=============================================================================
