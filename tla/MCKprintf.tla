----------------------------- MODULE MCKprintf -----------------------------
(***************************************************************************)
(* Formats of up to two pieces for Kprintf, with an int of 10 bits and a   *)
(* long of 14, and arguments at the ends of their ranges and where the     *)
(* number of digits changes.                                               *)
(***************************************************************************)
EXTENDS Kprintf

IntBits == 2 ^ 10
LongBits == 2 ^ 14

Pow(base, n) == base ^ n

(* One more than the digits of the largest, as in the code *)
IntBuffers == [base \in {10, 16} |-> IF base = 10 THEN 5 ELSE 4]
LongBuffers == [base \in {10, 16} |-> IF base = 10 THEN 6 ELSE 5]

Characters ==
  Known \cup {Lower[i] : i \in 1 .. 16} \cup {Upper[i] : i \in 1 .. 16}
    \cup {"-", "P", "A", "N", "I", "C", ":", " ", "newline", "q", "o", "n"}

Codes == [n \in 0 .. 3 |-> <<"nul", "a", "%", "d">>[n + 1]]

Piece(text, arg) == [text |-> text, args |-> <<arg>>]

Plain == {[text |-> t, args |-> <<>>] :
            t \in {<<"a">>, <<"d">>, <<"newline">>, <<"%", "%">>,
                   <<"%", "q">>, <<"%", "l", "q">>, <<"a", "l", "x">>}}

Directives ==
  {Piece(<<"%", "c">>, c) : c \in {1, 2, 7}}
    \cup {Piece(<<"%", "s">>, s) : s \in {<<>>, <<"%", "d">>, <<"a", "newline", "%">>}}
    \cup {Piece(<<"%", c>>, n) : c \in {"d", "i"}, n \in {-512, -10, 0, 511}}
    \cup {Piece(<<"%", c>>, n) : c \in {"u", "x", "X"}, n \in {0, 9, 171, 1023}}
    \cup {Piece(<<"%", "l", "d">>, n) : n \in {-8192, -1, 8191}}
    \cup {Piece(<<"%", "l", c>>, n) : c \in {"u", "x"}, n \in {0, 16, 16383}}
    \cup {Piece(<<"%", "p">>, n) : n \in {0, 16383}}

BrokenOff == {[text |-> t, args |-> <<>>] : t \in {<<"%">>, <<"%", "l">>}}

Whole == Plain \cup Directives

Formats ==
  {<<>>} \cup {<<a, b>> : a \in Whole, b \in Whole}
    \cup {<<a, b, c>> : a \in Plain, b \in Directives, c \in Directives}
    \cup {<<a, b>> : a \in Plain, b \in BrokenOff}

Message == <<"o", "n">>

PanicBetween ==
  {<<[call |-> "kprintf", pieces |-> <<a>>], [call |-> "panic", msg |-> Message],
     [call |-> "kprintf", pieces |-> <<a>>]>> : a \in Whole}

AllPrograms == {<<[call |-> "kprintf", pieces |-> f]>> : f \in Formats} \cup PanicBetween

(* Nothing, or another string *)
Behind == {<<"nul">>, <<"a", "nul">>}

=============================================================================
