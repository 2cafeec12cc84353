--------------------------------- MODULE Apps ---------------------------------
(***************************************************************************)
(* The two applications of the desktop: the calculator                     *)
(* (apps/calculator.rs) and the terminal (apps/terminal.rs), one key at a  *)
(* time.  The calculator is followed through calculations whose results    *)
(* are whole numbers: its decimal point is left out.                       *)
(***************************************************************************)
EXTENDS Integers, Sequences, SequencesExt

CONSTANTS Digits, MaxKeys, MaxValue,
          Letters, Space,       \* the characters typed in the terminal
          Help, Clear,          \* the names of the two commands that tab completes
          Hel, Cle,             \* the prefixes it completes
          Prints,               \* how many lines a command may print
          MAX_HISTORY, MAX_OUTPUT_LINES, MaxLine, MaxLines, None

VARIABLES display, operand1, operator, clear_on_next, keys,
          output, input, cursor, history, transcript, typed

calculator == <<display, operand1, operator, clear_on_next, keys>>
terminal == <<output, input, cursor, history, transcript, typed>>
vars == <<display, operand1, operator, clear_on_next, keys,
          output, input, cursor, history, transcript, typed>>

Abs(v) == IF v < 0 THEN -v ELSE v

-----------------------------------------------------------------------------
(* The calculator.  The display holds a sign and digits, perhaps none after *)
(* the sign, or what is left of the word "Error".                           *)

ErrorLetters == 5
Number(neg, digits) == [neg |-> neg, digits |-> digits, letters |-> 0]
Zero == Number(FALSE, <<0>>)
Error == [neg |-> FALSE, digits |-> <<>>, letters |-> ErrorLetters]

\* format!("{}", v)
Format(neg, v) ==
    Number(neg, IF v < 10 THEN <<v>> ELSE IF v < 100 THEN <<v \div 10, v % 10>>
                ELSE <<v \div 100, (v \div 10) % 10, v % 10>>)

Parses == display.letters = 0 /\ display.digits # <<>>
Value == LET n == FoldLeft(LAMBDA a, d : 10 * a + d, 0, display.digits)
         IN  IF display.neg THEN -n ELSE n

\* a whole result the display has room for
Whole(a, op, b) ==
    CASE op = "+" -> Abs(a + b) <= MaxValue
      [] op = "-" -> Abs(a - b) <= MaxValue
      [] op = "*" -> Abs(a * b) <= MaxValue
      [] op = "/" -> IF b = 0 THEN TRUE ELSE Abs(a) % Abs(b) = 0

Apply(a, op, b) ==
    CASE op = "+" -> a + b
      [] op = "-" -> a - b
      [] op = "*" -> a * b
      [] op = "/" -> IF (a < 0) = (b < 0) THEN Abs(a) \div Abs(b) ELSE -(Abs(a) \div Abs(b))

Pressed(k, d) == Len(keys) < MaxKeys /\ keys' = Append(keys, <<k, d>>) /\ UNCHANGED terminal

Digit(d) ==
    LET kept == IF clear_on_next \/ display = Zero THEN Number(FALSE, <<>>) ELSE display
    IN  /\ Pressed("digit", d)
        /\ Len(kept.digits) < 2      \* a bound of the model
        /\ display' = [kept EXCEPT !.digits = Append(@, d)]
        /\ clear_on_next' = FALSE
        /\ UNCHANGED <<operand1, operator>>

\* calculate(), when there is something to calculate
Calculated ==
    IF operator = "/" /\ Value = 0
      THEN display' = Error /\ operand1' = None
      ELSE LET r == Apply(operand1, operator, Value)
           IN  display' = Format(r < 0, Abs(r)) /\ operand1' = r

Pending == Parses /\ operand1 # None /\ operator # None

\* A mutant: the operator that is pressed is the one that is applied.
OperatorNew(op) ==
    /\ Pressed(op, 0)
    /\ (Pending => Whole(operand1, op, Value))
    /\ IF Pending /\ (op # "/" \/ Value # 0)
         THEN LET r == Apply(operand1, op, Value) IN display' = Format(r < 0, Abs(r)) /\ operand1' = r
         ELSE /\ operand1' = IF Parses /\ operand1 = None THEN Value ELSE operand1
              /\ UNCHANGED display
    /\ operator' = op /\ clear_on_next' = TRUE

\* store_operand; with operand1 set and no operator the display is left alone
Operator(op) ==
    /\ Pressed(op, 0)
    /\ (Pending => Whole(operand1, operator, Value))
    /\ IF Pending THEN Calculated
       ELSE /\ operand1' = IF Parses /\ operand1 = None THEN Value ELSE operand1
            /\ UNCHANGED display
    /\ operator' = op /\ clear_on_next' = TRUE

Equals ==
    /\ Pressed("=", 0)
    /\ (Pending => Whole(operand1, operator, Value))
    /\ IF Pending THEN Calculated /\ operator' = None /\ clear_on_next' = TRUE
       ELSE UNCHANGED <<display, operand1, operator, clear_on_next>>

ClearAll ==
    /\ keys # <<>> /\ keys' = <<>> /\ UNCHANGED terminal
    /\ display' = Zero /\ operand1' = None /\ operator' = None /\ clear_on_next' = FALSE

Backspace ==
    /\ Pressed("backspace", 0)
    /\ display' = IF display.letters > 1 THEN [display EXCEPT !.letters = @ - 1]
                  ELSE IF display.letters = 1 \/ (~display.neg /\ Len(display.digits) = 1)
                          \/ (display.neg /\ display.digits = <<>>) THEN Zero
                  ELSE [display EXCEPT !.digits = Front(@)]
    /\ UNCHANGED <<operand1, operator, clear_on_next>>

Negate ==
    /\ Pressed("n", 0)
    /\ display' = IF Parses THEN Format(~display.neg, Abs(Value)) ELSE display
    /\ UNCHANGED <<operand1, operator, clear_on_next>>

-----------------------------------------------------------------------------
(* The terminal.                                                            *)

LastOf(s, n) == SubSeq(s, IF Len(s) > n THEN Len(s) - n + 1 ELSE 1, Len(s))

println(out, lines) == LastOf(out \o lines, MAX_OUTPUT_LINES)

Type(c) ==
    /\ Len(input) < MaxLine
    /\ input' = InsertAt(input, cursor + 1, c) /\ cursor' = cursor + 1
    /\ UNCHANGED <<calculator, output, history, transcript, typed>>

Rub ==
    /\ cursor > 0
    /\ input' = RemoveAt(input, cursor) /\ cursor' = cursor - 1
    /\ UNCHANGED <<calculator, output, history, transcript, typed>>

\* A mutant: the cursor stays where it was.
CompleteShort ==
    /\ IsPrefix(Hel, input) \/ IsPrefix(Cle, input)
    /\ input' = IF IsPrefix(Hel, input) THEN Help ELSE Clear
    /\ UNCHANGED <<calculator, cursor, output, history, transcript, typed>>

Complete ==
    /\ IsPrefix(Hel, input) \/ IsPrefix(Cle, input)
    /\ input' = IF IsPrefix(Hel, input) THEN Help ELSE Clear
    /\ cursor' = Len(input')
    /\ UNCHANGED <<calculator, output, history, transcript, typed>>

Trim(s) ==
    LET from == SelectInSeq(s, LAMBDA c : c # Space)  to == SelectLastInSeq(s, LAMBDA c : c # Space)
    IN  IF from = 0 THEN <<>> ELSE SubSeq(s, from, to)

FirstWord(s) == LET at == SelectInSeq(s, LAMBDA c : c = Space) IN IF at = 0 THEN s ELSE SubSeq(s, 1, at - 1)

\* A mutant: the oldest command is dropped one command late.
RememberedLate(h, cmd) == IF cmd = <<>> THEN h ELSE LastOf(Append(h, cmd), MAX_HISTORY + 1)

Remembered(h, cmd) == IF cmd = <<>> THEN h ELSE LastOf(Append(h, cmd), MAX_HISTORY)

\* execute_command: the echo, the history, the command's lines
execute_command ==
    LET cmd == Trim(input)
        echo == <<">", cmd>>
    IN  /\ Len(transcript) < MaxLines
        /\ \E n \in Prints \cup {0} :
              /\ (n = 0) = (cmd = <<>> \/ FirstWord(cmd) = Clear)
              /\ LET lines == [i \in 1..n |-> <<FirstWord(cmd), i>>]
                 IN  IF FirstWord(cmd) = Clear
                       THEN output' = <<>> /\ transcript' = <<>>
                       ELSE /\ output' = FoldLeft(LAMBDA out, l : println(out, <<l>>), println(output, <<echo>>), lines)
                            /\ transcript' = Append(transcript, echo) \o lines
        /\ history' = Remembered(history, cmd)
        /\ typed' = IF cmd = <<>> THEN typed ELSE LastOf(Append(typed, cmd), 2 * MAX_HISTORY)
        /\ input' = <<>> /\ cursor' = 0
        /\ UNCHANGED calculator

-----------------------------------------------------------------------------
Init ==
    /\ display = Zero /\ operand1 = None /\ operator = None /\ clear_on_next = FALSE /\ keys = <<>>
    /\ transcript = [i \in 1..3 |-> <<"banner", i>>]
    /\ output = println(<<>>, transcript)
    /\ input = <<>> /\ cursor = 0 /\ history = <<>> /\ typed = <<>>

CalculatorKey == \/ \E d \in Digits : Digit(d)
                 \/ \E op \in {"+", "-", "*", "/"} : Operator(op)
                 \/ Equals \/ ClearAll \/ Backspace \/ Negate
TerminalKey == (\E c \in Letters : Type(c)) \/ Rub \/ Complete \/ execute_command

Next == CalculatorKey \/ TerminalKey

Spec == Init /\ [][Next]_vars

-----------------------------------------------------------------------------
\* The applications' state has its type.
TypeOK ==
    /\ display.letters \in 0..ErrorLetters /\ Len(display.digits) \in 0..3
    /\ operator \in {None, "+", "-", "*", "/"} /\ clear_on_next \in BOOLEAN
    /\ cursor \in 0..Len(input)

IsDigit(k) == k[1] = "digit"
IsOperator(k) == k[1] \in {"+", "-", "*", "/"}
\* numbers and operators in turn; after "=" an operator goes on with the result
Calculation(ks) ==
    /\ ks # <<>> /\ IsDigit(ks[1])
    /\ \A i \in 2..Len(ks) :
          LET k == ks[i]  before == ks[i - 1]
          IN  \/ IsDigit(k) /\ (IsDigit(before) \/ IsOperator(before))
              \/ IsOperator(k) /\ (IsDigit(before) \/ before[1] = "=")
              \/ k[1] = "=" /\ IsDigit(before)

\* what a calculation comes to, from left to right; None once it divides by zero
Reference(ks) ==
    LET step(a, k) ==
          IF IsDigit(k) THEN [a EXCEPT !.num = 10 * @ + k[2], !.new = TRUE]
          ELSE IF ~a.new \/ a.total = None THEN [a EXCEPT !.op = k[1]]
          ELSE [total |-> IF a.op = "=" THEN a.num
                          ELSE IF a.op = "/" /\ a.num = 0 THEN None ELSE Apply(a.total, a.op, a.num),
                op |-> k[1], num |-> 0, new |-> FALSE]
    IN  FoldLeft(step, [total |-> 0, op |-> "=", num |-> 0, new |-> FALSE], ks).total

\* A calculation typed after the calculator was cleared is evaluated from left
\* to right, however its operators and equals signs follow each other: after an
\* operator or "=" the display shows what it comes to, or Error when it divides
\* by zero (handle_key, store_operand, calculate).
CalculatesLeftToRight ==
    (Calculation(keys) /\ ~IsDigit(Last(keys))) =>
        LET r == Reference(keys)
        IN  IF r # None THEN Parses /\ Value = r
            ELSE Reference(Front(keys)) # None => display = Error

\* Whatever is typed, completed and run, the terminal shows the end of what
\* was printed since it was cleared, remembers the last commands and no other,
\* and the next character goes to the end of the line (println,
\* execute_command, handle_key).
TerminalShowsLast ==
    /\ output = LastOf(transcript, MAX_OUTPUT_LINES)
    /\ history = LastOf(typed, MAX_HISTORY)
    /\ cursor = Len(input)
===============================================================================
