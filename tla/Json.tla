--------------------------------- MODULE Json --------------------------------
(***************************************************************************)
(* serial/json.cpp: the text to_json writes and the reader from_json.      *)
(* A text is a sequence of ASCII codes, in which a word (null, true,       *)
(* false) is its first letter and a number its decimal digits.  The state  *)
(* to_json keeps for a container has SizeLimit values of its size and one  *)
(* bit nobody initialises.                                                 *)
(***************************************************************************)
EXTENDS Events

CONSTANT SizeLimit  \* number of values of state::size, 2^14 in the code

ASSUME JsonAssumption == SizeLimit \in Nat /\ SizeLimit > 1

Quote == 34
Hash == 35
Comma == 44
Minus == 45
Colon == 58
OpenArray == 91
CloseArray == 93
OpenObject == 123
CloseObject == 125
Blank == 32
WordNull == 110
WordTrue == 116
WordFalse == 102
IsDigit(c) == c \in 48..57
NumberUnits == 48..57 \cup {Minus, 43, 46, 69, 101}

RECURSIVE Decimal(_)
Decimal(n) ==
    IF n < 0 THEN <<Minus>> \o Decimal(-n)
    ELSE IF n < 10 THEN <<48 + n>> ELSE Append(Decimal(n \div 10), 48 + (n % 10))

Quoted(text) == <<Quote>> \o text \o <<Quote>>

(* What is written for a value; a text is not escaped and a pointer is      *)
(* written as the library prints it.                                        *)
ScalarText(t) ==
    CASE t.type = "void" -> <<WordNull>>
      [] t.type = "bool" -> IF t.bits = 1 THEN <<WordTrue>> ELSE <<WordFalse>>
      [] t.type = "char" -> Quoted(<<t.bits>>)
      [] t.type \in {"unsigned", "signed", "float"} -> Decimal(t.bits)
      [] t.type = "pointer" -> Quoted(<<48, 120>> \o Decimal(t.bits))
      [] t.type = "string" -> Quoted(t.text)

------------------------------------------------------------------------------
(* to_json: a record [states, text, state], the state "writes", "throws" or *)
(* "undefined".                                                             *)

NewWriter == [states |-> <<>>, text |-> <<>>, state |-> "writes"]
WriterThrows(w) == [w EXCEPT !.state = "throws"]
WriterUndefined(w) == [w EXCEPT !.state = "undefined"]

(* One more item in the innermost container; members are counted twice, at  *)
(* their name and at their value.                                           *)
Counted(states) ==
    IF states = <<>> THEN states
    ELSE [states EXCEPT ![Len(states)].size = (@ + 1) % SizeLimit]

(* Mutant: the comma is decided after the count. *)
CommaAfterCount(states) ==
    IF states # <<>> /\ Counted(states)[Len(states)].size > 0 /\ Last(states).is_array
    THEN <<Comma>> ELSE <<>>

(* Before a value or a container.                                           *)
ItemComma(states) ==
    IF states # <<>> /\ Last(states).size > 0 /\ Last(states).is_array
    THEN <<Comma>> ELSE <<>>

(* begin_array leaves is_object and begin_object leaves is_array with       *)
(* whatever the stack holds.                                                *)
BeginWritten(w, type) ==
    {[w EXCEPT !.text = @ \o ItemComma(w.states)
                          \o <<IF type = "array" THEN OpenArray ELSE OpenObject>>,
               !.states = Append(Counted(@),
                            [is_array |-> type = "array" \/ rest,
                             is_object |-> type = "object" \/ rest,
                             size |-> 0])] : rest \in BOOLEAN}

EndWritten(w, type) ==
    IF w.states = <<>> THEN WriterUndefined(w)
    ELSE IF ~(IF type = "array" THEN Last(w.states).is_array ELSE Last(w.states).is_object)
    THEN WriterThrows(w)
    ELSE [w EXCEPT !.states = Front(@),
                   !.text = Append(@, IF type = "array" THEN CloseArray ELSE CloseObject)]

NameWritten(w, text) ==
    IF w.states = <<>> THEN WriterUndefined(w)
    ELSE IF ~Last(w.states).is_object THEN WriterThrows(w)
    ELSE [w EXCEPT !.states = Counted(@),
                   !.text = @ \o (IF Last(w.states).size > 0 THEN <<Comma>> ELSE <<>>)
                              \o Quoted(text) \o <<Colon>>]

(* The container of a value is looked up without a check that there is one. *)
ValueWritten(w, t) ==
    IF w.states = <<>> THEN WriterUndefined(w)
    ELSE [w EXCEPT !.states = Counted(@), !.text = @ \o ItemComma(w.states) \o ScalarText(t)]

Write(w, e) ==
    CASE e.op = "begin" -> BeginWritten(w, e.value.type)
      [] e.op = "end" -> {EndWritten(w, e.value.type)}
      [] e.op = "name" -> {NameWritten(w, e.text)}
      [] e.op = "value" -> {ValueWritten(w, e.value)}

------------------------------------------------------------------------------
(* The reader: the result of reading from position p, a record [p, events,  *)
(* state], the state "reads" (fine so far), "throws" or "hangs".            *)

Result(p, events, state) == [p |-> p, events |-> events, state |-> state]
Prefixed(events, r) == [r EXCEPT !.events = events \o @]

AtBlank(text, p) == p <= Len(text) /\ text[p] = Blank

(* aStream >> c: the position after it and the character, which stays what  *)
(* it was at the end of the text.                                           *)
Extract(text, p, c) ==
    LET rest == {q \in p..Len(text) : text[q] # Blank}
        q == CHOOSE q \in rest : \A o \in rest : q <= o
    IN IF rest = {} THEN <<Len(text) + 1, c>> ELSE <<q + 1, text[q]>>

(* while(isspace(aStream.peek())) aStream >> c: takes the blanks and the    *)
(* character behind them.                                                   *)
RECURSIVE SkipBlanks(_, _, _)
SkipBlanks(text, p, c) ==
    IF ~AtBlank(text, p) THEN <<p, c>>
    ELSE LET x == Extract(text, p, c) IN SkipBlanks(text, x[1], x[2])

(* The rest of a text whose first character was extracted: up to the quote. *)
(* A text that does not end is read for ever.                               *)
QuoteFrom(text, p) ==
    LET ends == {q \in p..Len(text) : text[q] = Quote}
    IN IF ends = {} THEN 0 ELSE CHOOSE q \in ends : \A o \in ends : q <= o

(* Mutant: the closing quote is one of the characters. *)
CharactersAndQuote(text, p, c) ==
    LET x == Extract(text, p, c)
        q == QuoteFrom(text, x[1])
    IN IF q = 0 THEN <<0, <<>>>>
       ELSE <<q + 1, <<x[2]>> \o SubSeq(text, x[1], q)>>

(* The characters of a name or a string behind its first quote, which was   *)
(* extracted as c: position after them and the characters, position 0 when  *)
(* there is no end.                                                         *)
Characters(text, p, c) ==
    LET x == Extract(text, p, c)
        q == QuoteFrom(text, x[1])
    IN CASE x[2] = Quote -> <<x[1], <<>>>>
         [] x[2] # Quote /\ q = 0 -> <<0, <<>>>>
         [] x[2] # Quote /\ q # 0 -> <<q + 1, <<x[2]>> \o SubSeq(text, x[1], q - 1)>>

(* A text that looks like an address becomes a pointer nobody wrote.        *)
IsAddress(s) ==
    s # <<>> /\ Head(s) = Hash /\ \A i \in 2..Len(s) : IsDigit(s[i])

ReadString(text, p) ==
    LET x == Extract(text, p, 0)
        s == Characters(text, x[1], x[2])
    IN IF s[1] = 0 THEN Result(p, <<>>, "hangs")
       ELSE IF IsAddress(s[2])
       THEN Result(s[1], <<Leaf(Scalar("pointer", 0))>>, "reads")
       ELSE Result(s[1], <<Leaf(String(s[2]))>>, "reads")

ReadWord(text, p) ==
    Result(p + 1,
           <<Leaf(CASE text[p] = WordNull -> Scalar("void", 0)
                    [] text[p] = WordTrue -> Scalar("bool", 1)
                    [] text[p] = WordFalse -> Scalar("bool", 0))>>, "reads")

RECURSIVE DigitsValue(_)
DigitsValue(s) == IF s = <<>> THEN 0 ELSE 10 * DigitsValue(Front(s)) + Last(s) - 48

(* The longest run of characters of numbers, of which digits behind a sign  *)
(* are understood.  Of a sign alone nothing is: what is passed on then has  *)
(* never been written.                                                      *)
ReadNumber(text, p) ==
    LET stops == {q \in p..Len(text) : text[q] \notin NumberUnits} \cup {Len(text) + 1}
        end == CHOOSE q \in stops : \A o \in stops : q <= o
        s == SubSeq(text, p, end - 1)
        n == IF Head(s) = Minus THEN -DigitsValue(Tail(s)) ELSE DigitsValue(s)
    IN IF s = <<Minus>> THEN Result(end, <<>>, "undefined")
       ELSE Result(end, <<Leaf(Scalar("float", n))>>, "reads")

RECURSIVE FromJson(_, _), ArrayItems(_, _, _), ObjectItems(_, _, _)

(* The loop of read_array, c the last character extracted.  Nothing extracts *)
(* a bracket or a comma but the skipping of blanks.                         *)
ArrayItems(text, p, c) ==
    LET x == SkipBlanks(text, p, c)
        value == FromJson(text, x[1])
    IN CASE x[2] = CloseArray -> Result(x[1], <<End("array")>>, "reads")
         [] x[2] = Comma -> Result(x[1], <<>>, "hangs")
         [] OTHER ->
              IF value.state # "reads" THEN value
              ELSE Prefixed(value.events, ArrayItems(text, value.p, x[2]))

(* The loop of read_object.  A character that is not the one expected is    *)
(* accepted: the exception is made and not thrown.                          *)
ObjectItems(text, p, c) ==
    LET first == Extract(text, p, c)
        x == SkipBlanks(text, first[1], first[2])
        name == Characters(text, x[1], x[2])
        behind == SkipBlanks(text, name[1], Quote)
        separator == Extract(text, behind[1], behind[2])
        value == FromJson(text, separator[1])
    IN CASE x[2] = CloseObject -> Result(x[1], <<End("object")>>, "reads")
         [] x[2] = Comma /\ p <= Len(text) -> ObjectItems(text, x[1], x[2])
         [] x[2] = Comma /\ p > Len(text) -> Result(p, <<>>, "hangs")
         [] OTHER ->
              IF name[1] = 0 THEN Result(p, <<>>, "hangs")
              ELSE IF value.state # "reads" THEN Prefixed(<<Name(name[2])>>, value)
              ELSE Prefixed(<<Name(name[2])>> \o value.events,
                            ObjectItems(text, value.p, separator[2]))

(* One value; what stands behind it is not looked at.                       *)
FromJson(text, from) ==
    LET p == SkipBlanks(text, from, 0)[1]
    IN CASE p > Len(text) -> Result(p, <<>>, "throws")
         [] p <= Len(text) ->
              CASE text[p] \in {WordNull, WordTrue, WordFalse} -> ReadWord(text, p)
                [] text[p] = Minus \/ IsDigit(text[p]) -> ReadNumber(text, p)
                [] text[p] = Quote -> ReadString(text, p)
                [] text[p] = OpenArray ->
                     Prefixed(<<Begin("array")>>, ArrayItems(text, p + 1, OpenArray))
                [] text[p] = OpenObject ->
                     Prefixed(<<Begin("object")>>, ObjectItems(text, p + 1, OpenObject))
                [] OTHER -> Result(p, <<>>, "throws")

------------------------------------------------------------------------------

(* The text JSON has for a value, with the words and numbers as above.      *)
RECURSIVE Rendered(_)
Rendered(t) ==
    LET keys == SortedKeys(t, Root)
        One(i) ==
          (IF i > 1 THEN <<Comma>> ELSE <<>>)
          \o (IF TypeOf(t) = "object" THEN Quoted(keys[i]) \o <<Colon>> ELSE <<>>)
          \o Rendered(Sub(t, <<keys[i]>>))
        body == FlattenSeq([i \in DOMAIN keys |-> One(i)])
    IN CASE TypeOf(t) = "array" -> <<OpenArray>> \o body \o <<CloseArray>>
         [] TypeOf(t) = "object" -> <<OpenObject>> \o body \o <<CloseObject>>
         [] OTHER -> ScalarText(t[Root])

(* What is left of the type of a value in JSON. *)
CollapsedNode(node) ==
    CASE node.type \in {"unsigned", "signed"} -> Scalar("float", node.bits)
      [] node.type = "char" -> String(<<node.bits>>)
      [] node.type = "pointer" -> String(<<48, 120>> \o Decimal(node.bits))
      [] OTHER -> node
Collapsed(t) == [q \in DOMAIN t |-> CollapsedNode(t[q])]

Sizes(t) == {Cardinality(Keys(t, q)) : q \in DOMAIN t}
==============================================================================
