-------------------------------- MODULE Binary -------------------------------
(***************************************************************************)
(* serial/binary.cpp: the tagged stream value_to_binary writes and         *)
(* binary_to_value reads.  A unit of the stream is a byte, a character or  *)
(* a whole scalar: what scalars are made of tells nothing apart.  A length *)
(* has a low byte below ByteBase and a high byte below HighBase.           *)
(***************************************************************************)
EXTENDS Events

CONSTANTS
    ByteBase,   \* number of values of a byte, 256 in the code
    HighBase    \* number of values of the high byte of a length

ASSUME BinaryAssumption == ByteBase \in Nat /\ ByteBase > 11 /\ HighBase \in Nat \ {0}

EndObject == ByteBase - 1
EndArray == ByteBase - 2

Tags == <<"void", "bool", "char", "unsigned", "signed", "float", "pointer",
          "string", "array", "object">>
TagOf(type) == (CHOOSE i \in DOMAIN Tags : Tags[i] = type) - 1

(* (uint16_t) strlen: a longer text keeps the rest of its length. *)
LengthUnits(n) == <<n % ByteBase, (n \div ByteBase) % HighBase>>
LengthAt(units, p) == units[p] + ByteBase * units[p + 1]

(* As many characters as the length that was written says. *)
TextUnits(text) ==
    LET n == LengthUnits(Len(text))
    IN n \o SubSeq(text, 1, LengthAt(n, 1))

(* What value_to_binary appends for an event. *)
Written(e) ==
    CASE e.op = "begin" -> <<TagOf(e.value.type)>>
      [] e.op = "end" -> <<IF e.value.type = "array" THEN EndArray ELSE EndObject>>
      [] e.op = "name" -> TextUnits(e.text)
      [] e.op = "value" ->
           <<TagOf(e.value.type)>> \o
             (CASE e.value.type = "void" -> <<>>
                [] e.value.type = "string" -> TextUnits(e.value.text)
                [] OTHER -> <<e.value.bits>>)

------------------------------------------------------------------------------

(* The reader: position, the containers it is inside of, the events it has  *)
(* called, and how it goes on: "reads", "done", or "overrun" when it reads  *)
(* past the end, which it never looks for inside a value.                   *)
NewReader == [p |-> 1, open |-> <<>>, events |-> <<>>, state |-> "reads"]

Call(r, events, p) == [r EXCEPT !.events = @ \o events, !.p = p]
Overrun(r) == [r EXCEPT !.state = "overrun"]

(* A length and a text at p; the texts written have no zero byte in them.   *)
(* While the parser is called there is a zero in the byte behind the text,  *)
(* so that one has to be there as well.                                     *)
AfterText(units, p) == p + 2 + LengthAt(units, p)
TextAt(units, p) == SubSeq(units, p + 2, AfterText(units, p) - 1)
FitsText(units, p) == p + 1 <= Len(units) /\ AfterText(units, p) <= Len(units)

(* The tag, and with it the value it stands for, unless that is a           *)
(* container.  A void is read over and a tag that is none is passed.        *)
ReadValue(units, r) ==
    LET tag == units[r.p]
        type == Tags[tag + 1]
    IN CASE tag \notin 0..9 \/ type = "void" -> [r EXCEPT !.p = @ + 1]
         [] tag \in 0..9 /\ type \in {"array", "object"} ->
              [Call(r, <<Begin(type)>>, r.p + 1) EXCEPT !.open = Append(@, type)]
         [] tag \in 0..9 /\ type = "string" ->
              IF FitsText(units, r.p + 1)
              THEN Call(r, <<Leaf(String(TextAt(units, r.p + 1)))>>,
                        AfterText(units, r.p + 1))
              ELSE Overrun(r)
         [] OTHER ->
              IF r.p + 1 <= Len(units)
              THEN Call(r, <<Leaf(Scalar(type, units[r.p + 1]))>>, r.p + 2)
              ELSE Overrun(r)

EndRead(r) == [Call(r, <<End(Last(r.open))>>, r.p + 1) EXCEPT !.open = Front(@)]

(* Mutant: the end of an object is looked for after the name. *)
ReadMemberUnchecked(units, r) ==
    IF ~FitsText(units, r.p) THEN Overrun(r)
    ELSE ReadValue(units, Call(r, <<Name(TextAt(units, r.p))>>, AfterText(units, r.p)))

(* A member: its name and its value, unless the byte ends the object.       *)
ReadMember(units, r) ==
    IF units[r.p] = EndObject THEN EndRead(r)
    ELSE IF ~FitsText(units, r.p) THEN Overrun(r)
    ELSE ReadValue(units, Call(r, <<Name(TextAt(units, r.p))>>, AfterText(units, r.p)))

ReadOn(units, r) ==
    CASE r.p > Len(units) ->
           IF r.open = <<>> THEN [r EXCEPT !.state = "done"] ELSE Overrun(r)
      [] r.p <= Len(units) /\ r.open = <<>> -> ReadValue(units, r)
      [] r.p <= Len(units) /\ r.open # <<>> ->
           IF Last(r.open) = "object" THEN ReadMember(units, r)
           ELSE IF units[r.p] = EndArray THEN EndRead(r)
           ELSE ReadValue(units, r)

RECURSIVE ReadAll(_, _)
ReadAll(units, r) == IF r.state = "reads" THEN ReadAll(units, ReadOn(units, r)) ELSE r

BinaryToValue(units) == ReadAll(units, NewReader)

------------------------------------------------------------------------------

(* What the stream keeps of a value: no void below the root, because a void *)
(* is read without an event.  The items of an array behind it move down.    *)
KeptByBinary(t) ==
    LET kept == {q \in DOMAIN t : q = Root \/ t[q].type # "void"}
        Moved(path, key) ==
            IF t[path].type = "array"
            THEN <<Cardinality({k \in Keys(t, path) : k[1] <= key[1] /\ Append(path, k) \in kept})>>
            ELSE key
        new == [q \in kept |-> [i \in DOMAIN q |-> Moved(SubSeq(q, 1, i - 1), q[i])]]
    IN [p \in Range(new) |-> t[CHOOSE q \in kept : new[q] = p]]

Texts(t) == {t[q].text : q \in {q \in DOMAIN t : t[q].type = "string"}}
NamesOf(t) == UNION {Keys(t, q) : q \in {q \in DOMAIN t : t[q].type = "object"}}

(* Texts without a NUL, of lengths the two bytes hold, and names that do    *)
(* not look like the end of the object they are in.                         *)
FitsBinary(t) ==
    /\ \A text \in Texts(t) \cup NamesOf(t) :
         CString(text) = text /\ Len(text) < ByteBase * HighBase
    /\ \A name \in NamesOf(t) : Len(name) % ByteBase # EndObject
==============================================================================
