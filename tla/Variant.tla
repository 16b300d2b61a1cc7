------------------------------- MODULE Variant -------------------------------
(***************************************************************************)
(* The scalar half of solaire::serial::value (serial/value.cpp): the types *)
(* of the union and what each const get_ answers for each of them.  The    *)
(* union has one word, of which SignBit is the highest bit.  A get_ that   *)
(* reads a member that was not written, or falls through into the next     *)
(* case, may answer anything that case can make of unknown bits: every     *)
(* getter is the set of its possible answers.                              *)
(***************************************************************************)
EXTENDS Integers, Sequences

CONSTANTS
    SignBit,    \* the value of the highest bit of mUnsigned and mSigned
    Chars,      \* the characters tried, as codes
    Floats      \* the doubles tried, all of them whole numbers

ASSUME VariantAssumption ==
    /\ SignBit \in Nat /\ SignBit > 9
    /\ Chars \subseteq 0..127
    /\ Floats \subseteq Int

Unsigneds == 0..(2 * SignBit - 1)
Signeds == (-SignBit)..(SignBit - 1)

ScalarTypes == {"void", "bool", "char", "unsigned", "signed", "float", "pointer"}
OwnerTypes == {"string", "array", "object"}

(* A value: its mType and the word.  The word of an owner is the address    *)
(* of what it owns, the word of "void" is 0.                                *)
Value(type, bits) == [type |-> type, bits |-> bits]
Void == Value("void", 0)
False == Value("bool", 0)
True == Value("bool", 1)

(* The two ways a getter ends without an answer. *)
Throws == Value("throws", 0)
Undefined == Value("undefined", 0)

Digit(c) == c \in 48..57
Affirmative == {49, 121, 89}    \* '1', 'y', 'Y'
Negative == {48, 110, 78}       \* '0', 'n', 'N'

Scalars ==
    {Void, False, True} \cup {Value("char", c) : c \in Chars}
    \cup {Value("unsigned", u) : u \in Unsigneds}
    \cup {Value("signed", s) : s \in Signeds}
    \cup {Value("float", f) : f \in Floats}
    \cup {Value("pointer", p) : p \in {0, 1}}

(* Any value of a scalar type that a conversion can make. *)
IsScalar(v) ==
    \/ v.type \in {"void", "bool", "unsigned", "signed", "pointer"} /\ v \in Scalars
    \/ v.type = "char" /\ v.bits \in 0..127
    \/ v.type = "float" /\ v.bits \in Int

------------------------------------------------------------------------------

Bool(b) == {IF b THEN True ELSE False}

(* value.cpp:247: 'n' is as true as 'y'. *)
GetBool(v) ==
    CASE v.type = "bool" -> {v}
      [] v.type = "char" /\ v.bits \in Affirmative \cup Negative -> {True}
      [] v.type \in {"unsigned", "signed", "float"} -> Bool(v.bits >= 1)
      [] v.type = "pointer" -> Bool(v.bits # 0)
      [] OTHER -> {Throws}

(* value.cpp:293: a character that is read is turned into the character 0   *)
(* or 1, or throws.  A number that is no digit falls through to the front() *)
(* of a string that is not there, if its bits read as a double are no digit *)
(* either.                                                                  *)
GetChar(v, front) ==
    CASE v.type = "bool" -> {Value("char", 48 + v.bits)}
      [] v.type = "char" ->
           IF v.bits \in Affirmative THEN {Value("char", 1)}
           ELSE IF v.bits \in Negative THEN {Value("char", 0)} ELSE {Throws}
      [] v.type \in {"unsigned", "signed", "float"} /\ v.bits \in 0..9 ->
           {Value("char", 48 + v.bits)}
      [] v.type \in {"unsigned", "signed"} /\ v.bits \notin 0..9 ->
           {Value("char", 48 + d) : d \in 0..9} \cup {Undefined}
      [] v.type = "float" /\ v.bits \notin 0..9 -> {Undefined}
      [] v.type = "string" -> {Value("char", front)}
      [] OTHER -> {Throws}

CharNumber(c) ==
    CASE Digit(c) -> {c - 48}
      [] c \in Affirmative \ {49} -> {1}
      [] c \in Negative \ {48} -> {0}
      [] OTHER -> {}

InWidth(type, range, f) ==
    IF f \in range THEN {Value(type, f)} ELSE {Value(type, x) : x \in range}

(* value.cpp:336.  A bool is answered the wrong way round, in this getter   *)
(* and the next two.                                                        *)
GetUnsigned(v) ==
    CASE v.type = "bool" -> {Value("unsigned", 1 - v.bits)}
      [] v.type = "char" ->
           {Value("unsigned", n) :
              n \in IF CharNumber(v.bits) = {} THEN Unsigneds ELSE CharNumber(v.bits)}
      [] v.type = "unsigned" -> {v}
      [] v.type = "signed" /\ v.bits >= 0 -> {Value("unsigned", v.bits)}
      [] v.type = "signed" /\ v.bits < 0 -> {Throws, Value("unsigned", 0)}
      [] v.type = "float" /\ v.bits >= 0 -> InWidth("unsigned", Unsigneds, v.bits)
      [] OTHER -> {Throws}

(* Mutant: the digit is not taken from its code. *)
GetSignedOfCode(v) ==
    CASE v.type = "char" -> {Value("signed", v.bits)}
      [] v.type = "unsigned" -> InWidth("signed", Signeds, v.bits)
      [] v.type \in {"bool", "signed"} -> {Value("signed", v.bits)}
      [] OTHER -> {Throws}

(* value.cpp:380.  A number above the range falls through and is read as    *)
(* the bits it has.                                                         *)
GetSigned(v) ==
    CASE v.type = "bool" -> {Value("signed", 1 - v.bits)}
      [] v.type = "char" ->
           {Value("signed", n) :
              n \in IF CharNumber(v.bits) = {} THEN Signeds ELSE CharNumber(v.bits)}
      [] v.type = "unsigned" /\ v.bits \in Signeds -> {Value("signed", v.bits)}
      [] v.type = "unsigned" /\ v.bits \notin Signeds ->
           {Value("signed", v.bits - 2 * SignBit)}
      [] v.type = "signed" -> {v}
      [] v.type = "float" -> InWidth("signed", Signeds, v.bits)
      [] OTHER -> {Throws}

(* value.cpp:424.  The integers are not converted: mFloat is read. *)
GetFloat(v) ==
    CASE v.type = "bool" -> {Value("float", 1 - v.bits)}
      [] v.type = "char" /\ CharNumber(v.bits) # {} ->
           {Value("float", n) : n \in CharNumber(v.bits)}
      [] v.type \in {"unsigned", "signed"}
         \/ (v.type = "char" /\ CharNumber(v.bits) = {}) ->
           {Value("float", f) : f \in Floats}
      [] v.type = "float" -> {v}
      [] OTHER -> {Throws}

GetPointer(v) == IF v.type = "pointer" THEN {v} ELSE {Throws}

Get(v, front, type) ==
    CASE type = "bool" -> GetBool(v)
      [] type = "char" -> GetChar(v, front)
      [] type = "unsigned" -> GetUnsigned(v)
      [] type = "signed" -> GetSigned(v)
      [] type = "float" -> GetFloat(v)
      [] type = "pointer" -> GetPointer(v)

(* The non-const get_ converts in place; nothing changes when it throws.    *)
(* Asked for its own type it answers the member itself, so that get_char()  *)
(* of a char does not pass through the const one.                           *)
GetInPlace(v, front, type) == IF v.type = type THEN {v} ELSE Get(v, front, type)

------------------------------------------------------------------------------

(* The number a value stands for, as a residue of the word. *)
Number(v) == (IF v.type = "char" THEN v.bits - 48 ELSE v.bits) % (2 * SignBit)

(* Number and bool conversions whose answer the code computes from the      *)
(* member that was written: what is left out is an integer read as a float, *)
(* a character or integer beyond the digits, and a double beyond the word.  *)
Computed(v, type) ==
    CASE v.type = "unsigned" ->
           type = "signed" \/ (type \in {"char", "unsigned"} /\ v.bits \in 0..9)
      [] v.type = "signed" ->
           v.bits >= 0 /\ (type = "unsigned" \/ (type = "char" /\ v.bits \in 0..9))
      [] v.type = "float" ->
           \/ type = "unsigned" /\ v.bits \in Unsigneds
           \/ type = "signed" /\ v.bits \in Signeds
           \/ type = "char" /\ v.bits \in 0..9
      [] v.type = "char" -> Digit(v.bits) /\ type \in {"unsigned", "signed", "float"}
      [] OTHER -> FALSE
==============================================================================
