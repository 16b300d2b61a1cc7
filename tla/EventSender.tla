------------------------------ MODULE EventSender ----------------------------
(***************************************************************************)
(* A program that calls a parser_to_value as it likes: any event at any    *)
(* time, after an exception too.                                           *)
(***************************************************************************)
EXTENDS ParserToValue

CONSTANT AnyEvents  \* the events sent in any order

ASSUME EventAssumption ==
    \A e \in AnyEvents :
        \/ e.op = "value" /\ e.value.type \in ScalarTypes \cup {"string"}
        \/ e.op \in {"begin", "end"} /\ e.value.type \in ContainerTypes
        \/ e.op = "name" /\ e.text \in Seq(Nat)

VARIABLE parser     \* the parser_to_value

ParserInit == parser = NewParser

ToParser(e) == parser' \in Accept([parser EXCEPT !.threw = FALSE], e)

ParserSpec == ParserInit /\ [][\E e \in AnyEvents : ToParser(e)]_parser

------------------------------------------------------------------------------

(* parser_to_value's stack of pointers is the chain of open containers,     *)
(* whatever events it is sent and whichever of them throw.                  *)
StackIsChain == IsChain(parser)

(* What it builds is a value after each of them: no object has a member     *)
(* without a name, and no array a gap.                                      *)
RootIsValue == IsValue(parser.root)

(* No order of events, with any of them throwing, breaks the parser. *)
ParserSound == StackIsChain /\ RootIsValue
==============================================================================
