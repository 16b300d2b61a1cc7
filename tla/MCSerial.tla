------------------------------- MODULE MCSerial ------------------------------
(***************************************************************************)
(* Serial and Dispatcher on small instances; a behaviour is one of either. *)
(* The values that are sent are chosen for the edges of the length bytes   *)
(* (128 is ByteBase, 256 the largest length), of the to_json sizes (8 is   *)
(* SizeLimit) and of the characters that mean something to a reader.       *)
(***************************************************************************)
EXTENDS Serial, Dispatcher

CONSTANT Subjects

VARIABLE subject

(* A document that the calls leave alone. *)
Aside == [route |-> "events", tree |-> Lone(Scalar("void", 0))]

MCSerialInit ==
    /\ subject \in Subjects
    /\ DispatcherInit
    /\ SerialInit
    /\ subject = "calls" => route = Aside.route /\ doc = Aside.tree

MCSerialNext ==
    /\ UNCHANGED subject
    /\ \/ subject = "values" /\ SerialNext /\ UNCHANGED dispatcherVars
       \/ subject = "calls" /\ DispatcherNext /\ UNCHANGED serialVars

MCSerialSpec ==
    MCSerialInit /\ [][MCSerialNext]_<<subject, serialVars, dispatcherVars>>

CodeA == 97
NameOf(n) == <<CodeA + n>>
LongName(n) == [i \in 1..n |-> CodeA]

Nothing == Lone(Scalar("void", 0))
Unsigned12 == Scalar("unsigned", 12)
Twelve == Lone(Unsigned12)
Yes == Lone(Scalar("bool", 1))
LetterY == Lone(Scalar("char", 121))
Spaced == Lone(String(<<CodeA, Blank>>))

(* A container of the values vs under the keys ks. *)
Holding(type, ks, vs) ==
    [q \in {Root} \cup UNION {{<<ks[i]>> \o p : p \in DOMAIN vs[i]} : i \in DOMAIN vs} |->
        IF q = Root THEN Scalar(type, 0)
        ELSE vs[CHOOSE i \in DOMAIN vs : ks[i] = Head(q)][Tail(q)]]
Arr(vs) == Holding("array", [i \in DOMAIN vs |-> <<i>>], vs)
Obj(ns, vs) == Holding("object", ns, vs)

Simple ==
    {Nothing, Twelve, Yes, LetterY, Spaced}
    \cup {Lone(node) :
            node \in {Scalar("pointer", 1), Scalar("char", 65), Scalar("signed", -3),
                     Scalar("float", 7), String(<<>>), String(<<Hash, 49>>),
                     String(<<Blank, CodeA>>), String(<<CodeA, 0, CodeA>>), String(<<0>>)}}

Flat(vs) ==
    {Arr(<<>>), Obj(<<>>, <<>>)}
    \cup {Arr(<<v>>) : v \in vs}
    \cup {Arr(<<v, w>>) : v, w \in vs}
    \cup {Obj(<<NameOf(0)>>, <<v>>) : v \in vs}
    \cup {Obj(<<NameOf(0), NameOf(1)>>, <<v, w>>) : v, w \in vs}

Deep == Flat({Nothing, Twelve, Arr(<<>>), Arr(<<Twelve, Spaced>>), Arr(<<LetterY>>),
                Obj(<<NameOf(0), NameOf(1)>>, <<Nothing, Twelve>>)})

Edges ==
    {Obj(<<n>>, <<Twelve>>) :
        n \in {<<>>, LongName(127), LongName(128), LongName(255), LongName(256), <<Blank, CodeA>>}}
    \cup {Lone(String(LongName(256))), Obj(<<NameOf(0)>>, <<Lone(String(<<CodeA, 0>>))>>),
          Obj(<< <<CodeA>>, <<CodeA, 0>> >>, <<Twelve, Yes>>)}
    \cup {Arr(<<Lone(String(LongName(n))), Twelve>>) : n \in {127, 255, 256}}
    \cup {Arr([i \in 1..n |-> Twelve]) : n \in {5, 9}}
    \cup {Obj([i \in 1..n |-> NameOf(i)], [i \in 1..n |-> Yes]) : n \in {3, 5}}

Trees == Simple \cup Flat({Nothing, Twelve, Spaced}) \cup Deep \cup Edges \cup Flat({LetterY})

MCDocuments ==
    [route : {"direct", "binary", "json"}, tree : Trees]
    \cup [route : {"events"}, tree : {Nothing}]

MCEvents == {Leaf(Unsigned12), Leaf(Scalar("char", 121)), Begin("array"), Begin("object"), End("array"),
             End("object"), Name(NameOf(0)), Name(NameOf(1)), Name(<<>>)}

(* Signatures of every number of parameters and every type, among them with *)
(* a third parameter that is converted from each kind of number; the calls  *)
(* are made with these types, and with others than the function has.        *)
Takes(params, result) == [params |-> params, result |-> result]
Three == Lone(Scalar("unsigned", 3))

MCSignatures == {
    Takes(<<>>, "void"),
    Takes(<<"string", "signed">>, "bool"),
    Takes(<<"char">>, "void"),
    Takes(<<"unsigned">>, "char"),
    Takes(<<"narrow">>, "unsigned"),
    Takes(<<"float", "bool", "unsigned">>, "narrow"),
    Takes(<<"bool", "unsigned", "char">>, "void"),
    Takes(<<"bool", "char", "unsigned">>, "void"),
    Takes(<<"string", "signed", "narrow">>, "unsigned"),
    Takes(<<"bool", "float", "signed">>, "void"),
    Takes(<<"bool", "unsigned", "unsigned">>, "string"),
    Takes(<<"bool", "unsigned", "signed", "string">>, "float") }

Arguments ==
    [type \in {"bool", "char", "unsigned", "signed", "float", "narrow", "string"} |->
        CASE type = "bool" -> {Yes}
          [] type = "char" -> {LetterY, Lone(Scalar("char", 65))}
          [] type = "unsigned" -> {Twelve}
          [] type = "signed" -> {Lone(Scalar("signed", -3))}
          [] type = "float" -> {Lone(Scalar("float", 7))}
          [] type = "narrow" -> {Three}
          [] type = "string" -> {Spaced, Lone(String(<<CodeA, 0, CodeA>>))}]

MCCalls ==
    UNION {{[types |-> s, args |-> args] :
              args \in Selections([i \in DOMAIN s.params |-> Arguments[s.params[i]]])} :
           s \in MCSignatures}
    \cup {[types |-> Takes(<<"signed">>, "unsigned"), args |-> <<Lone(Scalar("signed", -3))>>]}

MCResults ==
    UNION {{[type |-> s.result, value |-> x] :
              x \in {Thrown} \cup IF s.result = "void" THEN {Nothing} ELSE Arguments[s.result]} :
           s \in MCSignatures}

MCNotified == {Lost, Thrown, Nothing, Twelve, Arr(<<>>), Arr(<<Twelve>>), Arr(<<Yes, Twelve, Three>>), Arr(<<LetterY>>), Obj(<<NameOf(0)>>, <<Twelve>>),
               Obj(<<NameOf(0), NameOf(1)>>, <<Twelve, Yes>>)}
MCResponses == {Nothing, Obj(<<ErrorName, ResultName>>, <<Nothing, Twelve>>), Obj(<<ResultName>>, <<Twelve>>),
                Obj(<<ErrorName>>, <<Spaced>>), Obj(<<ErrorName>>, <<Nothing>>), Obj(<<ErrorName>>, <<Twelve>>),
                Obj(<<ErrorName, ResultName>>, <<Nothing, LetterY>>)}

(* Texts that are read with a blank in front of them. *)
TextDocuments == [route : {"text"}, tree : {Twelve, Yes, Lone(Scalar("signed", -3))}]
==============================================================================
