----------------------------- MODULE Dispatcher ------------------------------
(***************************************************************************)
(* Functions that are called with values (serial/encoder.hpp,              *)
(* serial/dispatcher.hpp): the caller's arguments become values, the       *)
(* wrapper of the registered function makes arguments of them again, and   *)
(* the result goes back the same way; and the two ends of a remote call    *)
(* (serial/rpc_client.cpp, serial/rpc_server.cpp), whose transport is the  *)
(* user's.                                                                 *)
(*                                                                         *)
(* A C++ type is the name of the getter it is decoded by; "narrow" are the *)
(* unsigned integers shorter than a word.  Pairs and vectors are left out: *)
(* their encoders hide the templates they call, and do not compile.        *)
(* Arguments and results are trees like the values they become; a text may *)
(* have NULs in it.  What a step may answer is a set, Thrown and Lost among *)
(* its members.                                                            *)
(***************************************************************************)
EXTENDS ParserToValue

CONSTANTS
    FunctionNames,  \* the names functions are registered under
    Signatures,     \* records [params, result]: what functions take and give
    Calls,          \* records [types, args]: a caller's own idea of the
                    \* signature and the arguments it passes
    Results,        \* records [type, value]: what functions may return, or
                    \* Thrown
    Notified,       \* the params and the ids of the requests that arrive,
                    \* Lost if one has none, and Thrown if it is no object
    Responses,      \* what a remote end may respond
    NarrowBits,     \* width of the narrow integers
    MaxRequests     \* bound on mRequestID

ParamTypes == {"bool", "char", "unsigned", "signed", "float", "narrow", "string"}

(* An argument, or a value, of a C++ type. *)
HasType(type, t) ==
    CASE type = "narrow" -> t = Lone(Scalar("unsigned", t[Root].bits)) /\ t[Root].bits \in 0..(2^NarrowBits - 1)
      [] type = "string" -> t = Lone(String(t[Root].text)) /\ t[Root].text \in Seq(Nat)
      [] OTHER -> t = Lone(Scalar(type, t[Root].bits)) /\ IsScalar(Value(type, t[Root].bits))

Thrown == Lone(Scalar("throws", 0))
Lost == Lone(Scalar("undefined", 0))    \* undefined behaviour, the program is over
NoResult == Lone(Scalar("none", 0))     \* of a function that was not called
VoidTree == Lone(Scalar("void", 0))
Failed(t) == TypeOf(t) \in {"throws", "undefined"}

Matches(types, xs) ==
    /\ DOMAIN xs = DOMAIN types.params
    /\ \A i \in DOMAIN xs : HasType(types.params[i], xs[i])

IsSignature(types) == types.params \in Seq(ParamTypes) /\ types.result \in ParamTypes \cup {"void"}

(* A third parameter is converted from what the second is decoded to, which *)
(* has to compile: any number converts to any other.                        *)
ASSUME DispatcherAssumption ==
    /\ NarrowBits \in Nat \ {0} /\ 2^NarrowBits \in 1..(2 * SignBit)
    /\ \A s \in Signatures :
         /\ IsSignature(s)
         /\ Len(s.params) = 3 =>
              \/ s.params[3] = s.params[2]
              \/ s.params[2] # "string" /\ s.params[3] # "string"

(* C++ gives every argument and every result the type it is declared with.  *)
(* What a function returns nothing of is void.                              *)
ASSUME CallerAssumption ==
    /\ \A c \in Calls :
         /\ IsSignature(c.types)
         /\ c.args \in Seq({c.args[i] : i \in DOMAIN c.args}) /\ Matches(c.types, c.args)
    /\ \A r \in Results :
         \/ r.value = Thrown
         \/ IF r.type = "void" THEN r.value = VoidTree ELSE HasType(r.type, r.value)
    /\ \A params \in Notified :
         params \in {Lost, Thrown} \/ (IsFiniteSet(DOMAIN params) /\ IsValue(params))

VARIABLES
    mFunctions,     \* the signature of the function a name is registered for
    mRequestID,
    lastCall        \* the last call: what was passed, received and returned

dispatcherVars == <<mFunctions, mRequestID, lastCall>>

Selections(sets) ==
    {s \in [DOMAIN sets -> UNION {sets[i] : i \in DOMAIN sets}] : \A i \in DOMAIN sets : s[i] \in sets[i]}

------------------------------------------------------------------------------
(* encoder.hpp                                                              *)

(* Mutant: characters are copied as they are. *)
CopyAsItIs(t) == t

(* A value where it is copied. *)
CopyOrThrow(t) == IF Unreadable(t) THEN Thrown ELSE CopyOf(t)

(* encode: the value the parser has built is copied out of it. *)
Encode(x) == {IF p.threw THEN Thrown ELSE CopyOrThrow(p.root) : p \in Accept(NewParser, Leaf(Cut(x[Root])))}

(* decode by the const getters, of which that of strings does not look at   *)
(* the type.                                                                *)
Decode(type, t) ==
    LET node == t[Root]
        front == IF node.text = Empty THEN 0 ELSE Head(node.text)
        scalars(kind) == {Lone(Scalar(r.type, r.bits)) : r \in Get(Value(node.type, node.bits), front, kind)}
        Narrowed(r) == Lone(Scalar("unsigned", r[Root].bits % 2^NarrowBits))
    IN CASE t = Lost -> {Lost}
         [] t # Lost /\ type = "string" -> IF node.type = "string" THEN {t} ELSE {Lost}
         [] t # Lost /\ type = "narrow" ->
              {IF Failed(r) THEN r ELSE Narrowed(r) : r \in scalars("unsigned")}
         [] OTHER -> scalars(type)

------------------------------------------------------------------------------
(* dispatcher.hpp                                                           *)

(* An implicit conversion between numbers.  A double that is not in the     *)
(* range of an integer may become any of it.                                *)
Lowest(kind) ==
    CASE kind = "signed" -> -SignBit [] kind = "char" -> -128 [] OTHER -> 0
NumberOf(kind) ==
    CASE kind = "char" -> 256 [] kind = "narrow" -> 2^NarrowBits [] OTHER -> 2 * SignBit

Implicit(t, kind) ==
    LET n == t[Root].bits
        low == Lowest(kind)
        size == NumberOf(kind)
        Made(m) == Lone(Scalar(IF kind = "narrow" THEN "unsigned" ELSE kind, m))
    IN CASE kind = "bool" -> {Made(IF n = 0 THEN 0 ELSE 1)}
         [] kind = "float" -> {Made(n)}
         [] OTHER ->
              IF TypeOf(t) = "float" /\ n \notin low..(low + size - 1)
              THEN {Made(m) : m \in low..(low + size - 1)}
              ELSE {Made(low + ((n - low) % size))}

(* Mutant: so is the third of four. *)
ParameterOfSecond(s, i, t) == Decode(s.params[IF i = 3 THEN 2 ELSE i], t)

(* The third of three parameters is decoded by the type of the second.      *)
Parameter(s, i, t) ==
    IF Len(s.params) = 3 /\ i = 3 /\ s.params[3] # s.params[2]
    THEN UNION {IF Failed(r) THEN {r} ELSE Implicit(r, s.params[3]) : r \in Decode(s.params[2], t)}
    ELSE Decode(s.params[i], t)

(* What a wrapper does with values: [outcome, received, returned, answer].  *)
(* What the function throws, it throws too.                                 *)
Ran(outcome, received, returned, answer) ==
    [outcome |-> outcome, received |-> received, returned |-> returned, answer |-> answer]
NotRun(outcome) == Ran(outcome, <<>>, NoResult, Thrown)
HowFailed(t) == IF t = Lost THEN "undefined" ELSE "threw"

Wrapped(s, values) ==
    IF Len(values) # Len(s.params) THEN {NotRun("threw")}
    ELSE UNION {
        IF \E i \in DOMAIN received : Failed(received[i])
        THEN {NotRun(HowFailed(received[i])) : i \in {j \in DOMAIN received : Failed(received[j])}}
        ELSE UNION {
               {Ran(IF Failed(answer) THEN "threw" ELSE "ran", received, r.value, answer) :
                  answer \in IF r.value \in {Thrown, VoidTree} THEN {r.value} ELSE Encode(r.value)} :
               r \in {x \in Results : x.type = s.result}} :
        received \in Selections([i \in DOMAIN values |-> Parameter(s, i, values[i])])}

(* function_map_dispatcher::call_function *)
CallFunction(name, values) ==
    IF name \notin DOMAIN mFunctions THEN {NotRun("threw")} ELSE Wrapped(mFunctions[name], values)

Called(how, name, types, args, ran, outcome, result) ==
    [how |-> how, name |-> name, types |-> types, args |-> args,
     ran |-> ran, outcome |-> outcome, result |-> result]

NoTypes == [params |-> <<>>, result |-> "void"]
NoCall == Called("none", "none", NoTypes, <<>>, NotRun("ran"), "returned", Thrown)

DispatcherInit ==
    /\ mFunctions = <<>>
    /\ mRequestID = 0
    /\ lastCall = NoCall

(* register_function: a name that is taken keeps its function.  A call made *)
(* before is forgotten: it met other functions.                             *)
Register(name, s) ==
    /\ mFunctions' = [n \in DOMAIN mFunctions \cup {name} |->
                         IF n \in DOMAIN mFunctions THEN mFunctions[n] ELSE s]
    /\ lastCall' = NoCall
    /\ UNCHANGED mRequestID

(* The arguments as values. *)
Encoded(args) == Selections([i \in DOMAIN args |-> Encode(args[i])])
AnyFailed(values) == \E i \in DOMAIN values : Failed(values[i])

(* What the caller makes of an answer. *)
Answered(types, answer) ==
    IF types.result = "void" THEN {VoidTree} ELSE Decode(types.result, answer)

OutcomeOf(result) == IF Failed(result) THEN HowFailed(result) ELSE "returned"

(* dispatcher::call on a function_map_dispatcher *)
DispatcherCall(name, types, args) ==
    /\ \E values \in Encoded(args) :
         IF AnyFailed(values)
         THEN lastCall' = Called("call", name, types, args, NotRun("threw"), "threw", Thrown)
         ELSE \E ran \in CallFunction(name, values) :
                IF ran.outcome # "ran"
                THEN lastCall' = Called("call", name, types, args, ran, ran.outcome, Thrown)
                ELSE \E result \in Answered(types, ran.answer) :
                       lastCall' = Called("call", name, types, args, ran, OutcomeOf(result), result)
    /\ UNCHANGED <<mFunctions, mRequestID>>

------------------------------------------------------------------------------
(* rpc_client, rpc_server                                                   *)

(* The names of the members of a request and a response, as any two names. *)
ErrorName == <<101>>
ResultName == <<114>>

MemberAt(t, name) == IF name \in Keys(t, Root) THEN Sub(t, <<name>>) ELSE Lost

(* What rpc_client::call_function makes of a response. *)
ResponseResult(response) ==
    LET error == MemberAt(response, ErrorName)
        result == MemberAt(response, ResultName)
    IN CASE TypeOf(response) # "object" -> Thrown
         [] TypeOf(response) = "object" /\ TypeOf(error) # "void" ->
              IF TypeOf(error) = "string" THEN Thrown ELSE Lost
         [] TypeOf(response) = "object" /\ TypeOf(error) = "void" ->
              IF result = Lost THEN Lost ELSE CopyOrThrow(result)

(* rpc_server::on_recieve_request adds to a response that is void and not   *)
(* an object, before it calls a function: it responds with Lost, unless the *)
(* request is no object or has an id that is not converted, which throws.   *)
Served(id) == {IF r = Thrown THEN Thrown ELSE Lost : r \in Decode("unsigned", id)}

OnReceiveRequest(id) ==
    /\ \E response \in Served(id) :
         lastCall' = Called("request", "none", NoTypes, id, NotRun(HowFailed(response)),
                            HowFailed(response), response)
    /\ UNCHANGED <<mFunctions, mRequestID>>

(* dispatcher::call on an rpc_client.  The params are copied into the       *)
(* request, which has an id only if none of them throws.  Lost is the       *)
(* response of an rpc_server to it (Served).                                *)
RemoteCall(name, types, args, response) ==
    /\ mRequestID < MaxRequests
    /\ \E values \in Encoded(args) :
         IF AnyFailed(values) \/ \E i \in DOMAIN values : Unreadable(values[i])
         THEN /\ lastCall' = Called("remote", name, types, args, NotRun("threw"), "threw", Thrown)
              /\ UNCHANGED mRequestID
         ELSE /\ mRequestID' = mRequestID + 1
              /\ LET answer == IF response = Lost THEN Lost ELSE ResponseResult(response)
                     ran == Ran("ran", <<>>, response, answer)
                 IN \E result \in IF Failed(answer) THEN {answer} ELSE Answered(types, answer) :
                      lastCall' = Called("remote", name, types, args, ran, OutcomeOf(result), result)
    /\ UNCHANGED mFunctions

(* The values a server finds behind the address of params[0].  There may be *)
(* nothing at the address when params is empty, and behind the first member *)
(* of an object there is no other one.                                      *)
ParamValues(params) ==
    LET keys == SortedKeys(params, Root)
        Found(i) == IF i > 1 /\ TypeOf(params) = "object" THEN Lost ELSE Sub(params, <<keys[i]>>)
        values == [i \in DOMAIN keys |-> Found(i)]
    IN CASE TypeOf(params) = "void" -> {<<>>}
         [] TypeOf(params) \in ContainerTypes ->
              IF values = <<>> THEN {values, <<Lost>>} ELSE {values}
         [] OTHER -> {<<Thrown>>}

(* rpc_server::on_recieve_notification: what is thrown once the method and  *)
(* the params have been found stays inside.                                 *)
OnReceiveNotification(name, params) ==
    /\ IF Failed(params)
       THEN lastCall' = Called("notification", name, NoTypes, params, NotRun(HowFailed(params)),
                               HowFailed(params), VoidTree)
       ELSE \E values \in ParamValues(params) :
              \E ran \in IF values # <<>> /\ Failed(values[1]) THEN {NotRun(HowFailed(values[1]))}
                         ELSE CallFunction(name, values) :
                lastCall' = Called("notification", name, NoTypes, params, ran,
                                   IF ran.outcome = "undefined" THEN "undefined" ELSE "returned",
                                   VoidTree)
    /\ UNCHANGED <<mFunctions, mRequestID>>

DispatcherNext ==
    /\ lastCall.outcome # "undefined"
    /\ \/ \E name \in FunctionNames :
            \/ \E s \in Signatures : Register(name, s)
            \/ \E c \in Calls : DispatcherCall(name, c.types, c.args)
            \/ \E c \in Calls, response \in Responses \cup {Lost} :
                 RemoteCall(name, c.types, c.args, response)
            \/ \E params \in Notified : OnReceiveNotification(name, params)
       \/ \E id \in Notified : OnReceiveRequest(id)

DispatcherSpec == DispatcherInit /\ [][DispatcherNext]_dispatcherVars

------------------------------------------------------------------------------

(* A function whose third parameter is converted from the second's type.    *)
Straight(types) == Len(types.params) = 3 => types.params[2] = types.params[3]

(* Types whose arguments and results nothing changes, but for what is       *)
(* behind a NUL.                                                            *)
Carried(types) ==
    /\ "char" \notin {types.result} \cup {types.params[i] : i \in DOMAIN types.params}
    /\ Straight(types)

AsSent(x) == Lone(Cut(x[Root]))

(* The getter a parameter is decoded by. *)
DecodedBy(types, i) ==
    IF i = 3 /\ ~Straight(types) THEN types.params[2] ELSE types.params[i]

(* A caller and a function that agree on the types: the function gets the   *)
(* arguments, texts up to their first NUL, and the caller what it returns   *)
(* or throws, if no type is char and the third parameter has the type of    *)
(* the second.  A function with a parameter that is decoded as a character  *)
(* is never called.  (A third one that is decoded as the second is of       *)
(* another type: f(bool, uint64_t, char) is called for 'y', and gets what   *)
(* that getter makes of it.)                                                *)
CallArrives(c, types) ==
    c.how = "call" /\ c.types = types =>
      /\ Carried(types) =>
           /\ c.ran.received = [i \in DOMAIN c.args |-> AsSent(c.args[i])]
           /\ \/ c.outcome = "threw" /\ c.ran.returned = Thrown
              \/ /\ c.outcome = "returned" /\ c.ran.returned \notin {Thrown, NoResult}
                 /\ c.result = AsSent(c.ran.returned)
      /\ (\E i \in DOMAIN types.params : DecodedBy(types, i) = "char") =>
           /\ c.ran.returned = NoResult
           /\ c.outcome = "threw" \/ (c.outcome = "undefined" /\ ~Straight(types))

(* So does the result of a remote call get to its caller, and the arguments *)
(* of a notification that has them in an array to the function.             *)
ResultArrives(c) ==
    /\ c.how = "remote" /\ c.ran.outcome = "ran" /\ Carried(c.types)
    /\ HasType(c.types.result, c.ran.answer)
    => c.outcome = "returned" /\ c.result = c.ran.answer

Items(params) ==
    [i \in 1..Cardinality(Keys(params, Root)) |-> Sub(params, << <<i>> >>)]

NotificationArrives(c, types) ==
    /\ c.how = "notification" /\ TypeOf(c.args) = "array"
    /\ Carried(types) /\ Matches(types, Items(c.args))
    => \/ Items(c.args) = <<>>
       \/ /\ c.ran.received = Items(c.args) /\ c.ran.returned # NoResult
          /\ c.outcome = "returned"

CallsArriveAsMade ==
    /\ lastCall.name \in DOMAIN mFunctions =>
         /\ CallArrives(lastCall, mFunctions[lastCall.name])
         /\ NotificationArrives(lastCall, mFunctions[lastCall.name])
    /\ ResultArrives(lastCall)
==============================================================================
